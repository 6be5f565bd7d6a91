----------------------- MODULE BrowserSessions_proofs -----------------------
(***************************************************************************)
(* Proofs about the sessions that hold a browser or a page: the password   *)
(* login in the browser and the QR login manager; for every set of pages   *)
(* and sessions and any number of attempts and rounds.                     *)
(***************************************************************************)
EXTENDS BrowserLogin, QrLogin, TLAPS

-----------------------------------------------------------------------------
\* BrowserLogin

\* Where a clause has been passed on the way out
Leaving == {"restore", "close", "closeBrowser", "stop", "stopAgain", "release", "outer", "returned"}
BeforeSwap == {"idle", "playwright", "browser", "context", "page", "goto"}

Backs == {"none", "frames", "confirmOther", "refuse", "confirmLast"}

\* The object's own page is in place before the swap and behind the clause
\* that restores it, whatever happens in between.
OwnPage == step \in (BeforeSwap \cup Leaving) \ {"restore"} => own = "self"

\* The browser's end is behind each release, or known to be out of reach.
BrowserEnded ==
    /\ step \in {"release", "outer", "returned"} => up = {} \/ lost
    /\ slot = "free" => step \in {"outer", "returned"}
    /\ step = "idle" => up = {}
    /\ step = "playwright" => up = {}

ModeKept ==
    /\ clean \in BOOLEAN /\ refresh \in [now : BOOLEAN, before : BOOLEAN]
    /\ step = "returned" => refresh.now = refresh.before

\* Cookies come from three places, each behind a probe that said yes.
ProbedCookies ==
    /\ back \in Backs
    /\ step \in {"collect", "cookies", "reload"} => probed
    /\ result = "cookies" => probed /\ step \in Leaving

BrowserInv == OwnPage /\ BrowserEnded /\ ModeKept /\ ProbedCookies

-----------------------------------------------------------------------------
LEMMA BrowserInitInv == BrowserLoginInit => BrowserInv
BY DEF BrowserLoginInit, BrowserInv, OwnPage, BrowserEnded, ModeKept, ProbedCookies,
       Leaving, BeforeSwap, Backs

\* Every action keeps the four parts: most only look and go on, a few leave
\* through Leave, and the finally clauses follow one after the other.
LEMMA BrowserStep == BrowserInv /\ [BrowserLoginNext]_loginVars => BrowserInv'
<1> SUFFICES ASSUME BrowserInv, [BrowserLoginNext]_loginVars PROVE BrowserInv'
  OBVIOUS
<1> USE DEF BrowserInv, OwnPage, BrowserEnded, ModeKept, ProbedCookies, Leaving, BeforeSwap, Backs, MoveTo
<1>1. CASE BeginLogin
  BY <1>1 DEF BeginLogin
<1>2. CASE GotoLogin
  BY <1>2 DEF GotoLogin
<1>3. CASE FindForm
  BY <1>3 DEF FindForm, FormOr, LookThen
<1>4. CASE ClickEntry
  BY <1>4 DEF ClickEntry, FormOr, LookThen
<1>5. CASE BlankPage
  BY <1>5 DEF BlankPage, Probe, ProbedTo
<1>6. CASE CollectPlain
  BY <1>6 DEF CollectPlain, Leave
<1>7. CASE Refuse
  BY <1>7 DEF Refuse, Fail, Leave
<1>8. CASE Collect
  BY <1>8 DEF Collect, GiveCookies, Fail, Leave
<1>9. CASE Swap
  BY <1>9 DEF Swap
<1>10. CASE LoginErrorLook
  BY <1>10 DEF LoginErrorLook, DetectThen
<1>11. CASE SliderInFrames
  BY <1>11 DEF SliderInFrames, LookThen
<1>12. CASE SolveInFrames
  BY <1>12 DEF SolveInFrames, Fail, Leave, LookThen
<1>13. CASE ProbeAfterSlider
  BY <1>13 DEF ProbeAfterSlider, Probe, ProbedTo, ProbedToDetect
<1>14. CASE ProbeInFrames
  BY <1>14 DEF ProbeInFrames, Probe, ProbedTo, ProbedToDetect
<1>15. CASE Fill
  BY <1>15 DEF Fill, Leave, LookThen
<1>16. CASE SliderAfterPress
  BY <1>16 DEF SliderAfterPress, LookThen
<1>17. CASE SolveAfterPress
  BY <1>17 DEF SolveAfterPress, Fail, Leave, LookThen
<1>18. CASE SessionReset
  BY <1>18 DEF SessionReset
<1>19. CASE LateLook
  BY <1>19 DEF LateLook, Fail, Leave, LookThen
<1>20. CASE Confirm
  BY <1>20 DEF Confirm, Probe, ProbedTo
<1>21. CASE ConfirmOther
  BY <1>21 DEF ConfirmOther, Probe, ProbedTo, ProbedToDetect
<1>22. CASE ConfirmLast
  BY <1>22 DEF ConfirmLast, Probe, ProbedTo
<1>23. CASE ReloadPage
  BY <1>23 DEF ReloadPage, LookThen
<1>24. CASE DetectSlider
  BY <1>24 DEF DetectSlider, LookThen
<1>25. CASE DetectOnPage
  BY <1>25 DEF DetectOnPage, Asked, Fail, Leave, LookThen
<1>26. CASE DetectInBox
  BY <1>26 DEF DetectInBox, Asked, Fail, Leave, LookThen
<1>27. CASE DetectInLoginFrames
  BY <1>27 DEF DetectInLoginFrames, Asked, Fail, Leave, LookThen
<1>28. CASE DetectInFrames
  BY <1>28 DEF DetectInFrames, LookThen
<1>29. CASE Notify
  BY <1>29 DEF Notify
<1>30. CASE WaitSolve
  BY <1>30 DEF WaitSolve, LookThen
<1>31. CASE WaitProbe
  BY <1>31 DEF WaitProbe, Probe, ProbedTo
<1>32. CASE Restore
  BY <1>32 DEF Restore
<1>33. CASE CloseContext
  BY <1>33 DEF CloseContext, Closes
<1>34. CASE CloseBrowser
  BY <1>34 DEF CloseBrowser, Closes
<1>35. CASE Stop
  BY <1>35 DEF Stop
<1>36. CASE Release
  BY <1>36 DEF Release
<1>37. CASE PageRaises
  BY <1>37 DEF PageRaises, Fail, Leave
<1>38. CASE LaunchParts
  <2>1. ASSUME NEW at \in {"playwright", "browser", "context", "page"}, NEW part,
               NEW next \in {"browser", "context", "page", "goto"}, Launched(at, part, next)
        PROVE  BrowserInv'
    BY <2>1 DEF Launched
  <2> QED BY <1>38, <2>1 DEF LaunchParts
<1>39. CASE UNCHANGED loginVars
  BY <1>39 DEF loginVars
<1> QED
  BY <1>1, <1>2, <1>3, <1>4, <1>5, <1>6, <1>7, <1>8, <1>9, <1>10, <1>11, <1>12, <1>13, <1>14, <1>15, <1>16, <1>17, <1>18, <1>19, <1>20, <1>21, <1>22, <1>23, <1>24, <1>25, <1>26, <1>27, <1>28, <1>29, <1>30, <1>31, <1>32, <1>33, <1>34, <1>35, <1>36, <1>37, <1>38, <1>39
  DEF BrowserLoginNext, LoginWork, BeforeForm, AfterForm, Verification, Close

-----------------------------------------------------------------------------
\* Whatever raises and wherever, the slot is given back behind the browser's
\* end, and the object with its own page and mode.
THEOREM LoginPutsRight == BrowserLoginSpec => []PutRight
<1>1. BrowserInv => PutRight
  BY DEF BrowserInv, OwnPage, BrowserEnded, ModeKept, PutRight, Leaving, BeforeSwap
<1> QED BY <1>1, BrowserInitInv, BrowserStep, PTL DEF BrowserLoginSpec

\* No path hands cookies over that the login's last probe did not vouch for.
THEOREM CookiesProbed == BrowserLoginSpec => []CookiesAreProbed
<1>1. BrowserInv => CookiesAreProbed
  BY DEF BrowserInv, ProbedCookies, CookiesAreProbed
<1> QED BY <1>1, BrowserInitInv, BrowserStep, PTL DEF BrowserLoginSpec

-----------------------------------------------------------------------------
\* QrLogin

Statuses == {"waiting", "scanned", "verification_required", "success", "expired", "cancelled"}

SessionRecord ==
    [status : Statuses, age : 0..2, long : BOOLEAN, url : BOOLEAN, unb : BOOLEAN,
     task : Pages \cup {NoPage}, shot : BOOLEAN]

PageRecord ==
    [at : {"none", "new", "opening", "watching", "probing", "closing", "end", "abandoned"},
     of : QrSessions \cup {NoPage}, cancelled : BOOLEAN]

QrTypeOK ==
    /\ qr \in [QrSessions -> SessionRecord]
    /\ page \in [Pages -> PageRecord]
    /\ listed \subseteq QrSessions
    /\ monitor \in [QrSessions -> {"none", "loop", "poll", "nap", "end"}]

\* A task that was started belongs to a session whose monitor was, and a
\* session refers only to a task of its own.
TasksOfSessions ==
    /\ \A p \in Pages : page[p].at # "none" => page[p].of \in QrSessions /\ monitor[page[p].of] # "none"
    /\ \A s \in QrSessions : qr[s].task # NoPage => page[qr[s].task].at # "none" /\ page[qr[s].task].of = s

\* A listed session knows its task from before the task's first step, and no
\* task of a listed session was ever told to stop.
ListedKnowTheirTask ==
    \A p \in Pages : page[p].at # "none" /\ page[p].of \in listed =>
        /\ page[p].at # "end" => qr[page[p].of].task = p
        /\ ~page[p].cancelled /\ page[p].at # "abandoned"

QrInv == QrTypeOK /\ TasksOfSessions /\ ListedKnowTheirTask /\ PagesAccountedFor /\ NoOrphanScreenshot

-----------------------------------------------------------------------------
\* A step that touches of a session neither its task nor, except to keep it,
\* its screenshot, and no task and no listing
LEMMA SessionTouched ==
    ASSUME QrInv, QrTypeOK', UNCHANGED <<listed, page>>,
           \A s \in QrSessions : /\ qr'[s].task = qr[s].task
                                 /\ qr'[s].shot => qr[s].shot
                                 /\ monitor[s] # "none" => monitor'[s] # "none"
    PROVE  QrInv'
<1>1. TasksOfSessions'
  BY DEF QrInv, QrTypeOK, PageRecord, SessionRecord, TasksOfSessions
<1>2. ListedKnowTheirTask'
  BY DEF QrInv, QrTypeOK, TasksOfSessions, ListedKnowTheirTask
<1>3. PagesAccountedFor'
  BY DEF QrInv, QrTypeOK, TasksOfSessions, PagesAccountedFor
<1>4. NoOrphanScreenshot'
  BY DEF QrInv, NoOrphanScreenshot
<1> QED BY <1>1, <1>2, <1>3, <1>4 DEF QrInv

\* A step of the running task p: it goes on only with its session listed, or
\* told to stop, and forgets the reference of its session only at its end.
Moves(p) ==
    /\ page'[p].of = page[p].of
    /\ \A o \in Pages \ {p} : page'[o] = page[o]
    /\ page[p].at \notin {"none", "end", "abandoned"} /\ page'[p].at \notin {"none", "abandoned"}
    /\ page[p].of \in listed => ~page'[p].cancelled
    /\ page'[p].at \in {"opening", "watching", "probing"} => page[p].of \in listed \/ page'[p].cancelled
    /\ UNCHANGED <<listed, monitor>>

SessionsFollow(p) ==
    \A s \in QrSessions : /\ s \in listed /\ page'[p].at # "end" => qr'[s].task = qr[s].task
                          /\ qr'[s].task # qr[s].task => s = page[p].of /\ qr'[s].task = NoPage
                          /\ qr'[s].shot => qr[s].shot \/ (s = page[p].of /\ s \in listed)

LEMMA PageMoved ==
    ASSUME QrInv, QrTypeOK', NEW p \in Pages, Moves(p), SessionsFollow(p)
    PROVE  QrInv'
<1>1. page[p].of \in QrSessions
  BY DEF QrInv, TasksOfSessions, Moves
<1>2. TasksOfSessions'
  <2>1. \A o \in Pages : page'[o].of = page[o].of /\ (page'[o].at # "none" <=> page[o].at # "none")
    BY DEF Moves
  <2>2. \A s \in QrSessions : qr'[s].task # NoPage => qr'[s].task = qr[s].task /\ qr[s].task \in Pages
    BY DEF SessionsFollow, QrInv, QrTypeOK, SessionRecord
  <2> QED BY <2>1, <2>2 DEF Moves, QrInv, TasksOfSessions
<1>3. ListedKnowTheirTask'
  BY <1>1 DEF Moves, SessionsFollow, QrInv, TasksOfSessions, ListedKnowTheirTask
<1>4. PagesAccountedFor'
  BY <1>1 DEF Moves, SessionsFollow, QrInv, TasksOfSessions, PagesAccountedFor, ListedKnowTheirTask
<1>5. NoOrphanScreenshot'
  BY DEF Moves, SessionsFollow, QrInv, NoOrphanScreenshot
<1> QED BY <1>2, <1>3, <1>4, <1>5 DEF QrInv

-----------------------------------------------------------------------------
LEMMA QrInitInv == QrInit => QrInv
<1> SUFFICES ASSUME QrInit PROVE QrInv
  OBVIOUS
<1>1. NewSession \in SessionRecord /\ NewSession.task = NoPage /\ NewSession.shot = FALSE
  BY DEF NewSession, SessionRecord, Statuses
<1>2. NoTask \in PageRecord /\ NoTask.at = "none"
  BY DEF NoTask, PageRecord
<1>3. /\ \A s \in QrSessions : qr[s] = NewSession
      /\ \A p \in Pages : page[p] = NoTask
  BY DEF QrInit
<1>4. QrTypeOK
  BY <1>1, <1>2 DEF QrInit, QrTypeOK
<1> QED BY <1>1, <1>2, <1>3, <1>4
        DEF QrInv, TasksOfSessions, ListedKnowTheirTask, PagesAccountedFor, NoOrphanScreenshot

\* A session is listed with no task: its monitor was not started.
LEMMA GenerateInv == ASSUME QrInv, NEW s \in QrSessions, Generate(s) PROVE QrInv'
<1>1. \A p \in Pages : page[p].at # "none" => page[p].of # s
  BY DEF QrInv, TasksOfSessions, Generate
<1>2. QrTypeOK'
  BY DEF QrInv, QrTypeOK, Generate
<1>3. TasksOfSessions' /\ ListedKnowTheirTask'
  BY <1>1 DEF QrInv, QrTypeOK, TasksOfSessions, ListedKnowTheirTask, Generate
<1>4. PagesAccountedFor' /\ NoOrphanScreenshot'
  BY <1>1 DEF QrInv, QrTypeOK, PagesAccountedFor, NoOrphanScreenshot, Generate
<1> QED BY <1>2, <1>3, <1>4 DEF QrInv

\* The table after holds sessions with the tasks and screenshots of before.
SameTasks(before, after) ==
    /\ after \in [QrSessions -> SessionRecord]
    /\ \A t \in QrSessions : after[t].task = before[t].task /\ after[t].shot = before[t].shot

\* One field of a session that is neither its task nor its screenshot
LEMMA FieldSet ==
    ASSUME NEW table \in [QrSessions -> SessionRecord], NEW s \in QrSessions
    PROVE  /\ \A status \in Statuses : SameTasks(table, [table EXCEPT ![s].status = status])
           /\ \A age \in 0..2 : SameTasks(table, [table EXCEPT ![s].age = age])
           /\ \A unb \in BOOLEAN : SameTasks(table, [table EXCEPT ![s].unb = unb])
BY DEF SessionRecord, SameTasks

LEMMA MonitorLoopInv == ASSUME QrInv, NEW s \in QrSessions, MonitorLoop(s) PROVE QrInv'
<1> DEFINE status == IF qr[s].status \in {"success", "expired", "cancelled", "verification_required"}
                     THEN qr[s].status ELSE "expired"
<1>1. qr \in [QrSessions -> SessionRecord] /\ status \in Statuses
  BY DEF QrInv, QrTypeOK, SessionRecord, Statuses
<1>2. qr' = qr \/ qr' = [qr EXCEPT ![s].status = status]
  BY <1>1 DEF MonitorLoop
<1> HIDE DEF status
<1>3. SameTasks(qr, qr')
  <2>1. SameTasks(qr, qr)
    BY <1>1 DEF SameTasks
  <2>2. SameTasks(qr, [qr EXCEPT ![s].status = status])
    BY <1>1, FieldSet
  <2> QED BY <1>2, <2>1, <2>2
<1> QED BY <1>3, SessionTouched DEF SameTasks, QrInv, QrTypeOK, MonitorLoop

\* Under risk control the monitor starts a task when the session has none that runs.
LEMMA EnsureTaskInv ==
    ASSUME QrInv, NEW s \in QrSessions, NEW o \in SessionRecord, o.task = qr[s].task, o.shot = qr[s].shot,
           EnsureTask(s, o), UNCHANGED listed, monitor[s] # "none",
           monitor' = [monitor EXCEPT ![s] = "nap"]
    PROVE  QrInv'
<1>1. CASE o.task # NoPage /\ ~Done(o.task)
  <2>1. qr' = [qr EXCEPT ![s] = o] /\ page' = page
    BY <1>1 DEF EnsureTask
  <2>2. QrTypeOK'
    BY <2>1 DEF QrInv, QrTypeOK
  <2> QED BY <2>1, <2>2, SessionTouched DEF QrInv, QrTypeOK
<1>2. CASE ~(o.task # NoPage /\ ~Done(o.task))
  <2>1. PICK p \in Pages :
            /\ page[p].at = "none"
            /\ qr' = [qr EXCEPT ![s] = [o EXCEPT !.task = p]]
            /\ page' = [page EXCEPT ![p] = [at |-> "new", of |-> s, cancelled |-> FALSE]]
    BY <1>2 DEF EnsureTask
  <2>2. /\ [o EXCEPT !.task = p] \in SessionRecord
        /\ [o EXCEPT !.task = p].task = p /\ [o EXCEPT !.task = p].shot = o.shot
    BY DEF SessionRecord
  <2>3. QrTypeOK'
    BY <2>1, <2>2 DEF QrInv, QrTypeOK, PageRecord
  <2>4. /\ qr'[s].task = p /\ (qr'[s].shot => qr[s].shot)
        /\ \A t \in QrSessions \ {s} : qr'[t] = qr[t]
        /\ page'[p] = [at |-> "new", of |-> s, cancelled |-> FALSE]
        /\ \A q \in Pages \ {p} : page'[q] = page[q]
        /\ \A t \in QrSessions : monitor[t] # "none" => monitor'[t] # "none"
    BY <2>1, <2>2 DEF QrInv, QrTypeOK
  <2>5. \* No other task of the session runs, if it is listed.
        ASSUME NEW q \in Pages, page[q].at \notin {"none", "end"}, page[q].of = s, s \in listed
        PROVE  FALSE
    <3>1. qr[s].task = q /\ page[q].at # "abandoned"
      BY <2>5 DEF QrInv, ListedKnowTheirTask
    <3> QED BY <1>2, <2>5, <3>1, QrAssumption DEF Done
  <2>6. TasksOfSessions'
    BY <2>1, <2>4, <2>3 DEF QrInv, QrTypeOK, TasksOfSessions
  <2>7. ListedKnowTheirTask'
    BY <2>1, <2>4, <2>5 DEF QrInv, QrTypeOK, TasksOfSessions, ListedKnowTheirTask
  <2>8. PagesAccountedFor'
    BY <2>1, <2>4, <2>5 DEF QrInv, QrTypeOK, TasksOfSessions, PagesAccountedFor
  <2>9. NoOrphanScreenshot'
    BY <2>4 DEF QrInv, QrTypeOK, NoOrphanScreenshot
  <2> QED BY <2>3, <2>6, <2>7, <2>8, <2>9 DEF QrInv
<1> QED BY <1>1, <1>2

LEMMA PollAnsweredInv == ASSUME QrInv, NEW s \in QrSessions, PollAnswered(s) PROVE QrInv'
<1>1. /\ qr \in [QrSessions -> SessionRecord] /\ qr[s] \in SessionRecord
      /\ monitor[s] = "poll" /\ listed' = listed
  BY DEF QrInv, QrTypeOK, PollAnswered
<1>2. ASSUME EnsureTask(s, [qr[s] EXCEPT !.status = "verification_required", !.url = TRUE, !.long = TRUE]),
             MonitorLoopTo(s, "nap")
      PROVE  QrInv'
  <2> DEFINE o == [qr[s] EXCEPT !.status = "verification_required", !.url = TRUE, !.long = TRUE]
  <2>1. o \in SessionRecord /\ o.task = qr[s].task /\ o.shot = qr[s].shot
    BY <1>1 DEF SessionRecord, Statuses
  <2> HIDE DEF o
  <2>2. EnsureTask(s, o)
    BY <1>2 DEF o
  <2> QED BY <1>1, <1>2, <2>1, <2>2, EnsureTaskInv DEF MonitorLoopTo
<1>3. ASSUME NEW at \in {"loop", "nap", "end"}, page' = page, MonitorLoopTo(s, at),
             SameTasks(qr, qr')
      PROVE  QrInv'
  BY <1>1, <1>3, SessionTouched DEF SameTasks, MonitorLoopTo, QrInv, QrTypeOK
<1>4. ASSUME NEW status \in Statuses, NEW at \in {"loop", "nap", "end"}, page' = page, MonitorLoopTo(s, at),
             qr' = [qr EXCEPT ![s].status = status]
      PROVE  QrInv'
  BY <1>1, <1>3, <1>4, FieldSet
<1>5. CASE /\ \E unb \in BOOLEAN :
                IF unb \/ qr[s].unb
                THEN /\ qr' = [qr EXCEPT ![s].unb = TRUE, ![s].status = "success"]
                     /\ MonitorLoopTo(s, "end")
                ELSE /\ MonitorLoopTo(s, "nap") /\ UNCHANGED qr
           /\ UNCHANGED page
  <2>1. CASE qr' = [qr EXCEPT ![s].unb = TRUE, ![s].status = "success"] /\ MonitorLoopTo(s, "end")
    <3> DEFINE known == [qr EXCEPT ![s].unb = TRUE]
    <3>1. SameTasks(qr, known)
      BY <1>1, FieldSet
    <3>2. qr' = [known EXCEPT ![s].status = "success"]
      BY <2>1
    <3> HIDE DEF known
    <3>3. "success" \in Statuses
      BY DEF Statuses
    <3>4. SameTasks(known, qr')
      <4>1. known \in [QrSessions -> SessionRecord]
        BY <3>1 DEF SameTasks
      <4> QED BY <3>2, <3>3, <4>1, FieldSet
    <3>5. SameTasks(qr, qr')
      BY <3>1, <3>4 DEF SameTasks
    <3> QED BY <1>3, <1>5, <2>1, <3>5
  <2>2. CASE qr' = qr /\ MonitorLoopTo(s, "nap")
    BY <1>1, <1>3, <1>5, <2>2 DEF SameTasks
  <2> QED BY <1>5, <2>1, <2>2
<1>6. CASE /\ qr' = [qr EXCEPT ![s].status = IF @ = "waiting" THEN "scanned" ELSE @]
           /\ MonitorLoopTo(s, "nap") /\ UNCHANGED page
  <2> DEFINE status == IF qr[s].status = "waiting" THEN "scanned" ELSE qr[s].status
  <2>1. qr' = [qr EXCEPT ![s].status = status] /\ status \in Statuses
    BY <1>1, <1>6 DEF SessionRecord, Statuses
  <2> HIDE DEF status
  <2> QED BY <1>4, <1>6, <2>1
<1>7. CASE MonitorLoopTo(s, "loop") /\ UNCHANGED <<qr, page>>
  BY <1>1, <1>3, <1>7 DEF SameTasks
<1>8. CASE /\ \E final \in {"expired", "cancelled"} :
                IF qr[s].status = "verification_required"
                THEN /\ MonitorLoopTo(s, "nap") /\ UNCHANGED qr
                ELSE /\ MonitorLoopTo(s, "end")
                     /\ qr' = [qr EXCEPT ![s].status = final]
           /\ UNCHANGED page
  <2>1. PICK final \in {"expired", "cancelled"} :
            \/ MonitorLoopTo(s, "nap") /\ qr' = qr
            \/ MonitorLoopTo(s, "end") /\ qr' = [qr EXCEPT ![s].status = final]
    BY <1>8
  <2>2. final \in Statuses
    BY DEF Statuses
  <2> QED BY <1>1, <1>3, <1>4, <1>8, <2>1, <2>2 DEF SameTasks
<1>9. \/ /\ EnsureTask(s, [qr[s] EXCEPT !.status = "verification_required", !.url = TRUE, !.long = TRUE])
         /\ MonitorLoopTo(s, "nap")
      \/ /\ \E unb \in BOOLEAN :
              IF unb \/ qr[s].unb
              THEN /\ qr' = [qr EXCEPT ![s].unb = TRUE, ![s].status = "success"]
                   /\ MonitorLoopTo(s, "end")
              ELSE /\ MonitorLoopTo(s, "nap") /\ UNCHANGED qr
         /\ UNCHANGED page
      \/ /\ qr' = [qr EXCEPT ![s].status = IF @ = "waiting" THEN "scanned" ELSE @]
         /\ MonitorLoopTo(s, "nap") /\ UNCHANGED page
      \/ MonitorLoopTo(s, "loop") /\ UNCHANGED <<qr, page>>
      \/ /\ \E final \in {"expired", "cancelled"} :
              IF qr[s].status = "verification_required"
              THEN /\ MonitorLoopTo(s, "nap") /\ UNCHANGED qr
              ELSE /\ MonitorLoopTo(s, "end")
                   /\ qr' = [qr EXCEPT ![s].status = final]
         /\ UNCHANGED page
  BY Zenon DEF PollAnswered
<1> QED BY <1>2, <1>5, <1>6, <1>7, <1>8, <1>9

LEMMA PollOverInv == ASSUME QrInv, NEW s \in QrSessions, PollOver(s) PROVE QrInv'
BY SessionTouched DEF QrInv, QrTypeOK, PollOver, MonitorLoopTo

LEMMA NapOverInv == ASSUME QrInv, NEW s \in QrSessions, NapOver(s) PROVE QrInv'
BY SessionTouched DEF QrInv, QrTypeOK, NapOver, MonitorLoopTo

LEMMA GenerateFailsInv == ASSUME QrInv, NEW s \in QrSessions, GenerateFails(s) PROVE QrInv'
BY SessionTouched DEF QrInv, QrTypeOK, GenerateFails

LEMMA AgeInv == ASSUME QrInv, NEW s \in QrSessions, Age(s) PROVE QrInv'
<1>1. qr \in [QrSessions -> SessionRecord] /\ qr[s].age + 1 \in 0..2
  BY DEF QrInv, QrTypeOK, SessionRecord, Age
<1>2. qr' = [qr EXCEPT ![s].age = qr[s].age + 1]
  BY <1>1 DEF Age
<1>3. SameTasks(qr, qr')
  BY <1>1, <1>2, FieldSet
<1> QED BY <1>3, SessionTouched DEF SameTasks, QrInv, QrTypeOK, Age

LEMMA StatusAskedInv == ASSUME QrInv, NEW s \in QrSessions, StatusAsked(s) PROVE QrInv'
<1>1. qr \in [QrSessions -> SessionRecord] /\ "expired" \in Statuses
  BY DEF QrInv, QrTypeOK, Statuses
<1>2. qr' = [qr EXCEPT ![s].status = "expired"]
  BY DEF StatusAsked
<1>3. SameTasks(qr, qr')
  BY <1>1, <1>2, FieldSet
<1> QED BY <1>3, SessionTouched DEF SameTasks, QrInv, QrTypeOK, StatusAsked

\* The sweep tells the task of the session to stop, if it runs, and forgets both.
LEMMA SweepInv == ASSUME QrInv, NEW s \in QrSessions, Sweep(s) PROVE QrInv'
<1> DEFINE t == qr[s].task
           r == [qr[s] EXCEPT !.task = NoPage, !.shot = FALSE]
<1>1. /\ qr \in [QrSessions -> SessionRecord] /\ page \in [Pages -> PageRecord]
      /\ qr[s] \in SessionRecord
  BY DEF QrInv, QrTypeOK
<1>2. r \in SessionRecord /\ r.task = NoPage /\ r.shot = FALSE
  BY <1>1 DEF SessionRecord
<1>3. /\ qr' = [qr EXCEPT ![s] = r] /\ listed' = listed \ {s} /\ UNCHANGED monitor /\ s \in listed
      /\ page' = IF t # NoPage /\ ~Done(t) THEN [page EXCEPT ![t].cancelled = TRUE] ELSE page
  BY <1>1 DEF Sweep
<1>4. t \in Pages \cup {NoPage}
  BY <1>1 DEF SessionRecord
<1>5. t # NoPage => page[t].of = s
  BY DEF QrInv, TasksOfSessions
<1> HIDE DEF r, t
<1>6. \A p \in Pages : /\ page'[p].at = page[p].at /\ page'[p].of = page[p].of
                       /\ page'[p] # page[p] => p = t /\ ~Done(t) /\ page[p].of = s
                       /\ p = t /\ ~Done(t) => page'[p].cancelled
  BY <1>1, <1>3, <1>4, <1>5, QrAssumption DEF PageRecord
<1>7. page' \in [Pages -> PageRecord]
  BY <1>1, <1>3, <1>4, QrAssumption DEF PageRecord
<1>8. QrTypeOK'
  BY <1>2, <1>3, <1>7 DEF QrInv, QrTypeOK
<1>9. \A u \in QrSessions : qr'[u] = IF u = s THEN r ELSE qr[u]
  BY <1>1, <1>3
<1>10. TasksOfSessions'
  <2>1. \A u \in QrSessions \ {s} : qr[u].task \in Pages \cup {NoPage}
    BY <1>1 DEF SessionRecord
  <2>2. \A u \in QrSessions : qr'[u].task # NoPage => u # s /\ qr'[u].task = qr[u].task
    BY <1>2, <1>9
  <2> QED BY <1>3, <1>6, <2>1, <2>2 DEF QrInv, TasksOfSessions
<1>11. ListedKnowTheirTask'
  <2> SUFFICES ASSUME NEW p \in Pages, page[p].at # "none", page[p].of \in listed, page[p].of # s
               PROVE  /\ page[p].at # "end" => qr'[page[p].of].task = p
                      /\ ~page'[p].cancelled /\ page[p].at # "abandoned"
    BY <1>3, <1>6 DEF ListedKnowTheirTask
  <2>1. page'[p] = page[p] /\ qr'[page[p].of] = qr[page[p].of]
    BY <1>6, <1>9 DEF QrInv, TasksOfSessions
  <2> QED BY <2>1 DEF QrInv, ListedKnowTheirTask
<1>12. PagesAccountedFor'
  <2> SUFFICES ASSUME NEW p \in Pages, page[p].at \in {"opening", "watching", "probing", "closing", "abandoned"}
               PROVE  IF page[p].of \in listed' THEN qr'[page[p].of].task = p
                      ELSE page'[p].cancelled \/ page[p].at \in {"closing", "abandoned"}
    BY <1>6 DEF PagesAccountedFor
  <2>1. page[p].of \in QrSessions
    BY DEF QrInv, TasksOfSessions
  <2>2. CASE page[p].of = s
    <3>1. t = p
      BY <1>3, <2>2 DEF QrInv, PagesAccountedFor, t
    <3> QED BY <1>3, <1>6, <2>2, <3>1 DEF Done
  <2>3. CASE page[p].of # s
    BY <1>3, <1>6, <1>9, <2>1, <2>3 DEF QrInv, PagesAccountedFor
  <2> QED BY <2>2, <2>3
<1>13. NoOrphanScreenshot'
  BY <1>2, <1>3, <1>9 DEF QrInv, NoOrphanScreenshot
<1> QED BY <1>8, <1>10, <1>11, <1>12, <1>13 DEF QrInv

-----------------------------------------------------------------------------
\* Where the step leaves a task, and the rest of the tasks
LEMMA PageSet ==
    ASSUME page \in [Pages -> PageRecord], NEW p \in Pages, NEW at
    PROVE  /\ page' = [page EXCEPT ![p].at = at] =>
                /\ page'[p].at = at /\ page'[p].of = page[p].of /\ page'[p].cancelled = page[p].cancelled
                /\ \A o \in Pages \ {p} : page'[o] = page[o]
BY DEF PageRecord

\* What a running task stands on: its session, and whether that is listed.
LEMMA RunningPage ==
    ASSUME QrInv, NEW p \in Pages, page[p].at \notin {"none", "end", "abandoned"}
    PROVE  /\ page[p] \in PageRecord /\ page[p].of \in QrSessions
           /\ qr \in [QrSessions -> SessionRecord] /\ qr[page[p].of] \in SessionRecord
           /\ page[p].of \in listed => ~page[p].cancelled
           /\ page[p].at \in {"opening", "watching", "probing"} =>
                 page[p].of \in listed \/ page[p].cancelled
BY DEF QrInv, QrTypeOK, TasksOfSessions, ListedKnowTheirTask, PagesAccountedFor

\* The next place of a task whose step changes no session
LEMMA PageGone ==
    ASSUME QrInv, NEW p \in Pages, page[p].at \notin {"none", "end", "abandoned"},
           NEW at \in {"opening", "watching", "probing", "closing", "end"},
           page' = [page EXCEPT ![p].at = at], UNCHANGED <<qr, listed, monitor>>,
           at \in {"opening", "watching", "probing"} => page[p].of \in listed \/ page[p].cancelled
    PROVE  QrInv'
<1>1. page \in [Pages -> PageRecord] /\ page[p] \in PageRecord
  BY DEF QrInv, QrTypeOK
<1>2. page[p].of \in listed => ~page[p].cancelled
  BY RunningPage
<1>3. Moves(p)
  BY <1>1, <1>2, PageSet DEF Moves
<1>4. QrTypeOK'
  BY <1>1 DEF QrInv, QrTypeOK, PageRecord
<1>5. SessionsFollow(p)
  BY DEF SessionsFollow
<1> QED BY <1>3, <1>4, <1>5, PageMoved

LEMMA PageStartInv == ASSUME QrInv, NEW p \in Pages, PageStart(p) PROVE QrInv'
BY PageGone DEF PageStart, GoTo

LEMMA PageWatchInv == ASSUME QrInv, NEW p \in Pages, PageWatch(p) PROVE QrInv'
BY PageGone DEF PageWatch, GoTo

LEMMA PageOpenedInv == ASSUME QrInv, NEW p \in Pages, PageOpened(p) PROVE QrInv'
<1> DEFINE s == page[p].of
<1>1. /\ page[p].at = "opening" /\ ~page[p].cancelled /\ UNCHANGED <<listed, monitor>>
      /\ page' = [page EXCEPT ![p].at = "watching"]
      /\ s \in listed /\ s \in QrSessions /\ qr \in [QrSessions -> SessionRecord] /\ page \in [Pages -> PageRecord]
  BY RunningPage DEF PageOpened, GoTo, QrInv, QrTypeOK
<1>2. PICK shot \in BOOLEAN : qr' = [qr EXCEPT ![s].shot = shot]
  BY <1>1 DEF PageOpened, SessionRecord
<1> HIDE DEF s
<1>3. /\ qr' \in [QrSessions -> SessionRecord]
      /\ \A t \in QrSessions : qr'[t].task = qr[t].task /\ (qr'[t].shot => qr[t].shot \/ t = s)
  BY <1>1, <1>2 DEF SessionRecord
<1>4. Moves(p)
  BY <1>1, PageSet DEF Moves, s
<1>6. SessionsFollow(p)
  BY <1>1, <1>3 DEF SessionsFollow, s
<1>5. QrTypeOK'
  BY <1>1, <1>3 DEF QrInv, QrTypeOK, PageRecord
<1> QED BY <1>4, <1>5, <1>6, PageMoved

LEMMA PageProbedInv == ASSUME QrInv, NEW p \in Pages, PageProbed(p) PROVE QrInv'
<1> DEFINE s == page[p].of
<1>1. /\ page[p].at = "probing" /\ ~page[p].cancelled /\ UNCHANGED <<listed, monitor>>
      /\ s \in listed /\ s \in QrSessions /\ qr \in [QrSessions -> SessionRecord] /\ page \in [Pages -> PageRecord]
  BY RunningPage DEF PageProbed, QrInv, QrTypeOK
<1>2. CASE qr' = qr /\ page' = [page EXCEPT ![p].at = "watching"]
  BY <1>1, <1>2, PageGone
<1>3. CASE /\ qr' = [qr EXCEPT ![s].status = "success", ![s].unb = TRUE]
           /\ page' = [page EXCEPT ![p].at = "closing"]
  <2> DEFINE won == [qr EXCEPT ![s].status = "success"]
  <2>1. won \in [QrSessions -> SessionRecord] /\ SameTasks(qr, won)
    <3>1. "success" \in Statuses
      BY DEF Statuses
    <3>2. SameTasks(qr, won)
      BY <1>1, <3>1, FieldSet
    <3> QED BY <3>2 DEF SameTasks
  <2>2. qr' = [won EXCEPT ![s].unb = TRUE]
    BY <1>3
  <2> HIDE DEF won
  <2>3. SameTasks(won, qr')
    BY <1>1, <2>1, <2>2, FieldSet
  <2>4. Moves(p)
    BY <1>1, <1>3, PageSet DEF Moves
  <2>5. QrTypeOK'
    BY <1>1, <1>3, <2>3 DEF QrInv, QrTypeOK, PageRecord, SameTasks
  <2>6. \A t \in QrSessions : qr'[t].task = qr[t].task /\ qr'[t].shot = qr[t].shot
    BY <2>1, <2>3 DEF SameTasks
  <2>7. SessionsFollow(p)
    BY <2>6 DEF SessionsFollow
  <2> QED BY <2>4, <2>5, <2>7, PageMoved
<1> QED BY <1>2, <1>3 DEF PageProbed, GoTo

LEMMA PageFailsInv == ASSUME QrInv, NEW p \in Pages, PageFails(p) PROVE QrInv'
<1>1. page \in [Pages -> PageRecord] /\ UNCHANGED <<qr, listed, monitor>>
  BY DEF PageFails, QrInv, QrTypeOK
<1>2. QrTypeOK'
  BY DEF PageFails, QrInv, QrTypeOK, PageRecord
<1>3. Moves(p) /\ SessionsFollow(p)
  <2>1. /\ page' = [page EXCEPT ![p].at = "closing", ![p].cancelled = FALSE]
        /\ page[p].at \in {"opening", "watching", "probing"}
    BY DEF PageFails
  <2>2. /\ page'[p].at = "closing" /\ page'[p].of = page[p].of /\ page'[p].cancelled = FALSE
        /\ \A o \in Pages \ {p} : page'[o] = page[o]
    BY <1>1, <2>1 DEF PageRecord
  <2> QED BY <1>1, <2>1, <2>2 DEF Moves, SessionsFollow
<1> QED BY <1>2, <1>3, PageMoved

\* A task told to stop is of a session that is not listed: it leaves nothing behind that counts.
LEMMA PageCancelledInv == ASSUME QrInv, NEW p \in Pages, PageCancelled(p) PROVE QrInv'
<1> DEFINE at == IF page[p].at = "new" THEN "end" ELSE "abandoned"
<1>1. /\ page[p].cancelled /\ page[p].at \in {"new", "closing"} /\ UNCHANGED <<qr, listed, monitor>>
      /\ page \in [Pages -> PageRecord] /\ page[p].of \in QrSessions /\ page[p].of \notin listed
  BY RunningPage DEF PageCancelled, QrInv, QrTypeOK
<1>2. page' = [page EXCEPT ![p].at = at, ![p].cancelled = FALSE]
  BY <1>1 DEF PageCancelled, PageRecord
<1>3. QrTypeOK'
  BY <1>1, <1>2 DEF QrInv, QrTypeOK, PageRecord
<1>4. /\ page'[p].at = at /\ page'[p].of = page[p].of
      /\ \A o \in Pages \ {p} : page'[o] = page[o]
  BY <1>1, <1>2 DEF PageRecord
<1>5. TasksOfSessions'
  BY <1>1, <1>4 DEF QrInv, TasksOfSessions, QrTypeOK, SessionRecord
<1>6. ListedKnowTheirTask' /\ PagesAccountedFor' /\ NoOrphanScreenshot'
  BY <1>1, <1>4 DEF QrInv, ListedKnowTheirTask, PagesAccountedFor, NoOrphanScreenshot
<1> QED BY <1>3, <1>5, <1>6 DEF QrInv

\* The task ends, and with it the reference of its session, if that is listed.
LEMMA PageClosedInv == ASSUME QrInv, NEW p \in Pages, PageClosed(p) PROVE QrInv'
<1> DEFINE s == page[p].of
<1>1. /\ page[p].at = "closing" /\ ~page[p].cancelled /\ UNCHANGED <<listed, monitor>>
      /\ page' = [page EXCEPT ![p].at = "end"]
      /\ qr' = IF s \in listed THEN [qr EXCEPT ![s].task = NoPage] ELSE qr
      /\ s \in QrSessions /\ qr \in [QrSessions -> SessionRecord] /\ page \in [Pages -> PageRecord]
  BY RunningPage DEF PageClosed, GoTo, QrInv, QrTypeOK
<1> HIDE DEF s
<1>2. /\ qr' \in [QrSessions -> SessionRecord]
      /\ \A t \in QrSessions : /\ qr'[t].task \in {qr[t].task, NoPage}
                               /\ qr'[t].task # qr[t].task => t = s
                               /\ qr'[t].shot = qr[t].shot
  BY <1>1 DEF SessionRecord
<1>3. page'[p].at = "end" /\ Moves(p)
  <2>1. /\ page'[p].at = "end" /\ page'[p].of = page[p].of /\ page'[p].cancelled = page[p].cancelled
        /\ \A o \in Pages \ {p} : page'[o] = page[o]
    BY <1>1, PageSet
  <2> QED BY <1>1, <2>1 DEF Moves
<1>5. SessionsFollow(p)
  <2>1. \A t \in QrSessions : qr'[t].task # qr[t].task => t = page[p].of /\ qr'[t].task = NoPage
    BY <1>2 DEF s
  <2> QED BY <1>2, <1>3, <2>1 DEF SessionsFollow
<1>4. QrTypeOK'
  BY <1>1, <1>2 DEF QrInv, QrTypeOK, PageRecord
<1> QED BY <1>3, <1>4, <1>5, PageMoved

-----------------------------------------------------------------------------
\* Every step of monitor, page, query and sweep keeps the invariant.
LEMMA QrStep == QrInv /\ [QrNext]_qrVars => QrInv'
<1> SUFFICES ASSUME QrInv, [QrNext]_qrVars PROVE QrInv'
  OBVIOUS
<1>1. ASSUME NEW s \in QrSessions,
             Generate(s) \/ GenerateFails(s) \/ MonitorStep(s) \/ Age(s) \/ StatusAsked(s) \/ Sweep(s)
      PROVE  QrInv'
  BY <1>1, GenerateInv, GenerateFailsInv, MonitorLoopInv, PollAnsweredInv, PollOverInv, NapOverInv, AgeInv,
     StatusAskedInv, SweepInv DEF MonitorStep
<1>2. ASSUME NEW p \in Pages, PageStep(p) PROVE QrInv'
  BY <1>2, PageStartInv, PageOpenedInv, PageWatchInv, PageProbedInv, PageFailsInv, PageCancelledInv,
     PageClosedInv DEF PageStep
<1>3. CASE UNCHANGED qrVars
  BY <1>3 DEF qrVars, QrInv, QrTypeOK, TasksOfSessions, ListedKnowTheirTask, PagesAccountedFor, NoOrphanScreenshot
<1> QED BY <1>1, <1>2, <1>3 DEF QrNext

\* The strengthening of the three properties of the QR login holds always.
LEMMA QrInvariant == QrSpec => []QrInv
BY QrInitInv, QrStep, PTL DEF QrSpec

\* PagesAccountedFor, for any sessions and any number of page tasks: however
\* polls, starts, cancellations, expiry and sweeps of the QR login manager
\* interleave, an open verification page is the task its listed session refers
\* to, or it was told to close or is closing.
THEOREM PagesAccounted == QrSpec => []PagesAccountedFor
<1>1. QrInv => PagesAccountedFor
  BY DEF QrInv
<1> QED BY <1>1, QrInvariant, PTL

\* NoOrphanScreenshot: a sweep takes the screenshot with its session, also
\* where the page task that made it comes back to take another.
THEOREM ScreenshotsSwept == QrSpec => []NoOrphanScreenshot
<1>1. QrInv => NoOrphanScreenshot
  BY DEF QrInv
<1> QED BY <1>1, QrInvariant, PTL

-----------------------------------------------------------------------------
\* No branch of the monitor, the page, the query or the sweep takes a success back.
LEMMA SuccessKept ==
    ASSUME QrInv, QrNext, NEW s \in QrSessions, qr[s].status = "success"
    PROVE  qr'[s].status = "success"
<1>1. qr \in [QrSessions -> SessionRecord]
  BY DEF QrInv, QrTypeOK
<1>2. ASSUME NEW t \in QrSessions, MonitorLoop(t) PROVE qr'[s].status = "success"
  <2>1. CASE t = s
    BY <1>1, <1>2, <2>1 DEF MonitorLoop, SessionRecord
  <2>2. CASE t # s
    BY <1>1, <1>2, <2>2 DEF MonitorLoop
  <2> QED BY <2>1, <2>2
<1>3. ASSUME NEW t \in QrSessions, PollAnswered(t) PROVE qr'[s].status = "success"
  <2>1. t # s
    BY <1>3 DEF PollAnswered, NotYet
  <2>2. qr'[s] = qr[s]
    BY <1>1, <1>3, <2>1 DEF PollAnswered, EnsureTask
  <2> QED BY <2>2
<1>4. ASSUME NEW t \in QrSessions, Age(t) \/ StatusAsked(t) PROVE qr'[s].status = "success"
  BY <1>1, <1>4 DEF Age, StatusAsked, SessionRecord
<1>5. ASSUME NEW t \in QrSessions, Sweep(t) PROVE qr'[s].status = "success"
  <2> DEFINE r == [qr[t] EXCEPT !.task = NoPage, !.shot = FALSE]
  <2>1. r.status = qr[t].status
    BY <1>1 DEF SessionRecord
  <2>2. qr' = [qr EXCEPT ![t] = r]
    BY <1>1, <1>5 DEF Sweep
  <2> HIDE DEF r
  <2> QED BY <1>1, <2>1, <2>2
<1>6. ASSUME NEW p \in Pages, PageOpened(p) PROVE qr'[s].status = "success"
  <2> DEFINE t == page[p].of
  <2>1. t \in QrSessions
    BY <1>6, RunningPage DEF PageOpened
  <2>2. PICK shot \in BOOLEAN : qr' = [qr EXCEPT ![t].shot = shot]
    BY <1>1, <1>6, <2>1 DEF PageOpened, SessionRecord
  <2> HIDE DEF t
  <2> QED BY <1>1, <2>2 DEF SessionRecord
<1>9. ASSUME NEW p \in Pages, PageClosed(p) PROVE qr'[s].status = "success"
  BY <1>1, <1>9 DEF PageClosed, SessionRecord
<1>7. ASSUME NEW p \in Pages, PageProbed(p) PROVE qr'[s].status = "success"
  <2>1. page[p].of \in QrSessions
    BY <1>7, RunningPage DEF PageProbed
  <2> DEFINE t == page[p].of
             r == [qr[t] EXCEPT !.status = "success", !.unb = TRUE]
  <2>2. r.status = "success"
    BY <1>1, <2>1 DEF SessionRecord
  <2>3. qr' = qr \/ qr' = [qr EXCEPT ![t] = r]
    BY <1>1, <1>7, <2>1 DEF PageProbed
  <2> HIDE DEF r, t
  <2> QED BY <1>1, <2>2, <2>3
<1>8. ASSUME qr' = qr PROVE qr'[s].status = "success"
  BY <1>8
<1> QED
  BY <1>2, <1>3, <1>4, <1>5, <1>6, <1>7, <1>8, <1>9
  DEF QrNext, MonitorStep, PageStep, Generate, GenerateFails, PollOver, NapOver, PageStart, PageWatch,
      PageFails, PageCancelled

\* QrSuccessIsFinal: when the QR login manager has found a session logged in,
\* by a poll or by the probe of its page, no answer still under way, no expiry
\* and no query sets it to anything else.
THEOREM SuccessIsFinal == QrSpec => QrSuccessIsFinal
<1>1. QrInv /\ [QrNext]_qrVars =>
        [\A s \in QrSessions : qr[s].status = "success" => qr'[s].status = "success"]_qrVars
  BY SuccessKept
<1> QED BY <1>1, QrInvariant, PTL DEF QrSpec, QrSuccessIsFinal
=============================================================================
