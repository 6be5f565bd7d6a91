------------------------------ MODULE QrLogin ------------------------------
(***************************************************************************)
(* The QR login manager (utils/qr_login.py): a session, the monitor that   *)
(* polls the scan status for it, the server-side verification page that    *)
(* the monitor starts when the login is put under risk control, the status *)
(* queries and the sweep of expired sessions.  All run on one event loop   *)
(* and interleave at their awaits.                                         *)
(***************************************************************************)
EXTENDS Integers, FiniteSets

CONSTANTS QrSessions,   \* session ids (uuid4, never reused)
          Pages,        \* tasks of _launch_verification_page
          NoPage

ASSUME QrAssumption == NoPage \notin Pages

VARIABLES
    qr,       \* session id -> its QRLoginSession object
    listed,   \* ids that are keys of manager.sessions
    monitor,  \* id -> "none" | "loop" | "poll" (awaiting the answer) | "nap" | "end"
    page      \* task -> what it is doing and for which session

qrVars == <<qr, listed, monitor, page>>

\* age: 0 before 300 s, 1 from 300 s to 600 s, 2 after; long: expire_time raised to 600
NewSession == [status |-> "waiting", age |-> 0, long |-> FALSE, url |-> FALSE,
               unb |-> FALSE, task |-> NoPage, shot |-> FALSE]
NoTask == [at |-> "none", of |-> NoPage, cancelled |-> FALSE]

QrInit ==
    /\ qr = [s \in QrSessions |-> NewSession]
    /\ listed = {}
    /\ monitor = [s \in QrSessions |-> "none"]
    /\ page = [p \in Pages |-> NoTask]

IsExpired(s) == qr[s].age >= IF qr[s].long THEN 2 ELSE 1

\* generate_qr_code: the session is listed only when every request succeeded
Generate(s) ==
    /\ monitor[s] = "none"
    /\ listed' = listed \cup {s}
    /\ monitor' = [monitor EXCEPT ![s] = "loop"]
    /\ UNCHANGED <<qr, page>>

\* _get_mh5tk, _get_login_params or the generation raises: the id is thrown away
GenerateFails(s) ==
    /\ monitor[s] = "none"
    /\ monitor' = [monitor EXCEPT ![s] = "end"]
    /\ UNCHANGED <<qr, listed, page>>

Done(p) == page[p].at \in {"none", "end", "abandoned"}

EnsureTaskAlways(s, o) ==
    \E p \in Pages :
        /\ page[p].at = "none"
        /\ qr' = [qr EXCEPT ![s] = [o EXCEPT !.task = p]]
        /\ page' = [page EXCEPT ![p] = [at |-> "new", of |-> s, cancelled |-> FALSE]]

\* _ensure_verification_task, for the session object o: the task to keep and the tasks after
EnsureTask(s, o) ==
    IF o.task # NoPage /\ ~Done(o.task)
    THEN /\ qr' = [qr EXCEPT ![s] = o] /\ UNCHANGED page
    ELSE \E p \in Pages :
            /\ page[p].at = "none"
            /\ qr' = [qr EXCEPT ![s] = [o EXCEPT !.task = p]]
            /\ page' = [page EXCEPT ![p] = [at |-> "new", of |-> s, cancelled |-> FALSE]]

MonitorLoopUntimed(s) ==
    /\ monitor[s] = "loop" /\ s \in listed /\ qr[s].status # "success"
    /\ monitor' = [monitor EXCEPT ![s] = "poll"]
    /\ UNCHANGED <<qr, listed, page>>

\* The top of the monitor's loop; start + 300 s lies between ages 1 and 2.
MonitorLoop(s) ==
    /\ monitor[s] = "loop"
    /\ UNCHANGED <<listed, page>>
    /\ \/ /\ qr[s].age < 2 /\ s \in listed /\ qr[s].status # "success"
          /\ monitor' = [monitor EXCEPT ![s] = "poll"]
          /\ UNCHANGED qr
       \/ /\ qr[s].age > 0 \/ s \notin listed \/ qr[s].status = "success"
          /\ monitor' = [monitor EXCEPT ![s] = "end"]
          /\ qr' = [qr EXCEPT ![s].status =
                IF @ \in {"success", "expired", "cancelled", "verification_required"} THEN @ ELSE "expired"]

MonitorLoopTo(s, t) == monitor' = [monitor EXCEPT ![s] = t]

NotYetAnyway(s) == TRUE
\* Nothing more of the answer is looked at once another path has succeeded.
NotYet(s) == qr[s].status # "success"

\* The answer arrives; every branch but the last two sleeps and polls again.
PollAnswered(s) ==
    /\ monitor[s] = "poll" /\ NotYet(s)
    /\ UNCHANGED listed
    /\ \/ /\ EnsureTask(s, [qr[s] EXCEPT !.status = "verification_required", !.url = TRUE, !.long = TRUE])
          /\ MonitorLoopTo(s, "nap")                              \* CONFIRMED with iframeRedirect
       \/ /\ \E unb \in BOOLEAN :                                 \* CONFIRMED: cookies merged first
                IF unb \/ qr[s].unb
                THEN /\ qr' = [qr EXCEPT ![s].unb = TRUE, ![s].status = "success"]
                     /\ MonitorLoopTo(s, "end")
                ELSE /\ MonitorLoopTo(s, "nap") /\ UNCHANGED qr
          /\ UNCHANGED page
       \/ /\ qr' = [qr EXCEPT ![s].status = IF @ = "waiting" THEN "scanned" ELSE @]  \* SCANED
          /\ MonitorLoopTo(s, "nap") /\ UNCHANGED page
       \/ /\ MonitorLoopTo(s, "loop") /\ UNCHANGED <<qr, page>>                      \* NEW
       \/ \E final \in {"expired", "cancelled"} :                                    \* EXPIRED, other
            /\ IF qr[s].status = "verification_required"
               THEN /\ MonitorLoopTo(s, "nap") /\ UNCHANGED qr
               ELSE /\ MonitorLoopTo(s, "end")
                    /\ qr' = [qr EXCEPT ![s].status = final]
            /\ UNCHANGED page

\* The request fails, or the answer comes after a success.
PollOver(s) ==
    /\ monitor[s] = "poll"
    /\ \/ qr[s].status = "success" /\ MonitorLoopTo(s, "end")
       \/ MonitorLoopTo(s, "nap")
    /\ UNCHANGED <<qr, listed, page>>

NapOver(s) ==
    /\ monitor[s] = "nap"
    /\ MonitorLoopTo(s, "loop")
    /\ UNCHANGED <<qr, listed, page>>

-----------------------------------------------------------------------------
GoTo(p, at) == page' = [page EXCEPT ![p].at = at]

\* The task runs for the first time: without its session or url it returns.
PageStart(p) ==
    /\ page[p].at = "new" /\ ~page[p].cancelled
    /\ GoTo(p, IF page[p].of \in listed /\ qr[page[p].of].url THEN "opening" ELSE "end")
    /\ UNCHANGED <<qr, listed, monitor>>

\* browser, context, cookies, goto and screenshot; the picture is kept or not
PageOpened(p) ==
    /\ page[p].at = "opening" /\ ~page[p].cancelled
    /\ \E shot \in BOOLEAN : qr' = [qr EXCEPT ![page[p].of].shot = @ \/ shot]
    /\ GoTo(p, "watching")
    /\ UNCHANGED <<listed, monitor>>

Watched == {"verification_required", "scanned", "waiting", "processing"}

\* The loop looks up the session and probes the browser, which awaits.
PageWatch(p) ==
    /\ page[p].at = "watching" /\ ~page[p].cancelled
    /\ GoTo(p, IF page[p].of \in listed /\ qr[page[p].of].status \in Watched THEN "probing" ELSE "closing")
    /\ UNCHANGED <<qr, listed, monitor>>

\* _probe_browser_login_success: _mark_session_success, whatever the status has become
PageProbed(p) ==
    /\ page[p].at = "probing" /\ ~page[p].cancelled
    /\ UNCHANGED <<listed, monitor>>
    /\ \/ /\ qr' = [qr EXCEPT ![page[p].of].status = "success", ![page[p].of].unb = TRUE]
          /\ GoTo(p, "closing")
       \/ GoTo(p, "watching") /\ UNCHANGED qr

\* An exception in any of these, or the cancellation at the await it stands at.
PageFails(p) ==
    /\ page[p].at \in {"opening", "watching", "probing"}
    /\ page' = [page EXCEPT ![p].at = "closing", ![p].cancelled = FALSE]
    /\ UNCHANGED <<qr, listed, monitor>>

\* A task cancelled before its first step never runs; one cancelled inside its
\* finally block leaves it there, the rest unclosed (except Exception does not
\* catch CancelledError).
PageCancelled(p) ==
    /\ page[p].cancelled /\ page[p].at \in {"new", "closing"}
    /\ page' = [page EXCEPT ![p].at = IF @ = "new" THEN "end" ELSE "abandoned", ![p].cancelled = FALSE]
    /\ UNCHANGED <<qr, listed, monitor>>

\* The finally block: everything closed, then the reference of the listed session dropped.
PageClosed(p) ==
    /\ page[p].at = "closing" /\ ~page[p].cancelled
    /\ GoTo(p, "end")
    /\ qr' = IF page[p].of \in listed THEN [qr EXCEPT ![page[p].of].task = NoPage] ELSE qr
    /\ UNCHANGED <<listed, monitor>>

-----------------------------------------------------------------------------
Age(s) ==
    /\ s \in listed \/ monitor[s] \notin {"none", "end"}
    /\ qr[s].age < 2
    /\ qr' = [qr EXCEPT ![s].age = @ + 1]
    /\ UNCHANGED <<listed, monitor, page>>

\* get_session_status
StatusAsked(s) ==
    /\ s \in listed /\ IsExpired(s) /\ qr[s].status \notin {"success", "expired"}
    /\ qr' = [qr EXCEPT ![s].status = "expired"]
    /\ UNCHANGED <<listed, monitor, page>>

SweepLeavesTask(s) ==
    /\ s \in listed /\ IsExpired(s)
    /\ listed' = listed \ {s}
    /\ qr' = [qr EXCEPT ![s].task = NoPage, ![s].shot = FALSE]
    /\ UNCHANGED <<monitor, page>>

\* cleanup_expired_sessions for one session, _cleanup_session_assets included
Sweep(s) ==
    LET t == qr[s].task IN
    /\ s \in listed /\ IsExpired(s)
    /\ listed' = listed \ {s}
    /\ page' = IF t # NoPage /\ ~Done(t) THEN [page EXCEPT ![t].cancelled = TRUE] ELSE page
    /\ qr' = [qr EXCEPT ![s].task = NoPage, ![s].shot = FALSE]
    /\ UNCHANGED monitor

MonitorStep(s) == MonitorLoop(s) \/ PollAnswered(s) \/ PollOver(s) \/ NapOver(s)
PageStep(p) == PageStart(p) \/ PageOpened(p) \/ PageWatch(p) \/ PageProbed(p)
               \/ PageFails(p) \/ PageCancelled(p) \/ PageClosed(p)

QrNext ==
    \/ \E s \in QrSessions : Generate(s) \/ GenerateFails(s) \/ MonitorStep(s) \/ Age(s) \/ StatusAsked(s) \/ Sweep(s)
    \/ \E p \in Pages : PageStep(p)

\* Every await of the network, of a page and of a sleep returns, and time passes.
QrFairness ==
    /\ \A s \in QrSessions : WF_qrVars(MonitorStep(s)) /\ WF_qrVars(Age(s))
    /\ \A p \in Pages : WF_qrVars(PageStep(p))

QrSpec == QrInit /\ [][QrNext]_qrVars /\ QrFairness

-----------------------------------------------------------------------------
\* A session drives at most one verification page and the sweep loses none: an
\* open page is the task its listed session refers to, or its session is swept
\* and the page is closing, told to, or was told while it closed.
PagesAccountedFor ==
    \A p \in Pages : page[p].at \in {"opening", "watching", "probing", "closing", "abandoned"} =>
        IF page[p].of \in listed THEN qr[page[p].of].task = p
        ELSE page[p].cancelled \/ page[p].at \in {"closing", "abandoned"}

\* A screenshot file outlives its session in no interleaving of the page that
\* saves it with the sweep that deletes it.
NoOrphanScreenshot == \A s \in QrSessions : qr[s].shot => s \in listed

\* A successful login stays one, whichever of the monitor, the page and the
\* status query runs on with an older view of the session.
QrSuccessIsFinal ==
    [][\A s \in QrSessions : qr[s].status = "success" => qr'[s].status = "success"]_qrVars

\* The monitor of every session ends, whatever the answers (an answer NEW is
\* polled again at once, an exception is only slept on).
MonitorEnds == \A s \in QrSessions : monitor[s] # "none" ~> monitor[s] = "end"
=============================================================================
