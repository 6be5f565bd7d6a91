--------------------------- MODULE CaptchaRemote ---------------------------
(***************************************************************************)
(* Remote control of a captcha (utils/captcha_remote_control.py): a search *)
(* that meets one opens a session under its user id and waits, a person    *)
(* drives the page through it, and the control routes check, refresh and   *)
(* close it.  Everything is keyed by the session id, which searches share  *)
(* (XianyuSearcher.user_id is "default"), and interleaves at the awaits.   *)
(***************************************************************************)
EXTENDS FiniteSets

CONSTANTS Searches,     \* a search stands for its page too
          Ids, IdOf,    \* the session id of a search
          Calls,        \* calls of check_completion and update_screenshot
          NoSearch

ASSUME RemoteAssumption ==
    IdOf \in [Searches -> Ids] /\ NoSearch \notin Searches

VARIABLES
    remote,   \* active_sessions: id -> the page it drives, picture, completed; NoSession
    search,   \* "idle" | "opening" | "waiting" | "true" | "false"
    captcha,  \* page -> "shown" | "solved" | "gone" (page closed or navigating before that)
    inFlight  \* call -> the page it captured before its await, with its id and kind

remoteVars == <<remote, search, captcha, inFlight>>

NoSession == [page |-> NoSearch, picture |-> NoSearch, completed |-> FALSE]
NoCall == [kind |-> "none", id |-> NoSearch, page |-> NoSearch]
Active(i) == remote[i] # NoSession

RemoteInit ==
    /\ remote = [i \in Ids |-> NoSession]
    /\ search = [s \in Searches |-> "idle"]
    /\ captcha = [s \in Searches |-> "shown"]
    /\ inFlight = [c \in Calls |-> NoCall]

\* create_session awaits the position and the picture, then stores the session
\* over whatever the id had; when it raises the search gives up at once.
MeetCaptcha(s) ==
    /\ search[s] = "idle"
    /\ search' = [search EXCEPT ![s] = "opening"]
    /\ UNCHANGED <<remote, captcha, inFlight>>

CreateSession(s) ==
    /\ search[s] = "opening"
    /\ UNCHANGED <<captcha, inFlight>>
    /\ \/ /\ remote' = [remote EXCEPT ![IdOf[s]] = [page |-> s, picture |-> s, completed |-> FALSE]]
          /\ search' = [search EXCEPT ![s] = "waiting"]
       \/ /\ captcha[s] = "gone"
          /\ search' = [search EXCEPT ![s] = "false"]
          /\ UNCHANGED remote

CloseIncomplete(i) == remote' = [remote EXCEPT ![i] = IF @.completed THEN @ ELSE NoSession]
Close(i) == remote' = [remote EXCEPT ![i] = NoSession]

\* The wait of _handle_scratch_captcha_manual: completed, or 180 s are over.
SeesCompleted(s) ==
    /\ search[s] = "waiting" /\ remote[IdOf[s]].completed
    /\ search' = [search EXCEPT ![s] = "true"]
    /\ Close(IdOf[s])
    /\ UNCHANGED <<captcha, inFlight>>

WaitTimesOut(s) ==
    /\ search[s] = "waiting"
    /\ search' = [search EXCEPT ![s] = "false"]
    /\ Close(IdOf[s])
    /\ UNCHANGED <<captcha, inFlight>>

\* close_session on behalf of anybody else
CloseSession(i) ==
    /\ Active(i)
    /\ Close(i)
    /\ UNCHANGED <<search, captcha, inFlight>>

-----------------------------------------------------------------------------
\* handle_mouse_event: the last of a series of gestures may solve the captcha
Drag(i) ==
    /\ Active(i) /\ captcha[remote[i].page] = "shown"
    /\ captcha' = [captcha EXCEPT ![remote[i].page] = "solved"]
    /\ UNCHANGED <<remote, search, inFlight>>

\* The page is closed, crashes or navigates: every look at it raises.
PageGone(s) ==
    /\ search[s] # "idle" /\ captcha[s] = "shown"
    /\ captcha' = [captcha EXCEPT ![s] = "gone"]
    /\ UNCHANGED <<remote, search, inFlight>>

\* check_completion or update_screenshot takes the page of the session and awaits.
BeginCall(c, i, kind) ==
    /\ inFlight[c] = NoCall /\ Active(i)
    /\ inFlight' = [inFlight EXCEPT ![c] = [kind |-> kind, id |-> i, page |-> remote[i].page]]
    /\ UNCHANGED <<remote, search, captcha>>

\* Nothing of the captcha is found: it is solved, or every look raised and was
\* passed over.  The session of the id is marked, if there is one by now.
FindsNothing(p) == captcha[p] \in {"solved", "gone"}

CheckCompletion(c) ==
    LET call == inFlight[c] IN
    /\ call.kind = "check"
    /\ inFlight' = [inFlight EXCEPT ![c] = NoCall]
    /\ remote' = IF FindsNothing(call.page) /\ Active(call.id)
                 THEN [remote EXCEPT ![call.id].completed = TRUE] ELSE remote
    /\ UNCHANGED <<search, captcha>>

\* update_screenshot, also from auto_refresh_screenshot
UpdateScreenshot(c) ==
    LET call == inFlight[c] IN
    /\ call.kind = "refresh"
    /\ inFlight' = [inFlight EXCEPT ![c] = NoCall]
    /\ remote' = IF captcha[call.page] # "gone" /\ Active(call.id)
                 THEN [remote EXCEPT ![call.id].picture = call.page] ELSE remote
    /\ UNCHANGED <<search, captcha>>

RemoteNext ==
    \/ \E s \in Searches : MeetCaptcha(s) \/ CreateSession(s) \/ SeesCompleted(s) \/ WaitTimesOut(s) \/ PageGone(s)
    \/ \E i \in Ids : CloseSession(i) \/ Drag(i)
    \/ \E c \in Calls :
          \/ CheckCompletion(c) \/ UpdateScreenshot(c)
          \/ \E i \in Ids, kind \in {"check", "refresh"} : BeginCall(c, i, kind)

RemoteSpec == RemoteInit /\ [][RemoteNext]_remoteVars

-----------------------------------------------------------------------------
\* No session outlives its search: searches that share an id overwrite and
\* close each other's sessions, but the last to leave leaves nothing.
NoAbandonedSession ==
    \A i \in Ids : Active(i) => search[remote[i].page] = "waiting"

\* A session is marked completed only when the captcha of its own page was
\* solved ("on an error return False, do not misjudge it as a success").
CompletedMeansSolved ==
    \A i \in Ids : remote[i].completed => captcha[remote[i].page] = "solved"
=============================================================================
