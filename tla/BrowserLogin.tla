---------------------------- MODULE BrowserLogin ----------------------------
(* utils/xianyu_slider_stealth.py, login_with_password_playwright: one login *)
(* in a browser of its own, from the launch to the finally clauses.          *)
(* What a page shows is chosen at each look; every step that touches a page  *)
(* may raise. The slot, the browser's parts, the object's own page and the   *)
(* refresh mode are the state that the clauses must put right again.         *)
(* solve_slider is one step here and SliderSolve in detail; PasswordLogin    *)
(* has this call as the time a thread spends with a browser.                 *)
EXTENDS Integers

CONSTANTS GotoTries,   \* 3
          WaitRounds   \* XY_VERIFY_WAIT_SECONDS / 10, 45 by default

ASSUME BrowserLoginAssumption == GotoTries \in Nat \ {0} /\ WaitRounds \in Nat \ {0}

VARIABLES
    step,      \* where the call is
    back,      \* where it goes on when no verification is detected
    clean,     \* force_clean_context
    refresh,   \* _slider_refresh_mode and what it was before
    up,        \* parts of the browser that run
    lost,      \* history: a launch broke off, or playwright could not be stopped
    own,       \* self.page: the object's own, or the login's
    count,     \* goto attempts, rounds of waiting
    probed,    \* the last probe of the login state said yes
    pending,   \* history: a slider was seen and not handed to the solver
    slot,      \* the account's slot
    result,    \* what is returned
    explained  \* last_login_error is set

loginVars ==
    <<step, back, clean, refresh, up, lost, own, count, probed, pending, slot, result, explained>>

BrowserLoginInit ==
    /\ step = "idle" /\ back = "none"
    /\ clean \in BOOLEAN
    /\ refresh = [now |-> FALSE, before |-> FALSE]
    /\ up = {} /\ lost = FALSE /\ own = "self" /\ count = 0
    /\ probed = FALSE /\ pending = FALSE
    /\ slot = "held" /\ result = "none" /\ explained = FALSE

MoveTo(s) == step' = s

\* return inside the inner try: a dictionary, None with an error, or plain None
Leave(r, why) ==
    /\ MoveTo("restore")
    /\ result' = r /\ explained' = why
    /\ UNCHANGED <<back, clean, refresh, up, lost, own, count, probed, slot>>

Fail == Leave("none", TRUE)

\* The dictionary of the context's cookies is returned unless it is empty.
GiveCookies == Leave("cookies", FALSE) \/ Fail

\* A step that only looks at the page and goes on at s
LookThen(s) ==
    /\ MoveTo(s)
    /\ UNCHANGED <<back, clean, refresh, up, lost, own, count, probed, slot, result, explained>>

\* _detect_qr_code_verification, which returns to s when it finds none
DetectThen(s) ==
    /\ MoveTo("detect") /\ back' = s
    /\ UNCHANGED <<clean, refresh, up, lost, own, count, probed, slot, result, explained>>

\* Where a page operation is not guarded, or what it finds is raised on
\* purpose (a refused password), the exception passes the same clauses.
PageRaises ==
    /\ step \in {"goto", "find", "errorLook", "errorLook2",
                "fill", "afterPress", "waitSolve"}
    /\ Fail
    /\ UNCHANGED pending

-----------------------------------------------------------------------------
\* Up to the launch: the mode is changed first, then date and inputs are looked at.
BeginLogin ==
    /\ step = "idle"
    /\ refresh' = [now |-> clean, before |-> refresh.now]
    /\ \/ MoveTo("outer")            \* date or inputs refused
       \/ MoveTo("playwright")
    /\ explained' = (step' = "outer")
    /\ UNCHANGED <<back, clean, up, lost, own, count, probed, pending, slot, result>>

\* sync_playwright().start(), launch and new_context or launch_persistent_context,
\* add_init_script and new_page. What fails before the inner try is not closed.
Launched(at, part, next) ==
    /\ step = at
    /\ \/ up' = up \cup part /\ MoveTo(next) /\ UNCHANGED <<lost, explained>>
       \/ lost' = TRUE /\ MoveTo("outer") /\ explained' = TRUE /\ UNCHANGED up
    /\ UNCHANGED <<back, clean, refresh, own, count, probed, pending, slot, result>>

LaunchParts ==
    \/ Launched("playwright", {"playwright"}, IF clean THEN "browser" ELSE "context")
    \/ Launched("browser", {"browser"}, "context")
    \/ Launched("context", {"context"}, "page")
    \/ Launched("page", {}, "goto")

\* page.goto: a closed, reset or refused connection is tried again
GotoLogin ==
    /\ step = "goto"
    /\ \/ MoveTo("find") /\ count' = 0
       \/ count + 1 < GotoTries /\ count' = count + 1 /\ UNCHANGED step
    /\ UNCHANGED <<back, clean, refresh, up, lost, own, probed, pending, slot, result, explained>>

\* The form in the main page or a frame, frames without one, or nothing
FormOr(otherwise) ==
    /\ LookThen("fill") \/ LookThen("swap") \/ LookThen(otherwise)
    /\ UNCHANGED pending

FindForm == step = "find" /\ FormOr("entry")

\* Nothing: a login entry is clicked and the same is asked again.
ClickEntry == step = "entry" /\ FormOr("blank")

\* _probe_context_login_success: the chat list, else the cookies with the
\* address of the page, else a page of its own that it closes again. Yes and no.
Probe(yes, no) == (probed' = TRUE /\ yes) \/ (probed' = FALSE /\ no)

ProbedTo(s) ==
    /\ MoveTo(s)
    /\ UNCHANGED <<back, clean, refresh, up, lost, own, count, slot, result, explained>>

ProbedToDetect(s) ==
    /\ MoveTo("detect") /\ back' = s
    /\ UNCHANGED <<clean, refresh, up, lost, own, count, slot, result, explained>>

\* No form and no frame: logged in already or not at all.
BlankPage ==
    /\ step = "blank"
    /\ Probe(ProbedTo("collect"), ProbedTo("refuse"))
    /\ UNCHANGED pending

\* return None, without a word when a persistent profile has no cookies
CollectPlain ==
    /\ step = "collect" /\ (Leave("cookies", FALSE) \/ Leave("none", FALSE))
    /\ UNCHANGED pending

Refuse == step = "refuse" /\ Fail /\ UNCHANGED pending

Collect == step = "cookies" /\ GiveCookies /\ UNCHANGED pending

-----------------------------------------------------------------------------
\* self.page, context, browser and playwright are the login's until the
\* finally clause puts the object's own back.
Swap ==
    /\ step \in {"swap", "press"}
    /\ own' = "login"
    /\ MoveTo(IF step = "swap" THEN "errorLook" ELSE "afterPress")
    /\ UNCHANGED <<back, clean, refresh, up, lost, count, probed, pending, slot, result, explained>>

\* _check_login_error raises for a refused password.
LoginErrorLook ==
    \/ step = "errorLook" /\ DetectThen("frames") /\ UNCHANGED pending
    \/ step = "errorLook2" /\ DetectThen("confirmOther") /\ UNCHANGED pending

\* A slider before any form: solved, or solved after a reload
SliderInFrames ==
    /\ step = "frames"
    /\ \/ LookThen("first") /\ pending' = TRUE
       \/ LookThen("frameProbe") /\ UNCHANGED pending

SolveInFrames ==
    /\ step \in {"first", "second"} /\ pending' = FALSE
    /\ \/ LookThen("sliderDone")
       \/ step = "first" /\ LookThen("second")     \* reload and once more
       \/ Fail                                     \* missing, or failed twice

\* Two probes, then a verification page, then nothing more
ProbeAfterSlider ==
    /\ step = "sliderDone"
    /\ Probe(ProbedTo("cookies"), ProbedToDetect("refuse"))
    /\ UNCHANGED pending

ProbeInFrames ==
    /\ step = "frameProbe"
    /\ Probe(ProbedTo("cookies"), ProbedToDetect("refuse"))
    /\ UNCHANGED pending

\* Account, password, agreement, button; a field that is missing ends the
\* call without an explanation.
Fill ==
    /\ step = "fill"
    /\ LookThen("press") \/ Leave("none", FALSE)
    /\ UNCHANGED pending

\* A slider after the button
SliderAfterPress ==
    /\ step = "afterPress"
    /\ \/ LookThen("postSolve") /\ pending' = TRUE
       \/ LookThen("lateLook") /\ UNCHANGED pending

SolveAfterPress ==
    /\ step = "postSolve" /\ pending' = FALSE
    /\ LookThen("lateLook") \/ Fail

\* Between its attempts solve_slider leaves the page and fills the form again.
SessionReset ==
    /\ step = "postSolve" /\ count < 2 /\ count' = count + 1 /\ pending' = FALSE
    /\ UNCHANGED <<step, back, clean, refresh, up, lost, own, probed, slot, result, explained>>

\* Five seconds later: active_page is read before this path has assigned it.
LateLook ==
    /\ step = "lateLook"
    /\ \/ LookThen("confirm") /\ UNCHANGED pending
       \/ Fail /\ pending' = TRUE

\* Probe, password error, verification, and each once more
Confirm ==
    /\ step = "confirm"
    /\ Probe(ProbedTo("reload"), ProbedTo("errorLook2"))
    /\ UNCHANGED pending

ConfirmOther ==
    /\ step = "confirmOther"
    /\ Probe(ProbedTo("confirmLast"), ProbedToDetect("confirmLast"))
    /\ UNCHANGED pending

ConfirmLastAnyway ==
    /\ step = "confirmLast"
    /\ Probe(ProbedTo("reload"), ProbedTo("reload"))
    /\ UNCHANGED pending

ConfirmLast ==
    /\ step = "confirmLast"
    /\ Probe(ProbedTo("reload"), ProbedTo("refuse"))
    /\ UNCHANGED pending

\* The page is loaded again for fresh tokens, whether that works or not.
ReloadPage == step = "reload" /\ LookThen("cookies") /\ UNCHANGED pending

-----------------------------------------------------------------------------
\* A slider in the way is solved, once more after a reload; solved or not,
\* the answer is then that there is no verification.
DetectSlider ==
    /\ \/ step = "detect" /\ (LookThen("solve") \/ LookThen("detectPage"))
       \/ step = "solve" /\ (LookThen(back) \/ LookThen("solveAgain"))
       \/ step = "solveAgain" /\ LookThen(back)
    /\ UNCHANGED pending

\* What a page or a frame asks for, by its text and its address
VerificationTypes == {"password_error", "sms_verify", "qr_verify", "face_verify", "unknown"}

\* A refused password raises through every handler; what else is asked for is told.
Asked(kind) == IF kind = "password_error" THEN Fail ELSE LookThen("notify")

\* The page itself: its address, or its text where there is no form
DetectOnPage ==
    /\ step = "detectPage" /\ UNCHANGED pending
    /\ \E kind \in VerificationTypes, address, form \in BOOLEAN :
        IF address \/ (kind \in {"face_verify", "sms_verify", "qr_verify"} /\ ~form)
        THEN Asked(kind)
        ELSE LookThen("detectBox")

\* _get_face_verification_url clicks its way to the face check and has its
\* address, or has none.
FaceUrl == BOOLEAN

\* The login box: a message or a code at once, a face when it has an address
DetectInBox ==
    /\ step = "detectBox" /\ UNCHANGED pending
    /\ \/ LookThen("detectFrames")
       \/ \E kind \in VerificationTypes, url \in FaceUrl :
            IF kind \in {"password_error", "sms_verify", "qr_verify"} \/ url
            THEN Asked(kind)
            ELSE LookThen("detectFrames")

\* Frames of the login, unless they hold a slider
DetectInLoginFrames ==
    /\ step = "detectFrames" /\ UNCHANGED pending
    /\ LookThen("detectTexts") \/ \E kind \in VerificationTypes : Asked(kind)

\* Any other frame with a code or the words of a face check
DetectInFrames ==
    /\ step = "detectTexts" /\ UNCHANGED pending
    /\ LookThen("notify") \/ LookThen(back)

\* _process_verification_requirement: tell the user, then wait in rounds
Notify ==
    /\ step = "notify"
    /\ MoveTo("waitSolve") /\ count' = 0
    /\ UNCHANGED <<back, clean, refresh, up, lost, own, probed, pending, slot, result, explained>>

\* _attempt_solve_slider_on_page works on the monitored page and gives self.page back.
WaitSolve ==
    /\ step = "waitSolve"
    /\ LookThen("waitProbe")
    /\ UNCHANGED pending

WaitUncounted ==
    /\ step = "waitProbe"
    /\ Probe(ProbedTo("cookies"), ProbedTo("waitSolve"))
    /\ UNCHANGED pending

WaitProbe ==
    /\ step = "waitProbe"
    /\ Probe(ProbedTo("cookies"),
             /\ MoveTo(IF count + 1 < WaitRounds THEN "waitSolve" ELSE "refuse")
             /\ count' = count + 1
             /\ UNCHANGED <<back, clean, refresh, up, lost, own, slot, result, explained>>)
    /\ UNCHANGED pending

-----------------------------------------------------------------------------
\* The finally clauses, innermost first
Restore ==
    /\ step = "restore"
    /\ own' = "self" /\ MoveTo("close")
    /\ UNCHANGED <<back, clean, refresh, up, lost, count, probed, pending, slot, result, explained>>

\* A part is closed or its close raises: a context that raises skips the
\* browser, a browser's failure is passed over.
Closes(at, part, next, otherwise) ==
    /\ step = at
    /\ \/ up' = up \ {part} /\ MoveTo(next)
       \/ MoveTo(otherwise) /\ UNCHANGED up
    /\ UNCHANGED <<back, clean, refresh, lost, own, count, probed, pending, slot, result, explained>>

CloseContext == Closes("close", "context", IF clean THEN "closeBrowser" ELSE "stop", "stopAgain")
CloseBrowser == Closes("closeBrowser", "browser", "stop", "stop")

\* Stopping playwright ends what it launched; when that raises too, the
\* handler tries once more.
Stop ==
    /\ step \in {"stop", "stopAgain"}
    /\ \/ up' = {} /\ MoveTo("release") /\ UNCHANGED lost
       \/ /\ MoveTo(IF step = "stop" THEN "stopAgain" ELSE "release")
          /\ lost' = (step = "stopAgain")
          /\ UNCHANGED up
    /\ UNCHANGED <<back, clean, refresh, own, count, probed, pending, slot, result, explained>>

CloseSkippingStop ==
    \/ Closes("close", "context", IF clean THEN "closeBrowser" ELSE "stop", "release")
    \/ CloseBrowser
    \/ Stop

Close == CloseContext \/ CloseBrowser \/ Stop

\* unregister_instance after the browser, and again in the outermost clause,
\* which gives the refresh mode back
Release ==
    /\ step \in {"release", "outer"}
    /\ slot' = "free"
    /\ IF step = "release" THEN MoveTo("outer") /\ UNCHANGED refresh
       ELSE MoveTo("returned") /\ refresh' = [refresh EXCEPT !.now = refresh.before]
    /\ UNCHANGED <<back, clean, up, lost, own, count, probed, pending, result, explained>>

BeforeForm ==
    \/ BeginLogin \/ LaunchParts \/ GotoLogin \/ FindForm \/ ClickEntry
    \/ BlankPage \/ CollectPlain \/ Refuse \/ Collect
    \/ Swap \/ LoginErrorLook \/ SliderInFrames \/ SolveInFrames \/ ProbeAfterSlider \/ ProbeInFrames

AfterForm ==
    \/ Fill \/ SliderAfterPress \/ SolveAfterPress \/ SessionReset \/ LateLook
    \/ Confirm \/ ConfirmOther \/ ConfirmLast \/ ReloadPage

Verification ==
    \/ DetectSlider \/ DetectOnPage \/ DetectInBox \/ DetectInLoginFrames \/ DetectInFrames
    \/ Notify \/ WaitSolve \/ WaitProbe

LoginWork == BeforeForm \/ AfterForm \/ Verification \/ Restore \/ Close \/ Release

BrowserLoginNext == LoginWork \/ PageRaises

BrowserLoginFairness == WF_loginVars(BrowserLoginNext)
BrowserLoginSpec == BrowserLoginInit /\ [][BrowserLoginNext]_loginVars /\ BrowserLoginFairness

-----------------------------------------------------------------------------
\* Whatever raised, and in whichever clause, the account's slot is given back
\* only when nothing of the browser runs any more, except when its launch
\* broke off halfway or playwright itself could not be stopped; and the caller
\* gets the object back with its own page and refresh mode.
PutRight ==
    /\ slot = "free" => up = {} \/ lost
    /\ step = "returned" => own = "self" /\ refresh.now = refresh.before

\* Cookies are returned only when the login's last probe said that the user
\* is logged in, however many sliders, reloads and verifications came before.
CookiesAreProbed == result = "cookies" => probed

\* "检测到滑块验证，开始处理...": every slider the login notices is handed to
\* the solver before the call ends.
NoticedSlidersAreTried == step = "returned" => ~pending

\* Every call returns, and frees the slot, whatever the page does.
LoginReturns == step # "idle" ~> step = "returned" /\ slot = "free"
=============================================================================
