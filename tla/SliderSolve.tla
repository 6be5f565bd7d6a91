---------------------------- MODULE SliderSolve ----------------------------
(***************************************************************************)
(* solve_slider of utils/xianyu_slider_stealth.py: up to MaxRetries times  *)
(* find the slider, drag it, decide from the page whether that was         *)
(* accepted and wait for the cookies to change.  The page is the other     *)
(* actor: between any two looks it may move the slider to another frame,   *)
(* remove it, or show it again.  One object serves several calls (the      *)
(* login calls solve_slider again and again), and remembers between them   *)
(* the frame it found the slider in, what its last look at the page said   *)
(* and the data of its last drag.                                          *)
(***************************************************************************)
EXTENDS Integers, Sequences

CONSTANTS Frames,      \* frames of the page besides its main one
          MaxRetries,  \* at most 3 in the code
          MaxCalls     \* bound: calls of solve_slider on the object

ASSUME SolveAssumption ==
    /\ MaxRetries \in 1..3 /\ MaxCalls \in Nat \ {0}
    /\ Frames \cap {"main", "none", "unset"} = {}

VARIABLES
    pc,          \* what solve_slider does next
    call,        \* calls so far
    attempt,
    refreshMode, \* _slider_refresh_mode
    shown,       \* the frame in which the page shows the slider, or "none"
    remembered,  \* _detected_slider_frame: a frame, "main" for None, or "unset", with
                 \* the call and attempt whose search set it (history)
    found,       \* found_frame while find_slider_elements runs, or "none"
    baseline,    \* cookie_baseline is not empty
    drag,        \* current_trajectory_data: the drag it describes and its verdict
    refreshed,   \* cookie_refreshed: the poll saw a cookie change since the baseline
    feedback,    \* last_verification_feedback: what it says and (history) who looked,
                 \* [call, attempt, says]
    outcome,     \* how the last call ended
    recorded,    \* history: record_attempt's results in this call, [attempt, success]
    learnt       \* history: the verdict that the last saved success had before

solveVars == <<pc, call, attempt, refreshMode, shown, remembered, found, baseline, refreshed,
               feedback, drag, outcome, recorded, learnt>>

Places == Frames \cup {"main"}
Unset == [frame |-> "unset", by |-> <<0, 0>>]
NoDrag == [call |-> 0, attempt |-> 0, verdict |-> "none"]

SolveInit ==
    /\ pc = "idle" /\ call = 0 /\ attempt = 0
    /\ refreshMode \in BOOLEAN
    /\ shown \in Places \cup {"none"}
    /\ remembered = Unset /\ found = "none"
    /\ baseline = FALSE /\ refreshed = FALSE
    /\ feedback = [call |-> 0, attempt |-> 0, says |-> "nothing"]
    /\ drag = NoDrag
    /\ outcome = "none" /\ recorded = << >> /\ learnt = "none"

\* Where the drag's result is looked for
Target == IF remembered = Unset THEN "main" ELSE remembered.frame

\* The page shows the slider elsewhere, or not at all.
PageMoves ==
    /\ pc # "idle" /\ shown' \in Places \cup {"none"}
    /\ UNCHANGED <<pc, call, attempt, refreshMode, remembered, found, baseline, refreshed, feedback,
                   drag, outcome, recorded, learnt>>

-----------------------------------------------------------------------------
\* The caller may have set or cleared the remembered frame.
Begin ==
    /\ pc = "idle" /\ call < MaxCalls
    /\ pc' = "top" /\ call' = call + 1 /\ attempt' = 1
    /\ baseline' \in BOOLEAN       \* the snapshot fails, or finds no cookie
    /\ refreshed' = FALSE
    /\ \E frame \in Places \cup {"unset"} : remembered' = [Unset EXCEPT !.frame = frame]
    /\ recorded' = << >> /\ learnt' = "none" /\ outcome' = "none"
    /\ UNCHANGED <<refreshMode, shown, found, feedback, drag>>

Return(verdict) == pc' = "idle" /\ outcome' = verdict /\ UNCHANGED attempt

\* continue, and the end of the loop
NextAttempt ==
    IF attempt < MaxRetries
    THEN pc' = "top" /\ attempt' = attempt + 1 /\ UNCHANGED outcome
    ELSE Return("false")

SameAttempt == pc' = "top" /\ UNCHANGED <<attempt, outcome>>

\* finalize_slider_success: the strategy's statistics and, with learning, the
\* history get the last drag's data, if the object has any.
Finalize ==
    /\ recorded' = Append(recorded, [attempt |-> attempt, success |-> TRUE])
    /\ learnt' = drag.verdict
    /\ drag' = IF drag = NoDrag THEN drag ELSE [drag EXCEPT !.verdict = "accepted"]
    /\ Return("true")

\* A failed attempt in the statistics, in the drag's data and in the failure history
RecordFailure ==
    /\ recorded' = Append(recorded, [attempt |-> attempt, success |-> FALSE])
    /\ drag' = [drag EXCEPT !.verdict = "refused"]

\* The page says the account is restricted, or the loop goes on.
Look ==
    /\ pc = "top"
    /\ \/ Return("false")
       \/ pc' = (IF attempt = 1 THEN "find" ELSE "reset") /\ UNCHANGED <<attempt, outcome>>
    /\ UNCHANGED <<call, refreshMode, shown, remembered, found, baseline, refreshed, feedback,
                   drag, recorded, learnt>>

\* session_reset_callback, click_to_reset_slider or page.reload, whichever
\* works; all of them let the page build the slider anew.
Reset ==
    /\ pc = "reset"
    /\ shown' \in Places \cup {"none"}
    /\ remembered' = Unset
    /\ pc' = "find"
    /\ UNCHANGED <<call, attempt, refreshMode, found, baseline, refreshed, feedback,
                   drag, outcome, recorded, learnt>>

-----------------------------------------------------------------------------
(* find_slider_elements: each search may fail, and the page may move       *)
(* between two of them.                                                    *)
Searching == <<call, attempt, refreshMode, shown, baseline, refreshed, feedback, drag, outcome,
               recorded, learnt>>

\* _detected_slider_frame = ..., also when one is known; and only when none is
Sighting(frame) == [frame |-> frame, by |-> <<call, attempt>>]

RememberOnce(frame) == remembered' = IF remembered = Unset THEN Sighting(frame) ELSE remembered

Remember(frame) == remembered' = Sighting(frame)

\* The first scan takes all three elements from one frame, and remembers it.
FindTogether ==
    /\ pc = "find"
    /\ \/ shown # "none" /\ Remember(shown) /\ pc' = "measure"
       \/ pc' = "findContainer" /\ UNCHANGED remembered
    /\ found' = "none"
    /\ UNCHANGED Searching

\* The remembered frame, the main page, every frame: wherever it is shown
FindContainer ==
    /\ pc = "findContainer"
    /\ \/ shown # "none" /\ found' = shown /\ pc' = "findButton"
       \/ pc' = "missing" /\ UNCHANGED found
    /\ UNCHANGED remembered /\ UNCHANGED Searching

\* In the container's frame, or else in the others, the main page, and all
\* of them again without a look at visibility
FindButton ==
    /\ pc = "findButton"
    /\ \/ shown = found /\ pc' = "findTrack"
       \/ pc' = "findButtonElsewhere"
    /\ UNCHANGED <<found, remembered>> /\ UNCHANGED Searching

FindButtonElsewhere ==
    /\ pc = "findButtonElsewhere"
    /\ \/ shown # "none" /\ found' = shown /\ pc' = "findTrack"
       \/ pc' = "missing" /\ UNCHANGED found
    /\ UNCHANGED remembered /\ UNCHANGED Searching

\* In the frame found, at once or after a click into it that may bring
\* another button; or else in another frame, which becomes the one found, or
\* in the main page, which does not
FindTrack ==
    /\ pc = "findTrack"
    /\ \/ shown = found /\ pc' = "validate"
       \/ pc' = "findTrackElsewhere"
    /\ UNCHANGED <<found, remembered>> /\ UNCHANGED Searching

FindTrackElsewhere ==
    /\ pc = "findTrackElsewhere"
    /\ \/ shown # "none" /\ found' = shown /\ pc' = "validate"
       \/ shown = "main" /\ pc' = "validate" /\ UNCHANGED found
       \/ pc' = "missing" /\ found' = "none"
    /\ UNCHANGED remembered /\ UNCHANGED Searching

\* A button as wide as the track is looked for once more, in any frame; the
\* frame found is remembered, wherever the button came from.
Validate ==
    /\ pc = "validate"
    /\ Remember(found)
    /\ pc' = "measure"
    /\ found' = "none"
    /\ UNCHANGED Searching

\* last_verification_feedback = {...}, by a look of this attempt
Says(word) == feedback' = [call |-> call, attempt |-> attempt, says |-> word]

\* _probe_context_login_during_slider says yes, in refresh mode only.
ConfirmLogin == refreshMode /\ Says("login")

\* Not all three were found: the frame is forgotten, and a context that is
\* logged in counts as success.
Missing ==
    /\ pc = "missing"
    /\ remembered' = Unset
    /\ \/ ConfirmLogin /\ Finalize
       \/ Says("missing") /\ Return("false") /\ UNCHANGED <<drag, recorded, learnt>>
    /\ UNCHANGED <<call, refreshMode, shown, found, baseline, refreshed>>

\* calculate_slide_distance: nothing to measure, or a container taken for the button
Measure ==
    /\ pc = "measure"
    /\ \/ pc' = "plan" /\ UNCHANGED <<attempt, outcome, remembered>>
       \/ NextAttempt /\ remembered' = Unset
    /\ UNCHANGED <<call, refreshMode, shown, found, baseline, refreshed, feedback, drag,
                   recorded, learnt>>

-----------------------------------------------------------------------------
\* generate_human_trajectory replaces current_trajectory_data, unless it
\* fails; the data is kept when it is there in the first.
Dragging == <<call, refreshMode, shown, remembered, found, baseline, refreshed, feedback,
              recorded, learnt>>
ThisDrag == [call |-> call, attempt |-> attempt, verdict |-> "none"]

PlanOnce ==
    /\ pc = "plan"
    /\ \/ drag' = (IF drag = NoDrag THEN ThisDrag ELSE drag) /\ pc' = "approach" /\ UNCHANGED <<attempt, outcome>>
       \/ NextAttempt /\ UNCHANGED drag
    /\ UNCHANGED Dragging

Plan ==
    /\ pc = "plan"
    /\ \/ drag' = ThisDrag /\ pc' = "approach" /\ UNCHANGED <<attempt, outcome>>
       \/ NextAttempt /\ UNCHANGED drag
    /\ UNCHANGED Dragging

\* simulate_slide: to the button, which may have no box any more, then the
\* drag, which may raise; False goes to the next attempt without a record.
Approach ==
    /\ pc = "approach"
    /\ (pc' = "glide" /\ UNCHANGED <<attempt, outcome>>) \/ NextAttempt
    /\ UNCHANGED drag /\ UNCHANGED Dragging

Glide ==
    /\ pc = "glide"
    /\ (pc' = "check" /\ UNCHANGED <<attempt, outcome>>) \/ NextAttempt
    /\ UNCHANGED drag /\ UNCHANGED Dragging

-----------------------------------------------------------------------------
(* check_verification_success_fast looks only at the remembered frame, or  *)
(* at the main page.                                                       *)
Checking == <<call, refreshMode, shown, remembered, found, baseline>>

GoOn(where) == pc' = where /\ UNCHANGED <<attempt, outcome, drag, recorded, learnt>>

\* verification_success: without a cookie baseline that is all
Accept == GoOn(IF baseline THEN "cookies" ELSE "done")

Fails == RecordFailure /\ NextAttempt /\ UNCHANGED <<learnt, feedback>>

\* Three looks: a frame that is gone and a container that is not seen in it
\* both mean success. What is looked at three times is the remembered frame.
\* The first empties the feedback of the attempt before.
ContainerLook ==
    /\ pc \in {"check", "check2", "check3"}
    /\ \/ shown # Target /\ Says("passed") /\ Accept
       \/ Says("nothing") /\ GoOn([check |-> "check2", check2 |-> "failure", check3 |-> "changed"][pc])
    /\ UNCHANGED refreshed /\ UNCHANGED Checking

\* check_verification_failure: a keyword or an element anywhere in the
\* remembered frame or the main page; the slider's own container is among them.
FailureLook ==
    /\ pc = "failure"
    /\ \/ Says("refused") /\ GoOn("refused")
       \/ GoOn("check3") /\ UNCHANGED feedback
    /\ UNCHANGED refreshed /\ UNCHANGED Checking

\* check_page_changed, _check_login_success_by_element, the context
PageLook ==
    /\ pc = "changed"
    /\ \/ (Says("passed") \/ ConfirmLogin) /\ Accept
       \/ Says("refused") /\ GoOn("refused")
    /\ UNCHANGED refreshed /\ UNCHANGED Checking

\* The failed attempt goes into the statistics after, or before, the context
\* was asked.
RefusedTooEarly ==
    /\ pc = "refused"
    /\ RecordFailure /\ UNCHANGED learnt
    /\ \/ ConfirmLogin /\ pc' = (IF baseline THEN "cookies" ELSE "done") /\ UNCHANGED <<attempt, outcome>>
       \/ NextAttempt /\ UNCHANGED feedback
    /\ UNCHANGED refreshed /\ UNCHANGED Checking

Refused ==
    /\ pc = "refused"
    /\ (ConfirmLogin /\ Accept) \/ Fails
    /\ UNCHANGED refreshed /\ UNCHANGED Checking

-----------------------------------------------------------------------------
\* _should_accept_soft_success_without_cookie_refresh looks at the page that
\* _select_monitor_page picks, and takes what it cannot query for absent: it
\* may see no slider wherever one is shown. Seeing none, it takes complete
\* cookies for success, or the word of the last look, whoever's that is; or it
\* sees a login element.
SoftSuccess ==
    \/ Says("pending")
    \/ feedback.says \in {"passed", "login"} /\ feedback' = [feedback EXCEPT !.says = "pending"]

\* Up to ten seconds for a cookie to change, whichever drag it answers, then
\* the context, then a soft success, or else a false pass
AwaitCookies ==
    /\ pc = "cookies"
    /\ \/ refreshed' = TRUE /\ GoOn("done") /\ UNCHANGED feedback
       \/ refreshed' = FALSE /\ (ConfirmLogin \/ SoftSuccess) /\ GoOn("done")
       \/ refreshed' = FALSE /\ Fails
    /\ UNCHANGED Checking

Succeed == pc = "done" /\ Finalize /\ UNCHANGED <<refreshed, feedback>> /\ UNCHANGED Checking

\* An exception anywhere in the attempt: the next one, and with the same
\* number when the counter is kept in the body of the loop
Raising == <<call, refreshMode, shown, remembered, found, baseline, refreshed, feedback,
             drag, recorded, learnt>>

RaisesSameAttempt == pc \notin {"idle", "top", "done"} /\ SameAttempt /\ UNCHANGED Raising

Raises == pc \notin {"idle", "top", "done"} /\ NextAttempt /\ UNCHANGED Raising

SolveStep ==
    \/ Look \/ Reset
    \/ FindTogether \/ FindContainer \/ FindButton \/ FindButtonElsewhere
    \/ FindTrack \/ FindTrackElsewhere \/ Validate \/ Missing \/ Measure
    \/ Plan \/ Approach \/ Glide
    \/ ContainerLook \/ FailureLook \/ PageLook \/ Refused
    \/ AwaitCookies \/ Succeed \/ Raises

SolveNext == Begin \/ SolveStep \/ PageMoves

\* Every call of the browser has a timeout, so a call of solve_slider always
\* goes on.
SolveFairness == WF_solveVars(SolveStep)

SolveSpec == SolveInit /\ [][SolveNext]_solveVars /\ SolveFairness

-----------------------------------------------------------------------------
\* An attempt is counted once in the strategy statistics, though success and
\* failure are recorded at five places; a success is counted last, and in
\* the calls that return True.
OneRecordPerAttempt ==
    /\ \A i, j \in 1..Len(recorded) : recorded[i].attempt = recorded[j].attempt => i = j
    /\ \A i \in 1..Len(recorded) : recorded[i].success => i = Len(recorded)
    /\ outcome = "true" <=> \E i \in 1..Len(recorded) : recorded[i].success

\* What a success rests on: the last look is this attempt's and no refusal, and a
\* plain word of the page counts only with a changed cookie, or where there was
\* none to compare; where the login is not found valid, the frame looked at is
\* one in which this attempt's search found the slider.
OwnVerdict ==
    /\ feedback.call = call /\ feedback.attempt = attempt
    /\ feedback.says \in {"passed", "login", "pending"}
    /\ feedback.says = "passed" /\ baseline => refreshed
    /\ feedback.says # "login" => remembered.by = <<call, attempt>>

\* A success rests on what its own attempt saw, although the feedback and the
\* remembered frame outlive attempts and calls, and the frame may be gone or
\* replaced between any two looks.
SuccessIsItsOwn == outcome = "true" => OwnVerdict

\* Outside refresh mode, a drag that is saved as a success was never saved as
\* a failure: the history the next drags are modelled on learns from this
\* attempt's drag only.
LearnsFromItsOwnDrag ==
    outcome = "true" /\ ~refreshMode => learnt = "none" /\ drag.call = call /\ drag.attempt = attempt

\* "历史记录都是成功的", the success history holds successes only
\* (check_and_cleanup_history): no drag in it was refused.
HistoryHoldsSuccesses == learnt # "refused"

\* Every call ends, whatever the page does and whatever it raises.
SolveReturns == pc = "top" ~> pc = "idle"
=============================================================================
