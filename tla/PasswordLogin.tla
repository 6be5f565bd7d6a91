--------------------------- MODULE PasswordLogin ---------------------------
(***************************************************************************)
(* Password login (app/services/login_service.py) together with the slider *)
(* thread it runs (XianyuSliderStealth) and the slots that thread takes.   *)
(*                                                                         *)
(* Each session has an asyncio task on the event loop and, once the task   *)
(* has reached its await, a job on the default thread pool.  A handler or  *)
(* a task step runs without interruption by other loop callbacks; threads  *)
(* interleave with everything.  Cancelling the task never stops the thread.*)
(***************************************************************************)
EXTENDS Integers, FiniteSets

CONSTANTS
    Accounts,       \* account ids, also the user ids of the sliders
    Sessions,       \* the uuids of the sessions that will be created
    AccountOf,      \* session.account_id
    PureId,         \* _extract_pure_user_id
    MaxConcurrent,  \* SLIDER_MAX_CONCURRENT
    PoolSize,       \* threads of the default executor of asyncio.to_thread
    NoSession,
    NoRow,          \* the account is not in xianyu_accounts / the registry
    Typed           \* a cookie typed in by the administrator

ASSUME LoginAssumption ==
    /\ IsFiniteSet(Accounts)
    /\ IsFiniteSet(Sessions)
    /\ AccountOf \in [Sessions -> Accounts]
    /\ DOMAIN PureId = Accounts
    /\ NoSession \notin Sessions
    /\ MaxConcurrent \in Nat \ {0}
    /\ PoolSize \in Nat \ {0}
    /\ NoRow \notin Sessions /\ Typed \notin Sessions /\ NoRow # Typed

VARIABLES
    status,     \* session.status, "none" before the session exists
    task,       \* its background task: none, ready, awaiting (to_thread), done
    cancelling, \* task.cancel() was called, CancelledError not yet delivered
    acked,      \* history: cancel_password_session has answered True
    thread,     \* where the job of the session stands
    outcome,    \* what the job ends with
    handle,     \* slider_instance was assigned (a nonlocal of the task)
    active, waiting,    \* the slots, see SliderSlots
    row,        \* cookie_str of each account's database row
    entry       \* cookie_str of each account's registry entry

sessionVars == <<status, task, cancelling, acked>>
threadVars == <<thread, outcome, handle>>
slotVars == <<active, waiting>>
accountVars == <<row, entry>>
vars == <<sessionVars, threadVars, slotVars, accountVars>>

Slots == INSTANCE SliderSlots WITH
            UserIds <- Accounts, Instances <- Sessions, NoInstance <- NoSession

Terminal == {"success", "failed", "error", "cancelled"}
Open == {"processing", "verification_required"}

\* A cookie is named by where it came from: a login session or the form.
Cookies == Sessions \cup {Typed}

\* What the job can end with: unb and perhaps companion cookies, cookies without
\* unb, no cookies, an exception of the constructor.
Outcomes == {"none", "cookies", "no_unb", "empty", "raised"}

\* The job occupies a thread of the pool from "polling" until it has returned.
InPool ==
    {s \in Sessions : thread[s] \notin {"none", "queued", "dropped", "returned"}}

ThreadStates ==
    {"none", "queued", "dropped", "polling", "blocked", "sleeping", "granted",
     "registered", "starting", "browser", "closed", "released", "returned"}

Goto(s, from, to) ==
    /\ thread[s] = from
    /\ thread' = [thread EXCEPT ![s] = to]

-----------------------------------------------------------------------------
(* Wrong variants of the definitions below: each breaks a property.        *)

\* No else branch for a login without cookies.
FinalStatusNoElse(o) ==
    CASE o = "cookies" -> "success"
      [] o = "no_unb" -> "failed"
      [] o = "empty" -> "processing"
      [] o = "raised" -> "error"

\* The status is changed but the task is not cancelled.
CancelSessionOnly(s) ==
    /\ status[s] \in Open
    /\ status' = [status EXCEPT ![s] = "cancelled"]
    /\ acked' = [acked EXCEPT ![s] = TRUE]
    /\ UNCHANGED <<task, cancelling, threadVars, slotVars, accountVars>>

\* A cancel request that looks for the session only.
CancelSessionAlways(s) ==
    /\ status[s] # "none"
    /\ status' = [status EXCEPT ![s] = "cancelled"]
    /\ cancelling' = [cancelling EXCEPT ![s] = task[s] # "done"]
    /\ acked' = [acked EXCEPT ![s] = TRUE]
    /\ UNCHANGED <<task, threadVars, slotVars, accountVars>>

\* The callback gives the login up.
RequireVerificationFails(s) ==
    /\ thread[s] = "browser"
    /\ status' = [status EXCEPT ![s] = "failed"]
    /\ UNCHANGED <<task, cancelling, acked, threadVars, slotVars, accountVars>>

\* The constructor relies on the answer of wait_for_slot.
TakeSlotUnchecked(s) ==
    /\ Goto(s, "granted", "registered")
    /\ active' = [active EXCEPT ![AccountOf[s]] = s]
    /\ waiting' = waiting \ {AccountOf[s]}
    /\ UNCHANGED <<sessionVars, outcome, handle, accountVars>>

-----------------------------------------------------------------------------
\* An account may or may not have been started, that is, be in the registry.
Init ==
    /\ status = [s \in Sessions |-> "none"]
    /\ task = [s \in Sessions |-> "none"]
    /\ cancelling = [s \in Sessions |-> FALSE]
    /\ acked = [s \in Sessions |-> FALSE]
    /\ thread = [s \in Sessions |-> "none"]
    /\ outcome = [s \in Sessions |-> "none"]
    /\ handle = [s \in Sessions |-> FALSE]
    /\ Slots!SlotInit
    /\ row = [a \in Accounts |-> Typed]
    /\ entry \in [Accounts -> {NoRow, Typed}]

-----------------------------------------------------------------------------
(* Requests of the administrator.                                          *)

\* POST /password-login: the account must exist; register and launch.
CreateSession(s) ==
    /\ status[s] = "none"
    /\ row[AccountOf[s]] # NoRow
    /\ status' = [status EXCEPT ![s] = "processing"]
    /\ task' = [task EXCEPT ![s] = "ready"]
    /\ UNCHANGED <<cancelling, acked, threadVars, slotVars, accountVars>>

\* DELETE /password-login/{id} on a session that is not terminal.
CancelSession(s) ==
    /\ status[s] \in Open
    /\ status' = [status EXCEPT ![s] = "cancelled"]
    /\ cancelling' = [cancelling EXCEPT ![s] = task[s] # "done"]
    /\ acked' = [acked EXCEPT ![s] = TRUE]
    /\ UNCHANGED <<task, threadVars, slotVars, accountVars>>

\* DELETE /accounts/{id} removes the row; the registry entry stays behind.
RemoveAccount(a) ==
    /\ row[a] # NoRow
    /\ row' = [row EXCEPT ![a] = NoRow]
    /\ UNCHANGED <<sessionVars, threadVars, slotVars, entry>>

\* POST /accounts: only the database learns of the new account.
AddAccount(a) ==
    /\ row[a] = NoRow
    /\ row' = [row EXCEPT ![a] = Typed]
    /\ UNCHANGED <<sessionVars, threadVars, slotVars, entry>>

\* _update_account_cookie: the row, then the registry entry if there is one.
UpdateCookie(a) ==
    /\ row[a] # NoRow
    /\ row' = [row EXCEPT ![a] = Typed]
    /\ entry' = [entry EXCEPT ![a] = IF @ = NoRow THEN NoRow ELSE Typed]
    /\ UNCHANGED <<sessionVars, threadVars, slotVars>>

-----------------------------------------------------------------------------
(* The background task, _execute_password_login.                           *)

\* Up to the await: the job is handed to the thread pool.
StartTask(s) ==
    /\ task[s] = "ready" /\ ~cancelling[s]
    /\ task' = [task EXCEPT ![s] = "awaiting"]
    /\ Goto(s, "none", "queued")
    /\ UNCHANGED <<status, cancelling, acked, outcome, handle, slotVars, accountVars>>

\* A task cancelled before its first step never enters the coroutine.
DropTask(s) ==
    /\ task[s] = "ready" /\ cancelling[s]
    /\ task' = [task EXCEPT ![s] = "done"]
    /\ cancelling' = [cancelling EXCEPT ![s] = FALSE]
    /\ UNCHANGED <<status, acked, threadVars, slotVars, accountVars>>

\* _persist_login_to_db: an UPDATE that matches no row is no error, and an
\* error (ok = FALSE) is logged and swallowed before the registry is touched.
Persist(s, ok) ==
    LET a == AccountOf[s] IN
    IF ok
    THEN /\ row' = [row EXCEPT ![a] = IF @ = NoRow THEN NoRow ELSE s]
         /\ entry' = [entry EXCEPT ![a] = IF @ = NoRow THEN NoRow ELSE s]
    ELSE UNCHANGED accountVars

\* The finally block: give back the slot, if a slider was constructed.
Cleanup(s) ==
    IF handle[s] THEN Slots!Unregister(AccountOf[s]) ELSE UNCHANGED slotVars

FinalStatus(o) ==
    CASE o = "cookies" -> "success"
      [] o \in {"no_unb", "empty"} -> "failed"
      [] o = "raised" -> "error"

\* The await returns: settle the session, persist on success, clean up.
FinishTask(s) ==
    /\ task[s] = "awaiting" /\ ~cancelling[s]
    /\ thread[s] = "returned"
    /\ task' = [task EXCEPT ![s] = "done"]
    /\ status' = [status EXCEPT ![s] = FinalStatus(outcome[s])]
    /\ IF outcome[s] = "cookies"
       THEN \E ok \in BOOLEAN : Persist(s, ok)
       ELSE UNCHANGED accountVars
    /\ Cleanup(s)
    /\ UNCHANGED <<cancelling, acked, threadVars>>

\* CancelledError at the await, even when the job has already returned.  A job
\* the pool has not started is withdrawn, a started one runs on.
CancelTask(s) ==
    /\ task[s] = "awaiting" /\ cancelling[s]
    /\ task' = [task EXCEPT ![s] = "done"]
    /\ cancelling' = [cancelling EXCEPT ![s] = FALSE]
    /\ status' = [status EXCEPT ![s] = "cancelled"]
    /\ thread' = [thread EXCEPT ![s] = IF @ = "queued" THEN "dropped" ELSE @]
    /\ Cleanup(s)
    /\ UNCHANGED <<acked, outcome, handle, accountVars>>

-----------------------------------------------------------------------------
(* The job: XianyuSliderStealth(), then login_with_password_playwright().  *)

ThreadStart(s) ==
    /\ Cardinality(InPool) < PoolSize
    /\ Goto(s, "queued", "polling")
    /\ UNCHANGED <<sessionVars, outcome, handle, slotVars, accountVars>>

\* wait_for_slot looks at the table: nothing is reserved when it answers True.
SlotSeen(s) ==
    /\ thread[s] \in {"polling", "sleeping"}
    /\ Slots!CanStart(AccountOf[s])
    /\ thread' = [thread EXCEPT ![s] = "granted"]
    /\ UNCHANGED <<sessionVars, outcome, handle, slotVars, accountVars>>

NoSlotSeen(s) ==
    /\ thread[s] \in {"polling", "sleeping"}
    /\ ~Slots!CanStart(AccountOf[s])
    /\ thread' = [thread EXCEPT ![s] = "blocked"]
    /\ UNCHANGED <<sessionVars, outcome, handle, slotVars, accountVars>>

\* ... and queues up under a second acquisition of the lock, then sleeps 1s.
JoinQueue(s) ==
    /\ Goto(s, "blocked", "sleeping")
    /\ Slots!Enqueue(AccountOf[s])
    /\ UNCHANGED <<sessionVars, outcome, handle, accountVars>>

\* SLIDER_WAIT_TIMEOUT has passed: the constructor raises.
WaitTimeout(s) ==
    /\ Goto(s, "sleeping", "returned")
    /\ outcome' = [outcome EXCEPT ![s] = "raised"]
    /\ Slots!LeaveQueue(AccountOf[s])
    /\ UNCHANGED <<sessionVars, handle, accountVars>>

TakeSlot(s) ==
    /\ Goto(s, "granted", "registered")
    /\ Slots!Register(AccountOf[s], s)
    /\ UNCHANGED <<sessionVars, outcome, handle, accountVars>>

\* register_instance found the slot gone: the constructor raises and leaves the
\* id in the waiting queue if it was there.
SlotLost(s) ==
    /\ ~Slots!CanStart(AccountOf[s])
    /\ Goto(s, "granted", "returned")
    /\ outcome' = [outcome EXCEPT ![s] = "raised"]
    /\ UNCHANGED <<sessionVars, handle, slotVars, accountVars>>

\* The constructor returns and slider_instance is assigned.
Constructed(s) ==
    /\ Goto(s, "registered", "starting")
    /\ handle' = [handle EXCEPT ![s] = TRUE]
    /\ UNCHANGED <<sessionVars, outcome, slotVars, accountVars>>

LaunchBrowser(s) ==
    /\ Goto(s, "starting", "browser")
    /\ UNCHANGED <<sessionVars, outcome, handle, slotVars, accountVars>>

\* No browser came up: only the outer finally remains.
LaunchFails(s) ==
    /\ Goto(s, "starting", "released")
    /\ outcome' = [outcome EXCEPT ![s] = "empty"]
    /\ UNCHANGED <<sessionVars, handle, slotVars, accountVars>>

\* _on_verification_required, called in the thread: it writes the session
\* without looking at the status it has.
RequireVerification(s) ==
    /\ thread[s] = "browser"
    /\ status' = [status EXCEPT ![s] = "verification_required"]
    /\ UNCHANGED <<task, cancelling, acked, threadVars, slotVars, accountVars>>

\* The login ends one way or the other (its waits are all bounded) and the
\* inner finally closes the browser.
LoginReturns(s) ==
    /\ Goto(s, "browser", "closed")
    /\ \E o \in {"cookies", "no_unb", "empty"} :
           outcome' = [outcome EXCEPT ![s] = o]
    /\ UNCHANGED <<sessionVars, handle, slotVars, accountVars>>

\* The inner finally, then the outer one, give back the slot of the user id.
InnerFinally(s) ==
    /\ Goto(s, "closed", "released")
    /\ Slots!Unregister(AccountOf[s])
    /\ UNCHANGED <<sessionVars, outcome, handle, accountVars>>

OuterFinally(s) ==
    /\ Goto(s, "released", "returned")
    /\ Slots!Unregister(AccountOf[s])
    /\ UNCHANGED <<sessionVars, outcome, handle, accountVars>>

-----------------------------------------------------------------------------
TaskStep(s) == StartTask(s) \/ DropTask(s) \/ FinishTask(s) \/ CancelTask(s)

\* What a thread does on its own account, without waiting for anything.
ThreadStep(s) ==
    \/ SlotSeen(s) \/ NoSlotSeen(s) \/ JoinQueue(s)
    \/ TakeSlot(s) \/ SlotLost(s) \/ Constructed(s)
    \/ LaunchBrowser(s) \/ LaunchFails(s)
    \/ InnerFinally(s) \/ OuterFinally(s)

Next ==
    \/ \E s \in Sessions :
          \/ CreateSession(s) \/ CancelSession(s)
          \/ TaskStep(s) \/ ThreadStep(s)
          \/ ThreadStart(s) \/ WaitTimeout(s)
          \/ RequireVerification(s) \/ LoginReturns(s)
    \/ \E a \in Accounts : RemoveAccount(a) \/ AddAccount(a) \/ UpdateCookie(a)

Spec == Init /\ [][Next]_vars

\* The event loop runs every ready task, the pool starts jobs in order, the
\* polling loop ends after SLIDER_WAIT_TIMEOUT however often it has polled, and
\* every wait inside the login is bounded.  Nobody has to cancel anything.
Fairness ==
    \A s \in Sessions :
        /\ WF_vars(TaskStep(s))
        /\ WF_vars(ThreadStep(s))
        /\ WF_vars(LoginReturns(s))
        /\ SF_vars(ThreadStart(s))
        /\ SF_vars(WaitTimeout(s))

FairSpec == Spec /\ Fairness

-----------------------------------------------------------------------------
TypeOK ==
    /\ status \in [Sessions -> {"none"} \cup Open \cup Terminal]
    /\ task \in [Sessions -> {"none", "ready", "awaiting", "done"}]
    /\ cancelling \in [Sessions -> BOOLEAN]
    /\ acked \in [Sessions -> BOOLEAN]
    /\ thread \in [Sessions -> ThreadStates]
    /\ outcome \in [Sessions -> Outcomes]
    /\ handle \in [Sessions -> BOOLEAN]
    /\ Slots!SlotTypeOK
    /\ row \in [Accounts -> Cookies \cup {NoRow}]
    /\ entry \in [Accounts -> Cookies \cup {NoRow}]

\* Once a cancel request was answered with True the login never writes its
\* cookie to the database row or the registry, although its thread runs on,
\* may finish with cookies before the task learns of the cancellation, and may
\* have put the session back to verification_required.
CancelledNeverPersists ==
    \A s \in Sessions : acked[s] =>
        /\ row[AccountOf[s]] # s
        /\ entry[AccountOf[s]] # s

\* A session that reports success, failed or error has no thread at work and no
\* release of its slot outstanding (_execute_password_login awaits the thread),
\* so a new login started upon the answer does not meet the old one.
SettledMeansStopped ==
    \A s \in Sessions :
        status[s] \in {"success", "failed", "error"} => thread[s] = "returned"

\* An answer the administrator polled (success, failed, error) is never taken
\* back, neither by a late verification callback nor by a cancel request.
SettledStaysSettled ==
    [][\A s \in Sessions :
        status[s] \in {"success", "failed", "error"} => status'[s] = status[s]]_vars

\* The slot table goes through no step SliderConcurrencyManager does not offer:
\* although a granted look at the table is stale when the slot is taken, the
\* login implements SliderSlots.
ImplementsSlots == Slots!SlotSpec

\* _find_same_account_active_locked: no two sliders of one account run at the
\* same time and trample on each other.
OneBrowserPerAccount ==
    \A s, t \in Sessions :
        (/\ thread[s] = "browser" /\ thread[t] = "browser"
         /\ PureId[AccountOf[s]] = PureId[AccountOf[t]]) => s = t

\* Whatever happens to a login, its slot is given back: a cancelled task, a
\* browser that does not start, a verification nobody completes.
SlotComesBack ==
    \A s \in Sessions :
        (active[AccountOf[s]] = s) ~> (active[AccountOf[s]] # s)

\* Every login comes to an answer, the ones that never get a slot included.
LoginSettles ==
    \A s \in Sessions : (status[s] = "processing") ~> (status[s] \in Terminal)
=============================================================================
