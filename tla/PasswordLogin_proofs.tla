------------------------ MODULE PasswordLogin_proofs ------------------------
(***************************************************************************)
(* Proofs about PasswordLogin, for every set of accounts and sessions,     *)
(* every mapping of ids to accounts, slot limit and pool size.             *)
(***************************************************************************)
EXTENDS PasswordLogin, TLAPS

Settled == {"success", "failed", "error"}

\* The session exists exactly when its task does.
TaskExists ==
    \A s \in Sessions : (status[s] = "none") <=> (task[s] = "none")

\* There is a job only once the task has reached its await.
JobHasTask ==
    \A s \in Sessions : task[s] \in {"none", "ready"} => thread[s] = "none"

\* An acknowledged cancellation is on its way to the task or has arrived.
CancelReachesTask ==
    \A s \in Sessions : acked[s] => task[s] = "done" \/ cancelling[s]

\* A task that found its session a final answer has seen its job return.
SettledAfterJob ==
    \A s \in Sessions :
        status[s] \in Settled => task[s] = "done" /\ thread[s] = "returned"

\* A job that is past its login has an outcome.
JobHasOutcome ==
    \A s \in Sessions :
        thread[s] \in {"closed", "released", "returned"} => outcome[s] # "none"

\* A cookie of a session is stored only with the answer success.
StoredMeansSuccess ==
    \A s \in Sessions :
        (row[AccountOf[s]] = s \/ entry[AccountOf[s]] = s) => status[s] = "success"

\* A cancelled session does not get a final answer any more.
AckedNotSettled == \A s \in Sessions : acked[s] => status[s] \notin Settled

IInv ==
    /\ TypeOK
    /\ TaskExists
    /\ JobHasTask
    /\ CancelReachesTask
    /\ SettledAfterJob
    /\ JobHasOutcome
    /\ StoredMeansSuccess
    /\ AckedNotSettled

\* The invariant implies what TLC checks.
LEMMA IInvImplies ==
    IInv => TypeOK /\ CancelledNeverPersists /\ SettledMeansStopped
BY DEF IInv, StoredMeansSuccess, AckedNotSettled, SettledAfterJob, Settled,
       CancelledNeverPersists, SettledMeansStopped

\* Nothing has been asked for yet.
LEMMA InitInv == Init => IInv
BY LoginAssumption
DEF Init, IInv, TypeOK, Slots!SlotInit, Slots!SlotTypeOK, TaskExists, JobHasTask,
    CancelReachesTask, SettledAfterJob, JobHasOutcome, StoredMeansSuccess,
    AckedNotSettled, Settled, Open, Terminal, ThreadStates, Outcomes, Cookies

\* Requests, task steps and thread steps keep the invariant.
LEMMA StepInv == IInv /\ [Next]_vars => IInv'
<1> SUFFICES ASSUME IInv, [Next]_vars PROVE IInv'
    OBVIOUS
<1> USE LoginAssumption
    DEF IInv, TypeOK, Slots!SlotTypeOK, TaskExists, JobHasTask, CancelReachesTask,
        SettledAfterJob, JobHasOutcome, StoredMeansSuccess, AckedNotSettled,
        Settled, Open, Terminal, ThreadStates, Outcomes, Cookies,
        sessionVars, threadVars, slotVars, accountVars, Goto
<1>1. ASSUME NEW s \in Sessions, CreateSession(s) PROVE IInv'
    BY <1>1 DEF CreateSession
<1>2. ASSUME NEW s \in Sessions, CancelSession(s) PROVE IInv'
  <2>1. TypeOK'
      BY <1>2 DEF CancelSession
  <2>2. TaskExists' /\ JobHasTask' /\ SettledAfterJob' /\ JobHasOutcome'
      BY <1>2 DEF CancelSession
  <2>3. CancelReachesTask'
      BY <1>2 DEF CancelSession
  <2>4. StoredMeansSuccess'
      BY <1>2 DEF CancelSession
  <2>5. AckedNotSettled'
      BY <1>2 DEF CancelSession
  <2>6. QED
      BY <2>1, <2>2, <2>3, <2>4, <2>5
<1>3. ASSUME NEW s \in Sessions, StartTask(s) PROVE IInv'
    BY <1>3 DEF StartTask
<1>4. ASSUME NEW s \in Sessions, DropTask(s) PROVE IInv'
    BY <1>4 DEF DropTask
<1>5. ASSUME NEW s \in Sessions, FinishTask(s) PROVE IInv'
    BY <1>5 DEF FinishTask, FinalStatus, Persist, Cleanup, Slots!Unregister
<1>6. ASSUME NEW s \in Sessions, CancelTask(s) PROVE IInv'
    BY <1>6 DEF CancelTask, Cleanup, Slots!Unregister
<1>7. ASSUME NEW s \in Sessions, SlotSeen(s) \/ NoSlotSeen(s) PROVE IInv'
    BY <1>7 DEF SlotSeen, NoSlotSeen
<1>8. ASSUME NEW s \in Sessions, JoinQueue(s) PROVE IInv'
    BY <1>8 DEF JoinQueue, Slots!Enqueue
<1>9. ASSUME NEW s \in Sessions, TakeSlot(s) PROVE IInv'
    BY <1>9 DEF TakeSlot, Slots!Register
<1>10. ASSUME NEW s \in Sessions, SlotLost(s) PROVE IInv'
    BY <1>10 DEF SlotLost
<1>11a. ASSUME NEW s \in Sessions, Constructed(s) PROVE IInv'
    BY <1>11a DEF Constructed
<1>11b. ASSUME NEW s \in Sessions, LaunchBrowser(s) PROVE IInv'
    BY <1>11b DEF LaunchBrowser
<1>12. ASSUME NEW s \in Sessions, LaunchFails(s) PROVE IInv'
    BY <1>12 DEF LaunchFails
<1>13. ASSUME NEW s \in Sessions, InnerFinally(s) \/ OuterFinally(s) PROVE IInv'
    BY <1>13 DEF InnerFinally, OuterFinally, Slots!Unregister
<1>14. ASSUME NEW s \in Sessions, ThreadStart(s) PROVE IInv'
    BY <1>14 DEF ThreadStart
<1>15. ASSUME NEW s \in Sessions, WaitTimeout(s) PROVE IInv'
    BY <1>15 DEF WaitTimeout, Slots!LeaveQueue
<1>16. ASSUME NEW s \in Sessions, RequireVerification(s) PROVE IInv'
    BY <1>16 DEF RequireVerification
<1>17. ASSUME NEW s \in Sessions, LoginReturns(s) PROVE IInv'
    BY <1>17 DEF LoginReturns
<1>18. ASSUME NEW a \in Accounts, RemoveAccount(a) \/ AddAccount(a) PROVE IInv'
    BY <1>18 DEF RemoveAccount, AddAccount
<1>19. ASSUME NEW a \in Accounts, UpdateCookie(a) PROVE IInv'
    BY <1>19 DEF UpdateCookie
<1>20. ASSUME UNCHANGED vars PROVE IInv'
    BY <1>20 DEF vars
<1>21. QED
    BY <1>1, <1>2, <1>3, <1>4, <1>5, <1>6, <1>7, <1>8, <1>9, <1>10, <1>11a, <1>11b,
       <1>12, <1>13, <1>14, <1>15, <1>16, <1>17, <1>18, <1>19, <1>20
    DEF Next, TaskStep, ThreadStep

\* The state of a login always has its type.
THEOREM LoginTypeCorrect == Spec => []TypeOK
<1>1. Spec => []IInv
    BY InitInv, StepInv, PTL DEF Spec
<1>2. QED
    BY <1>1, IInvImplies, PTL

\* An acknowledged cancellation keeps the login out of the database and the
\* registry, for any number of sessions of any number of accounts.
THEOREM CancelledLoginsNeverPersist == Spec => []CancelledNeverPersists
<1>1. Spec => []IInv
    BY InitInv, StepInv, PTL DEF Spec
<1>2. QED
    BY <1>1, IInvImplies, PTL

\* A final answer is given only when the job of the session has returned.
THEOREM SettledLoginsStopped == Spec => []SettledMeansStopped
<1>1. Spec => []IInv
    BY InitInv, StepInv, PTL DEF Spec
<1>2. QED
    BY <1>1, IInvImplies, PTL

\* Only creating, cancelling, finishing and verifying write session.status.
LEMMA SettledKept ==
    IInv /\ [Next]_vars =>
        \A s \in Sessions : status[s] \in Settled => status'[s] = status[s]
<1> SUFFICES ASSUME IInv, [Next]_vars, NEW t \in Sessions, status[t] \in Settled
             PROVE  status'[t] = status[t]
    OBVIOUS
<1> USE DEF IInv, TypeOK, TaskExists, SettledAfterJob, Settled, Open, sessionVars
<1>1. ASSUME NEW s \in Sessions, CreateSession(s) PROVE status'[t] = status[t]
    BY <1>1 DEF CreateSession
<1>2. ASSUME NEW s \in Sessions, CancelSession(s) PROVE status'[t] = status[t]
    BY <1>2 DEF CancelSession
<1>3. ASSUME NEW s \in Sessions, FinishTask(s) PROVE status'[t] = status[t]
    BY <1>3 DEF FinishTask
<1>4. ASSUME NEW s \in Sessions, CancelTask(s) PROVE status'[t] = status[t]
    BY <1>4 DEF CancelTask
<1>5. ASSUME NEW s \in Sessions, RequireVerification(s)
      PROVE  status'[t] = status[t]
    BY <1>5 DEF RequireVerification
<1>6. ASSUME NEW s \in Sessions,
             \/ StartTask(s) \/ DropTask(s) \/ ThreadStep(s)
             \/ ThreadStart(s) \/ WaitTimeout(s) \/ LoginReturns(s)
      PROVE  status'[t] = status[t]
    BY <1>6 DEF StartTask, DropTask, ThreadStep, ThreadStart, WaitTimeout,
        LoginReturns, SlotSeen, NoSlotSeen, JoinQueue, TakeSlot, SlotLost,
        Constructed, LaunchBrowser, LaunchFails, InnerFinally, OuterFinally
<1>7. ASSUME NEW a \in Accounts, RemoveAccount(a) \/ AddAccount(a) \/ UpdateCookie(a)
      PROVE  status'[t] = status[t]
    BY <1>7 DEF RemoveAccount, AddAccount, UpdateCookie
<1>8. ASSUME UNCHANGED vars PROVE status'[t] = status[t]
    BY <1>8 DEF vars
<1>9. QED
    BY <1>1, <1>2, <1>3, <1>4, <1>5, <1>6, <1>7, <1>8 DEF Next, TaskStep

\* A final answer is never taken back, for any number of concurrent logins,
\* cancellations and late verification callbacks.
THEOREM SettledLoginsStaySettled == Spec => SettledStaysSettled
<1>1. IInv /\ [Next]_vars =>
        [\A s \in Sessions :
            status[s] \in {"success", "failed", "error"} => status'[s] = status[s]]_vars
    BY SettledKept DEF Settled
<1>2. Spec => []IInv
    BY InitInv, StepInv, PTL DEF Spec
<1>3. QED
    BY <1>1, <1>2, PTL DEF Spec, SettledStaysSettled

-----------------------------------------------------------------------------
\* Every step of a login is a step of the slot manager or leaves it alone.
LEMMA StepImplementsSlots == [Next]_vars => [Slots!SlotNext]_(Slots!slotVars)
<1> SUFFICES ASSUME [Next]_vars PROVE [Slots!SlotNext]_(Slots!slotVars)
    OBVIOUS
<1> USE LoginAssumption DEF Slots!SlotNext, Slots!slotVars, slotVars
<1>1. ASSUME NEW s \in Sessions,
             JoinQueue(s) \/ WaitTimeout(s) \/ InnerFinally(s) \/ OuterFinally(s)
      PROVE  Slots!SlotNext
    BY <1>1 DEF JoinQueue, WaitTimeout, InnerFinally, OuterFinally
<1>2. ASSUME NEW s \in Sessions, TakeSlot(s) PROVE Slots!SlotNext
    BY <1>2 DEF TakeSlot
<1>3. ASSUME NEW s \in Sessions, FinishTask(s) \/ CancelTask(s)
      PROVE  [Slots!SlotNext]_(Slots!slotVars)
    BY <1>3 DEF FinishTask, CancelTask, Cleanup
<1>4. ASSUME NEW s \in Sessions,
             \/ CreateSession(s) \/ CancelSession(s) \/ StartTask(s) \/ DropTask(s)
             \/ SlotSeen(s) \/ NoSlotSeen(s) \/ SlotLost(s) \/ Constructed(s)
             \/ LaunchBrowser(s) \/ LaunchFails(s) \/ ThreadStart(s)
             \/ RequireVerification(s) \/ LoginReturns(s)
      PROVE  UNCHANGED slotVars
    BY <1>4 DEF CreateSession, CancelSession, StartTask, DropTask, SlotSeen,
        NoSlotSeen, SlotLost, Constructed, LaunchBrowser, LaunchFails,
        ThreadStart, RequireVerification, LoginReturns
<1>5. ASSUME NEW a \in Accounts, RemoveAccount(a) \/ AddAccount(a) \/ UpdateCookie(a)
      PROVE  UNCHANGED slotVars
    BY <1>5 DEF RemoveAccount, AddAccount, UpdateCookie
<1>6. ASSUME UNCHANGED vars PROVE UNCHANGED slotVars
    BY <1>6 DEF vars
<1>7. QED
    BY <1>1, <1>2, <1>3, <1>4, <1>5, <1>6 DEF Next, TaskStep, ThreadStep

\* The password login, with its stale look at the table and its three releases,
\* implements the slot manager, whose limit and exclusion Slider_proofs
\* shows.
THEOREM LoginImplementsSlots == Spec => ImplementsSlots
<1>1. Init => Slots!SlotInit
    BY DEF Init
<1>2. QED
    BY <1>1, StepImplementsSlots, PTL DEF Spec, ImplementsSlots, Slots!SlotSpec
=============================================================================
