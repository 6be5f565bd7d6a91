---------------------------- MODULE SliderSlots ----------------------------
(***************************************************************************)
(* SliderConcurrencyManager (utils/xianyu_slider_stealth.py): the process- *)
(* wide table that lets at most MaxConcurrent slider browsers run, and at  *)
(* most one per Xianyu account.  Every method body runs under              *)
(* instance_lock, so each is one step; wait_for_slot takes the lock once   *)
(* per look at the table and reserves nothing.                             *)
(*                                                                         *)
(* This module is the promise of the manager to its callers.  PasswordLogin*)
(* is one caller and is shown to take only these steps.                    *)
(***************************************************************************)
EXTENDS Integers, FiniteSets

CONSTANTS
    UserIds,        \* the ids the sliders are created with
    Instances,      \* the slider objects
    NoInstance,
    PureId,         \* _extract_pure_user_id: user id -> account, many-to-one
    MaxConcurrent   \* SLIDER_MAX_CONCURRENT

ASSUME SlotAssumption ==
    /\ IsFiniteSet(UserIds)
    /\ DOMAIN PureId = UserIds
    /\ NoInstance \notin Instances
    /\ MaxConcurrent \in Nat \ {0}

VARIABLES
    active,     \* active_instances: the instance registered under each user id
    waiting     \* waiting_queue; its order is never read, its entries are unique

slotVars == <<active, waiting>>

ActiveIds == {u \in UserIds : active[u] # NoInstance}

SameAccountActive(u) == \E v \in ActiveIds : PureId[v] = PureId[u]

CanStart(u) ==
    /\ Cardinality(ActiveIds) < MaxConcurrent
    /\ ~SameAccountActive(u)

-----------------------------------------------------------------------------
(* Wrong variants of the definitions below: each breaks a property.        *)

\* register_instance trusts the wait for the account, as the first one does.
RegisterAnyAccount(u, i) ==
    /\ Cardinality(ActiveIds) < MaxConcurrent
    /\ active' = [active EXCEPT ![u] = i]
    /\ waiting' = waiting \ {u}

\* The slot is handed on to whoever queues for the account, instead of given
\* back.
UnregisterUnlessQueued(u) ==
    /\ active' = [active EXCEPT ![u] =
                    IF \E v \in waiting : PureId[v] = PureId[u] THEN @ ELSE NoInstance]
    /\ UNCHANGED waiting

-----------------------------------------------------------------------------
SlotInit ==
    /\ active = [u \in UserIds |-> NoInstance]
    /\ waiting = {}

\* wait_for_slot, a look at the table that found no slot: queue up once.
Enqueue(u) ==
    /\ waiting' = waiting \cup {u}
    /\ UNCHANGED active

\* wait_for_slot, after its timeout.
LeaveQueue(u) ==
    /\ waiting' = waiting \ {u}
    /\ UNCHANGED active

\* register_instance checks again under the lock: the wait reserved nothing.
Register(u, i) ==
    /\ CanStart(u)
    /\ active' = [active EXCEPT ![u] = i]
    /\ waiting' = waiting \ {u}

\* unregister_instance goes by the user id alone, whoever holds the slot.
Unregister(u) ==
    /\ active' = [active EXCEPT ![u] = NoInstance]
    /\ UNCHANGED waiting

SlotNext ==
    \E u \in UserIds :
        \/ Enqueue(u)
        \/ LeaveQueue(u)
        \/ \E i \in Instances : Register(u, i)
        \/ Unregister(u)

SlotSpec == SlotInit /\ [][SlotNext]_slotVars

-----------------------------------------------------------------------------
SlotTypeOK ==
    /\ active \in [UserIds -> Instances \cup {NoInstance}]
    /\ waiting \subseteq UserIds

\* However callers interleave, the table never holds more than MaxConcurrent
\* instances (can_start_instance, register_instance).
AtMostMaxConcurrent == Cardinality(ActiveIds) <= MaxConcurrent

\* Two ids that _extract_pure_user_id maps to one account are never both
\* registered (_find_same_account_active_locked).
OneSlotPerAccount ==
    \A u, v \in ActiveIds : PureId[u] = PureId[v] => u = v

\* Both: what the lock of the manager is there for.
SlotLimits == AtMostMaxConcurrent /\ OneSlotPerAccount
=============================================================================
