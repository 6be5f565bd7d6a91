---------------------------- MODULE SliderHistory ----------------------------
(***************************************************************************)
(* The files of drags an account's slider learns from                      *)
(* (utils/xianyu_slider_stealth.py): the success history, cleaned whenever *)
(* it is read, and the failure history.  Both are rewritten in place, so a *)
(* crash between truncation and the end of the dump leaves a torn file.    *)
(* One slider of the account is assumed to run at a time: no lock spans    *)
(* the read and the rewrite.                                               *)
(***************************************************************************)
EXTENDS Integers, Sequences

CONSTANTS SuccessLimit, FailureLimit,  \* 100 and 200 in the code
          CheckWindow,                 \* check_window
          MaxDrags,                    \* bound: drags recorded
          Torn                         \* a file json.load fails on

ASSUME HistoryAssumption ==
    /\ {SuccessLimit, FailureLimit, CheckWindow} \subseteq Nat \ {0} /\ MaxDrags \in Nat
    /\ Torn \notin Seq(1..MaxDrags)

VARIABLES
    drags,      \* history: drags so far; a record is named by its drag
    expired,    \* the records of drags 1..expired are past their age
    successes,  \* the success history
    failures,   \* the failure history
    good        \* history: the drags saved as successes since the file was last torn

historyVars == <<drags, expired, successes, failures, good>>

HistoryInit ==
    /\ drags = 0 /\ expired = 0
    /\ successes = << >> /\ failures = << >>
    /\ good = << >>

Newest(s, n) == IF Len(s) <= n THEN s ELSE SubSeq(s, Len(s) - n + 1, Len(s))
Oldest(s, n) == SubSeq(s, 1, n)

\* The records that are not past their age: a file is in the order of its
\* drags, so the expired ones come first.
Unexpired(s) ==
    {Newest(s, n) : n \in {m \in 0..Len(s) : \A i \in 1..Len(s) : s[i] > expired <=> i > Len(s) - m}}

\* check_and_cleanup_history: expired records go; when there are none, the
\* older half of a history that overshoots too much
OldHalfKept(s) == Oldest(s, Len(s) - Len(s) \div 2)
HalfKept(s) == Newest(s, Len(s) - Len(s) \div 2)

Cleaned(s) ==
    IF Len(s) < CheckWindow THEN {s}
    ELSE IF \E i \in 1..Len(s) : s[i] <= expired THEN Unexpired(s)
    ELSE {s, HalfKept(s)}

\* _load_success_history: an unreadable file is an empty history
LoadSuccesses == IF successes = Torn THEN {<< >>} ELSE Cleaned(successes)

\* Before a drag: _optimize_trajectory_params reads, and so cleans.
Learn ==
    /\ successes # Torn
    /\ successes' \in Cleaned(successes)
    /\ UNCHANGED <<drags, expired, failures, good>>

\* _save_success_record
SaveSuccess ==
    /\ drags < MaxDrags
    /\ drags' = drags + 1
    /\ \E kept \in LoadSuccesses : successes' = Newest(Append(kept, drags + 1), SuccessLimit)
    /\ good' = Append(IF successes = Torn THEN << >> ELSE good, drags + 1)
    /\ UNCHANGED <<expired, failures>>

\* _save_failure_record: an unreadable file is an error, and stays
SaveFailure ==
    /\ drags < MaxDrags
    /\ drags' = drags + 1
    /\ failures' = IF failures = Torn THEN Torn ELSE Newest(Append(failures, drags + 1), FailureLimit)
    /\ UNCHANGED <<expired, successes, good>>

\* The process dies while it writes one of the files.
Crash ==
    /\ \/ successes' = Torn /\ UNCHANGED failures
       \/ failures' = Torn /\ UNCHANGED successes
    /\ UNCHANGED <<drags, expired, good>>

TimePasses ==
    /\ expired < drags
    /\ expired' = expired + 1
    /\ UNCHANGED <<drags, successes, failures, good>>

HistoryNext == Learn \/ SaveSuccess \/ SaveFailure \/ Crash \/ TimePasses

HistorySpec == HistoryInit /\ [][HistoryNext]_historyVars

-----------------------------------------------------------------------------
\* Whatever was cleaned, cut or lost, what the next drag is modelled on is the
\* latest successes without a gap, never more than the limit, and after a torn
\* file the history begins anew with the next success.
LearnsFromTheLatest ==
    successes # Torn =>
        /\ Len(successes) <= SuccessLimit
        /\ successes = Newest(good, Len(successes))
=============================================================================
