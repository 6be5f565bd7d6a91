----------------------------- MODULE AdminLogin -----------------------------
(***************************************************************************)
(* POST /login of the administrator and the limiter that counts its        *)
(* failures per address and per user name (app/auth/rate_limiter.py,       *)
(* app/api/routers/auth.py).  The handler runs on the event loop without   *)
(* an await between its first look at the limiter and the record of the    *)
(* outcome, so requests do not interleave; but each call reads the clock   *)
(* again, and the password check between them takes time: the clock may    *)
(* move between Arrive and Verify.                                         *)
(***************************************************************************)
EXTENDS Integers, Sequences, FiniteSets

CONSTANTS Ips, Names, AdminName, NoName, \* NoName: the empty user name
          IpMax, IpWindow, IpBlock,    \* IP_MAX_ATTEMPTS, IP_WINDOW_SECONDS, IP_BLOCK_SECONDS
          UserMax, UserWindow, UserLock,
          BlacklistAt,                 \* AUTO_BLACKLIST_THRESHOLD
          MaxTime                      \* bound of the clock

ASSUME LimiterAssumption ==
    /\ {IpMax, IpWindow, IpBlock, UserMax, UserWindow, UserLock, BlacklistAt} \subseteq Nat \ {0}
    /\ IpWindow < IpBlock /\ UserWindow < UserLock /\ IpMax < BlacklistAt
    /\ MaxTime \in Nat \ {0}

\* ADMIN_USERNAME has a default and is not set to nothing.
ASSUME AdminNamed == AdminName \in Names /\ AdminName # NoName

VARIABLES
    clock,        \* time.monotonic(), never 0
    ipRecords,    \* _ip_records, BlankRecord where the key is absent
    userRecords,  \* _user_records
    blacklisted,  \* _blacklisted_ips
    inHand,       \* the attempt whose password is being verified, or Idle
    ipGuesses,    \* history: times of the wrong passwords of an address since its last success
    userGuesses   \* history: the same for a user name

limiterVars == <<clock, ipRecords, userRecords, blacklisted, inHand, ipGuesses, userGuesses>>

Idle == <<>>
\* A record of attempts; until is blocked_until or locked_until, 0 = never.
\* An absent record behaves in every test like this one.
BlankRecord == [attempts |-> 0, first |-> 0, until |-> 0, total |-> 0]

LimiterInit ==
    /\ clock = 1
    /\ ipRecords = [i \in Ips |-> BlankRecord]
    /\ userRecords = [u \in Names |-> BlankRecord]
    /\ blacklisted = {}
    /\ inHand = Idle
    /\ ipGuesses = [i \in Ips |-> <<>>]
    /\ userGuesses = [u \in Names \ {NoName} |-> <<>>]

-----------------------------------------------------------------------------
Held(r) == r.until > clock

\* _reset_ip_window_if_needed and _reset_user_window_if_needed
ResetWindow(r, window) ==
    IF r.first > 0 /\ clock - r.first > window THEN [r EXCEPT !.attempts = 0, !.first = 0] ELSE r

\* What a check that finds no block leaves in the record.
LapseForgets(r, window) == IF Held(r) THEN r ELSE [r EXCEPT !.until = 0, !.attempts = 0, !.first = 0]
Lapse(r, window) == IF Held(r) THEN r ELSE ResetWindow([r EXCEPT !.until = 0], window)

\* cleanup_expired, for one table
SweptHeld(records, window, spare) ==
    [k \in DOMAIN records |->
        LET r == records[k] IN
        IF r.first = 0 \/ clock - r.first > window THEN BlankRecord ELSE r]
Swept(records, window, spare) ==
    [k \in DOMAIN records |->
        LET r == records[k] IN
        IF ~(k \notin spare /\ Held(r)) /\ (r.first = 0 \/ clock - r.first > window)
        THEN BlankRecord ELSE r]

UpTo(n, bound) == IF n < bound THEN n ELSE bound

\* One more failure in a record.  The counters are only compared with their
\* limits, so they stop past them.
Count(r, window, max) ==
    LET s == Lapse(r, window)
    IN  [s EXCEPT !.attempts = UpTo(@ + 1, max + 1), !.total = UpTo(@ + 1, BlacklistAt),
                  !.first = IF @ = 0 THEN clock ELSE @]

PunishOver(r, max, hold) == IF r.attempts > max THEN [r EXCEPT !.until = clock + hold] ELSE r
Punish(r, max, hold) == IF r.attempts >= max THEN [r EXCEPT !.until = clock + hold] ELSE r

\* record_failure
RecordFailure(ipTable, userTable, i, u) ==
    LET counted == Count(ipTable[i], IpWindow, IpMax)
        listed  == counted.total >= BlacklistAt
    IN  /\ ipRecords' = [ipTable EXCEPT
              ![i] = IF listed THEN counted ELSE Punish(counted, IpMax, IpBlock)]
        /\ userRecords' = [userTable EXCEPT
              ![u] = Punish([Count(@, UserWindow, UserMax) EXCEPT !.total = 0], UserMax, UserLock)]
        /\ blacklisted' = IF listed THEN blacklisted \cup {i} ELSE blacklisted

-----------------------------------------------------------------------------
\* login, up to the password check: cleanup_expired, check_ip, check_user.
Arrive(i, u) ==
    LET ips   == Swept(ipRecords, IpWindow, blacklisted)
        users == Swept(userRecords, UserWindow, {})
        seen  == IF i \in blacklisted THEN ips ELSE [ips EXCEPT ![i] = Lapse(@, IpWindow)]
    IN  /\ inHand = Idle
        /\ \/ /\ i \in blacklisted \/ Held(ips[i])               \* 429 for the address
              /\ ipRecords' = ips /\ userRecords' = users
              /\ UNCHANGED <<inHand, blacklisted>>
           \/ /\ ~(i \in blacklisted \/ Held(ips[i]))
              /\ u # NoName /\ Held(users[u])                    \* 429 for the user: one more failure
              /\ RecordFailure(seen, users, i, u)
              /\ UNCHANGED inHand
           \/ /\ ~(i \in blacklisted \/ Held(ips[i]))
              /\ u = NoName \/ ~Held(users[u])
              /\ ipRecords' = seen
              /\ userRecords' = IF u = NoName THEN users
                                ELSE [users EXCEPT ![u] = Lapse(@, UserWindow)]
              /\ inHand' = <<i, u>>
              /\ UNCHANGED blacklisted
        /\ UNCHANGED <<clock, ipGuesses, userGuesses>>

\* verify_admin_login says no: the failure is recorded (the delayed 401 changes nothing more)
WrongPassword ==
    /\ inHand # Idle
    /\ RecordFailure(ipRecords, userRecords, inHand[1], inHand[2])
    /\ ipGuesses' = [ipGuesses EXCEPT ![inHand[1]] = Append(@, clock)]
    /\ userGuesses' = IF inHand[2] = NoName THEN userGuesses
                      ELSE [userGuesses EXCEPT ![inHand[2]] = Append(@, clock)]
    /\ inHand' = Idle
    /\ UNCHANGED clock

\* record_success drops both records
RightPassword ==
    /\ inHand # Idle /\ inHand[2] = AdminName
    /\ ipRecords' = [ipRecords EXCEPT ![inHand[1]] = BlankRecord]
    /\ userRecords' = [userRecords EXCEPT ![inHand[2]] = BlankRecord]
    /\ ipGuesses' = [ipGuesses EXCEPT ![inHand[1]] = <<>>]
    /\ userGuesses' = [userGuesses EXCEPT ![inHand[2]] = <<>>]
    /\ inHand' = Idle
    /\ UNCHANGED <<clock, blacklisted>>

\* The times, which never decrease, without those more than window ago at now
Gone(times, window, now) == {j \in 1..Len(times) : now - times[j] > window}
Recent(times, window, now) == SubSeq(times, Cardinality(Gone(times, window, now)) + 1, Len(times))

\* Time passes (MaxTime bounds it); the histories forget what is out of reach.
ClockTick ==
    /\ clock < MaxTime
    /\ clock' = clock + 1
    /\ ipGuesses' = [i \in Ips |-> Recent(ipGuesses[i], IpWindow, clock + 1)]
    /\ userGuesses' = [u \in Names \ {NoName} |-> Recent(userGuesses[u], UserWindow, clock + 1)]
    /\ UNCHANGED <<ipRecords, userRecords, blacklisted, inHand>>

LimiterNext ==
    \/ \E i \in Ips, u \in Names : Arrive(i, u)
    \/ WrongPassword
    \/ RightPassword
    \/ ClockTick

LimiterSpec == LimiterInit /\ [][LimiterNext]_limiterVars

-----------------------------------------------------------------------------
AttemptRecord == [attempts : Nat, first : Nat, until : Nat, total : Nat]

\* The limiter's types; an absent record is empty, a block runs from a time
\* already past, and an address is in hand only with a name.
LimiterTypeOK ==
    /\ clock \in 1..MaxTime
    /\ ipRecords \in [Ips -> AttemptRecord] /\ userRecords \in [Names -> AttemptRecord]
    /\ \A i \in Ips : ipRecords[i].until <= clock + IpBlock /\ ipRecords[i].first <= clock
    /\ \A u \in Names : userRecords[u].until <= clock + UserLock /\ userRecords[u].first <= clock
    /\ blacklisted \subseteq Ips
    /\ inHand = Idle \/ inHand \in Ips \X Names

\* Any n of these times in a row, the first to the last, take more than window.
Sparse(times, n, window) ==
    \A j, k \in 1..Len(times) : k = j + n - 1 => times[k] - times[j] > window

\* An address tries at most 2 * IpMax - 1 wrong passwords in any stretch of
\* IpWindow and a user name 2 * UserMax - 1 in any UserWindow, whatever
\* addresses they come from, although the limiter's windows are fixed, the
\* records are swept, and a check and its record may fall in different windows.
SlidingBounds ==
    /\ \A i \in Ips : Sparse(ipGuesses[i], 2 * IpMax, IpWindow)
    /\ \A u \in Names \ {NoName} : Sparse(userGuesses[u], 2 * UserMax, UserWindow)

\* A block or lock that has not run out is never shortened: not by the sweep
\* of any other request, not by a failure, not by a success.
BlocksHold ==
    [][/\ \A i \in Ips : Held(ipRecords[i]) => ipRecords'[i].until >= ipRecords[i].until
       /\ \A u \in Names : Held(userRecords[u]) => userRecords'[u].until >= userRecords[u].until
       ]_limiterVars
=============================================================================
