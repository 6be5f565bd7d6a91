-------------------------- MODULE AdminLogin_proofs --------------------------
(***************************************************************************)
(* Proofs about AdminLogin, for every set of addresses and names and every *)
(* choice of limits and times.                                             *)
(***************************************************************************)
EXTENDS AdminLogin, FiniteSetTheorems, SequenceTheorems, TLAPS

\* The address and the name of the attempt in hand are free: they were when it
\* was let in, and nothing is recorded until it is verified.
InHandFree ==
    inHand # Idle =>
        /\ inHand[1] \notin blacklisted /\ ~Held(ipRecords[inHand[1]])
        /\ inHand[2] # NoName => ~Held(userRecords[inHand[2]])

\* An address is put on the blacklist instead of being blocked, so the sweep,
\* which does not spare blacklisted ones, drops no block.
ListedFree == \A i \in blacklisted : ~Held(ipRecords[i])

LimiterInv == LimiterTypeOK /\ InHandFree /\ ListedFree

\* A record of a table whose blocks last for hold at most
Proper(r, hold) == r \in AttemptRecord /\ r.until <= clock + hold /\ r.first <= clock

\* The table after is a proper one, and no block of the one before is shorter.
Kept(before, after, hold) ==
    /\ after \in [DOMAIN before -> AttemptRecord]
    /\ \A k \in DOMAIN before :
        /\ Proper(after[k], hold)
        /\ Held(before[k]) => after[k].until >= before[k].until

\* Nothing is blocked that was not.
NoneNew(before, after) == \A k \in DOMAIN before : Held(after[k]) => Held(before[k])

-----------------------------------------------------------------------------
LEMMA LapseRecord ==
    ASSUME NEW hold \in Nat, NEW window \in Nat, clock \in Nat, NEW r, Proper(r, hold)
    PROVE  /\ Proper(Lapse(r, window), hold)
           /\ Held(r) => Lapse(r, window) = r
           /\ ~Held(r) => Lapse(r, window).until = 0
<1>1. CASE Held(r)
  BY <1>1 DEF Lapse
<1>2. CASE ~Held(r)
  <2> DEFINE s == [r EXCEPT !.until = 0]
  <2>1. Proper(s, hold) /\ s.until = 0
    BY DEF Proper, AttemptRecord
  <2> HIDE DEF s
  <2>2. Proper([s EXCEPT !.attempts = 0, !.first = 0], hold) /\ [s EXCEPT !.attempts = 0, !.first = 0].until = 0
    <3>1. s \in [attempts : Nat, first : Nat, until : Nat, total : Nat]
      BY <2>1 DEF Proper, AttemptRecord
    <3>2. /\ [s EXCEPT !.attempts = 0, !.first = 0] \in [attempts : Nat, first : Nat, until : Nat, total : Nat]
          /\ [s EXCEPT !.attempts = 0, !.first = 0].until = s.until
          /\ [s EXCEPT !.attempts = 0, !.first = 0].first = 0
      BY <3>1
    <3> QED BY <2>1, <3>2 DEF Proper, AttemptRecord
  <2>3. Lapse(r, window) \in {s, [s EXCEPT !.attempts = 0, !.first = 0]}
    BY <1>2 DEF Lapse, ResetWindow, s
  <2> QED BY <1>2, <2>1, <2>2, <2>3
<1> QED BY <1>1, <1>2

\* One more failure leaves a block as it is and makes none.
LEMMA CountRecord ==
    ASSUME NEW hold \in Nat, NEW window \in Nat, NEW max \in Nat, clock \in Nat, NEW r, Proper(r, hold)
    PROVE  /\ Proper(Count(r, window, max), hold)
           /\ Count(r, window, max).until = IF Held(r) THEN r.until ELSE 0
<1> DEFINE s == Lapse(r, window)
           attempts == UpTo(s.attempts + 1, max + 1)
           total == UpTo(s.total + 1, BlacklistAt)
           first == IF s.first = 0 THEN clock ELSE s.first
<1>1. Proper(s, hold) /\ s.until = IF Held(r) THEN r.until ELSE 0
  BY LapseRecord
<1>2. Count(r, window, max) = [s EXCEPT !.attempts = attempts, !.total = total, !.first = first]
  BY DEF Count
<1>3. attempts \in Nat /\ total \in Nat
  BY <1>1, LimiterAssumption DEF UpTo, Proper, AttemptRecord
<1>4. first \in Nat /\ first <= clock
  BY <1>1 DEF Proper, AttemptRecord
<1> HIDE DEF s, attempts, total, first
<1> QED BY <1>1, <1>2, <1>3, <1>4 DEF Proper, AttemptRecord

LEMMA PunishRecord ==
    ASSUME NEW hold \in Nat, NEW max \in Nat, clock \in Nat, NEW r, Proper(r, hold)
    PROVE  Proper(Punish(r, max, hold), hold) /\ Punish(r, max, hold).until >= r.until
<1>1. Punish(r, max, hold) \in {r, [r EXCEPT !.until = clock + hold]}
  BY DEF Punish
<1>2. /\ Proper([r EXCEPT !.until = clock + hold], hold)
      /\ [r EXCEPT !.until = clock + hold].until = clock + hold
  BY DEF Proper, AttemptRecord
<1> QED BY <1>1, <1>2 DEF Proper, AttemptRecord

\* The sweep keeps every block but those of spare keys, which have none.
LEMMA SweptKept ==
    ASSUME NEW hold \in Nat, NEW window \in Nat, clock \in Nat, NEW records, NEW spare,
           records \in [DOMAIN records -> AttemptRecord],
           \A k \in DOMAIN records : Proper(records[k], hold),
           \A k \in spare \cap DOMAIN records : ~Held(records[k])
    PROVE  /\ Kept(records, Swept(records, window, spare), hold)
           /\ NoneNew(records, Swept(records, window, spare))
<1>1. BlankRecord \in AttemptRecord /\ Proper(BlankRecord, hold) /\ ~Held(BlankRecord)
  BY DEF BlankRecord, AttemptRecord, Proper, Held
<1>2. \A k \in DOMAIN records :
        \/ Swept(records, window, spare)[k] = records[k]
        \/ Swept(records, window, spare)[k] = BlankRecord /\ ~Held(records[k])
  BY DEF Swept
<1>3. Swept(records, window, spare) \in [DOMAIN records -> AttemptRecord]
  BY <1>1 DEF Swept
<1>4. \A k \in DOMAIN records : Held(records[k]) => records[k].until >= records[k].until
  BY DEF Proper, AttemptRecord
<1> QED BY <1>1, <1>2, <1>3, <1>4 DEF Kept, NoneNew

\* A record replaced by one that keeps its block keeps the table.
LEMMA ReplacedKept ==
    ASSUME NEW hold \in Nat, NEW before, NEW after, Kept(before, after, hold), NEW k \in DOMAIN before, NEW r,
           clock \in Nat, before \in [DOMAIN before -> AttemptRecord],
           Proper(r, hold), Held(after[k]) => r.until >= after[k].until
    PROVE  Kept(before, [after EXCEPT ![k] = r], hold)
BY DEF Kept, Proper, AttemptRecord, Held

\* record_failure on tables that keep those of the limiter, for an address
\* that is free
LEMMA FailureKept ==
    ASSUME LimiterTypeOK, NEW ips, NEW users, NEW i \in Ips, NEW u \in Names,
           Kept(ipRecords, ips, IpBlock), Kept(userRecords, users, UserLock),
           ~Held(ips[i]), RecordFailure(ips, users, i, u)
    PROVE  /\ Kept(ipRecords, ipRecords', IpBlock)
           /\ Kept(userRecords, userRecords', UserLock)
           /\ \A k \in Ips \ {i} : ipRecords'[k] = ips[k]
           /\ \/ blacklisted' = blacklisted
              \/ blacklisted' = blacklisted \cup {i} /\ ~Held(ipRecords'[i])
<1>1. /\ {IpMax, IpWindow, IpBlock, UserMax, UserWindow, UserLock} \subseteq Nat
      /\ clock \in Nat
      /\ ipRecords \in [Ips -> AttemptRecord] /\ userRecords \in [Names -> AttemptRecord]
      /\ ips \in [Ips -> AttemptRecord] /\ users \in [Names -> AttemptRecord]
      /\ DOMAIN ipRecords = Ips /\ DOMAIN userRecords = Names
  BY LimiterAssumption DEF LimiterTypeOK, Kept
<1> DEFINE counted == Count(ips[i], IpWindow, IpMax)
           listed  == counted.total >= BlacklistAt
           failed  == Count(users[u], UserWindow, UserMax)
           untold  == [failed EXCEPT !.total = 0]
           locked  == Punish(untold, UserMax, UserLock)
<1>2. Proper(ips[i], IpBlock) /\ Proper(users[u], UserLock)
  BY <1>1 DEF Kept
<1>3. Proper(counted, IpBlock) /\ counted.until = 0
  BY <1>1, <1>2, CountRecord
<1>4. Proper(failed, UserLock) /\ (Held(users[u]) => failed.until = users[u].until)
  BY <1>1, <1>2, CountRecord
<1>5. /\ ipRecords' = [ips EXCEPT ![i] = IF listed THEN counted ELSE Punish(counted, IpMax, IpBlock)]
      /\ userRecords' = [users EXCEPT ![u] = locked]
      /\ blacklisted' = IF listed THEN blacklisted \cup {i} ELSE blacklisted
  BY DEF RecordFailure
<1> HIDE DEF counted, failed, listed
<1>6. Proper(untold, UserLock) /\ untold.until = failed.until
  BY <1>4 DEF Proper, AttemptRecord
<1> HIDE DEF untold
<1>7. Proper(locked, UserLock) /\ locked.until >= failed.until
  BY <1>1, <1>6, PunishRecord
<1> HIDE DEF locked
<1>8. Kept(userRecords, userRecords', UserLock)
  <2>1. Held(users[u]) => locked.until >= users[u].until
    BY <1>4, <1>7
  <2> QED BY <1>1, <1>5, <1>7, <2>1, ReplacedKept
<1>9. Proper(Punish(counted, IpMax, IpBlock), IpBlock)
  BY <1>1, <1>3, PunishRecord
<1>10. Kept(ipRecords, ipRecords', IpBlock)
  <2> DEFINE r == IF listed THEN counted ELSE Punish(counted, IpMax, IpBlock)
  <2>1. Proper(r, IpBlock)
    BY <1>3, <1>9
  <2>2. ipRecords' = [ips EXCEPT ![i] = r]
    BY <1>5
  <2> HIDE DEF r
  <2> QED BY <1>1, <2>1, <2>2, ReplacedKept
<1>11. listed => ~Held(ipRecords'[i])
  BY <1>1, <1>3, <1>5 DEF Held
<1>12. \A k \in Ips \ {i} : ipRecords'[k] = ips[k]
  BY <1>1, <1>5
<1>13. blacklisted' = blacklisted \/ (blacklisted' = blacklisted \cup {i} /\ ~Held(ipRecords'[i]))
  BY <1>5, <1>11
<1> QED BY <1>8, <1>10, <1>12, <1>13
-----------------------------------------------------------------------------
LEMMA LimiterInitInv == LimiterInit => LimiterInv
<1> SUFFICES ASSUME LimiterInit PROVE LimiterInv
  OBVIOUS
<1>1. LimiterTypeOK
  BY LimiterAssumption DEF LimiterInit, LimiterTypeOK, BlankRecord, AttemptRecord, Idle
<1>2. InHandFree /\ ListedFree
  BY DEF LimiterInit, InHandFree, ListedFree
<1> QED BY <1>1, <1>2 DEF LimiterInv

\* Tables kept by a step that does not move the clock are in their types.
LEMMA KeptTypes ==
    ASSUME LimiterTypeOK, Kept(ipRecords, ipRecords', IpBlock), Kept(userRecords, userRecords', UserLock),
           UNCHANGED clock, blacklisted' \subseteq Ips, inHand' = Idle \/ inHand' \in Ips \X Names
    PROVE  LimiterTypeOK'
<1>1. DOMAIN ipRecords = Ips /\ DOMAIN userRecords = Names
  BY DEF LimiterTypeOK
<1> QED BY <1>1 DEF LimiterTypeOK, Kept, Proper

LEMMA ArriveInv ==
    ASSUME LimiterInv, NEW i \in Ips, NEW u \in Names, Arrive(i, u)
    PROVE  /\ LimiterInv'
           /\ Kept(ipRecords, ipRecords', IpBlock)
           /\ Kept(userRecords, userRecords', UserLock)
<1> DEFINE ips   == Swept(ipRecords, IpWindow, blacklisted)
           users == Swept(userRecords, UserWindow, {})
           lapsed == Lapse(ips[i], IpWindow)
           seen  == IF i \in blacklisted THEN ips ELSE [ips EXCEPT ![i] = lapsed]
           relieved == Lapse(users[u], UserWindow)
<1>0. /\ LimiterTypeOK /\ InHandFree /\ ListedFree
      /\ {IpMax, IpWindow, IpBlock, UserMax, UserWindow, UserLock} \subseteq Nat
      /\ clock \in Nat
      /\ ipRecords \in [Ips -> AttemptRecord] /\ userRecords \in [Names -> AttemptRecord]
      /\ DOMAIN ipRecords = Ips /\ DOMAIN userRecords = Names
      /\ \A k \in Ips : Proper(ipRecords[k], IpBlock)
      /\ \A k \in Names : Proper(userRecords[k], UserLock)
  BY LimiterAssumption DEF LimiterInv, LimiterTypeOK, Proper
<1>1. Kept(ipRecords, ips, IpBlock) /\ NoneNew(ipRecords, ips)
  BY <1>0, SweptKept DEF ListedFree
<1>2. Kept(userRecords, users, UserLock) /\ NoneNew(userRecords, users)
  BY <1>0, SweptKept
<1>3. /\ ips \in [Ips -> AttemptRecord] /\ users \in [Names -> AttemptRecord]
      /\ Proper(ips[i], IpBlock) /\ Proper(users[u], UserLock)
  BY <1>0, <1>1, <1>2 DEF Kept
<1>4. inHand = Idle /\ UNCHANGED clock
  BY DEF Arrive
<1>5. CASE /\ ipRecords' = ips /\ userRecords' = users
           /\ UNCHANGED <<inHand, blacklisted>>
  <2>1. LimiterTypeOK'
    BY <1>0, <1>1, <1>2, <1>4, <1>5, KeptTypes DEF LimiterTypeOK
  <2>2. InHandFree'
    BY <1>4, <1>5 DEF InHandFree
  <2>3. ListedFree'
    BY <1>0, <1>1, <1>4, <1>5 DEF ListedFree, NoneNew, Held, LimiterTypeOK
  <2> QED BY <1>1, <1>2, <1>5, <2>1, <2>2, <2>3 DEF LimiterInv
<1>6. Proper(lapsed, IpBlock) /\ (Held(ips[i]) => lapsed = ips[i]) /\ (~Held(ips[i]) => lapsed.until = 0)
  BY <1>0, <1>3, LapseRecord
<1>7. Proper(relieved, UserLock) /\ (Held(users[u]) => relieved = users[u])
      /\ (~Held(users[u]) => relieved.until = 0)
  BY <1>0, <1>3, LapseRecord
<1>8. Kept(ipRecords, seen, IpBlock)
  <2>1. Held(ips[i]) => lapsed.until >= ips[i].until
    BY <1>0, <1>3, <1>6 DEF Proper, AttemptRecord
  <2> HIDE DEF lapsed, ips
  <2>2. Kept(ipRecords, [ips EXCEPT ![i] = lapsed], IpBlock)
    BY <1>0, <1>1, <1>6, <2>1, ReplacedKept
  <2> QED BY <1>1, <2>2
<1>9. seen \in [Ips -> AttemptRecord] /\ (~Held(ips[i]) => ~Held(seen[i]))
      /\ \A k \in Ips \ {i} : seen[k] = ips[k]
  <2> HIDE DEF lapsed, ips
  <2> QED BY <1>0, <1>3, <1>6 DEF Held, Proper
<1>10. Kept(userRecords, [users EXCEPT ![u] = relieved], UserLock)
  <2>1. Held(users[u]) => relieved.until >= users[u].until
    BY <1>0, <1>3, <1>7 DEF Proper, AttemptRecord
  <2> HIDE DEF relieved, users
  <2> QED BY <1>0, <1>2, <1>7, <2>1, ReplacedKept
<1>11. CASE /\ i \notin blacklisted /\ ~Held(ips[i])
            /\ RecordFailure(seen, users, i, u)
            /\ UNCHANGED inHand
  <2> HIDE DEF ips, users, seen
  <2>1. /\ Kept(ipRecords, ipRecords', IpBlock)
        /\ Kept(userRecords, userRecords', UserLock)
        /\ \A k \in Ips \ {i} : ipRecords'[k] = seen[k]
        /\ \/ blacklisted' = blacklisted
           \/ blacklisted' = blacklisted \cup {i} /\ ~Held(ipRecords'[i])
    BY <1>0, <1>2, <1>8, <1>9, <1>11, FailureKept
  <2>2. LimiterTypeOK'
    BY <1>0, <1>4, <1>11, <2>1, KeptTypes DEF LimiterTypeOK
  <2>3. InHandFree'
    BY <1>4, <1>11 DEF InHandFree
  <2>4. ListedFree'
    <3> SUFFICES ASSUME NEW k \in blacklisted' PROVE ~(ipRecords'[k].until > clock)
      BY <1>4 DEF ListedFree, Held
    <3>1. CASE k = i
      BY <1>11, <2>1, <3>1 DEF Held
    <3>2. CASE k # i
      <4>1. k \in blacklisted /\ k \in Ips
        BY <1>0, <2>1, <3>2 DEF LimiterTypeOK
      <4>2. ~Held(ips[k])
        BY <1>0, <1>1, <4>1 DEF ListedFree, NoneNew
      <4> QED BY <1>9, <2>1, <3>2, <4>1, <4>2 DEF Held
    <3> QED BY <3>1, <3>2
  <2> QED BY <2>1, <2>2, <2>3, <2>4 DEF LimiterInv
<1>12. CASE /\ ~(i \in blacklisted \/ Held(ips[i]))
            /\ u = NoName \/ ~Held(users[u])
            /\ ipRecords' = seen
            /\ userRecords' = IF u = NoName THEN users ELSE [users EXCEPT ![u] = relieved]
            /\ inHand' = <<i, u>>
            /\ UNCHANGED blacklisted
  <2> HIDE DEF ips, users, seen, relieved
  <2>1. Kept(userRecords, userRecords', UserLock)
    BY <1>2, <1>10, <1>12
  <2>2. LimiterTypeOK'
    BY <1>0, <1>4, <1>8, <1>12, <2>1, KeptTypes DEF LimiterTypeOK
  <2>3. InHandFree'
    <3>1. ~(ipRecords'[i].until > clock)
      BY <1>9, <1>12 DEF Held
    <3>2. u # NoName => ~(userRecords'[u].until > clock)
      BY <1>0, <1>3, <1>7, <1>12 DEF Held
    <3> QED BY <1>4, <1>12, <3>1, <3>2 DEF InHandFree, Held
  <2>4. ListedFree'
    <3> SUFFICES ASSUME NEW k \in blacklisted PROVE ~(ipRecords'[k].until > clock)
      BY <1>4, <1>12 DEF ListedFree, Held
    <3>1. k # i /\ k \in Ips /\ ~Held(ips[k])
      BY <1>0, <1>1, <1>12 DEF ListedFree, NoneNew, LimiterTypeOK
    <3> QED BY <1>9, <1>12, <3>1 DEF Held
  <2> QED BY <1>8, <1>12, <2>1, <2>2, <2>3, <2>4 DEF LimiterInv
<1> QED BY <1>5, <1>11, <1>12 DEF Arrive

\* What an attempt in hand is, and that the tables as they are keep themselves.
LEMMA InHandFacts ==
    ASSUME LimiterInv, inHand # Idle
    PROVE  /\ inHand[1] \in Ips /\ inHand[2] \in Names
           /\ inHand[1] \notin blacklisted /\ ~Held(ipRecords[inHand[1]])
           /\ inHand[2] # NoName => ~Held(userRecords[inHand[2]])
           /\ Kept(ipRecords, ipRecords, IpBlock)
           /\ Kept(userRecords, userRecords, UserLock)
<1>1. inHand \in Ips \X Names
  BY DEF LimiterInv, LimiterTypeOK
<1>2. Kept(ipRecords, ipRecords, IpBlock)
  BY DEF LimiterInv, LimiterTypeOK, Kept, Proper, AttemptRecord
<1>3. Kept(userRecords, userRecords, UserLock)
  BY DEF LimiterInv, LimiterTypeOK, Kept, Proper, AttemptRecord
<1> QED BY <1>1, <1>2, <1>3 DEF LimiterInv, InHandFree

LEMMA WrongPasswordInv ==
    ASSUME LimiterInv, WrongPassword
    PROVE  /\ LimiterInv'
           /\ Kept(ipRecords, ipRecords', IpBlock)
           /\ Kept(userRecords, userRecords', UserLock)
<1> DEFINE i == inHand[1]
           u == inHand[2]
<1>1. /\ inHand # Idle /\ inHand' = Idle /\ UNCHANGED clock
      /\ RecordFailure(ipRecords, userRecords, i, u)
  BY DEF WrongPassword
<1>2. /\ i \in Ips /\ u \in Names /\ ~Held(ipRecords[i])
      /\ Kept(ipRecords, ipRecords, IpBlock) /\ Kept(userRecords, userRecords, UserLock)
  BY <1>1, InHandFacts
<1> HIDE DEF i, u
<1>3. /\ Kept(ipRecords, ipRecords', IpBlock)
      /\ Kept(userRecords, userRecords', UserLock)
      /\ \A k \in Ips \ {i} : ipRecords'[k] = ipRecords[k]
      /\ \/ blacklisted' = blacklisted
         \/ blacklisted' = blacklisted \cup {i} /\ ~Held(ipRecords'[i])
  BY <1>1, <1>2, FailureKept DEF LimiterInv
<1>4. LimiterTypeOK'
  BY <1>1, <1>2, <1>3, KeptTypes DEF LimiterInv, LimiterTypeOK
<1>5. InHandFree'
  BY <1>1 DEF InHandFree
<1>6. i \notin blacklisted
  BY <1>1, InHandFacts DEF i
<1>7. ListedFree'
  <2> SUFFICES ASSUME NEW k \in blacklisted' PROVE ~(ipRecords'[k].until > clock)
    BY <1>1 DEF ListedFree, Held
  <2>1. CASE k = i
    BY <1>3, <1>6, <2>1 DEF Held
  <2>2. CASE k # i
    <3>1. k \in blacklisted /\ k \in Ips
      BY <1>3, <2>2 DEF LimiterInv, LimiterTypeOK
    <3> QED BY <1>3, <2>2, <3>1 DEF LimiterInv, ListedFree, Held
  <2> QED BY <2>1, <2>2
<1> QED BY <1>3, <1>4, <1>5, <1>7 DEF LimiterInv

\* The records that a success drops hold no block.
LEMMA RightPasswordInv ==
    ASSUME LimiterInv, RightPassword
    PROVE  /\ LimiterInv'
           /\ Kept(ipRecords, ipRecords', IpBlock)
           /\ Kept(userRecords, userRecords', UserLock)
<1> DEFINE i == inHand[1]
           u == inHand[2]
<1>1. /\ inHand # Idle /\ u # NoName /\ inHand' = Idle /\ UNCHANGED <<clock, blacklisted>>
      /\ ipRecords' = [ipRecords EXCEPT ![i] = BlankRecord]
      /\ userRecords' = [userRecords EXCEPT ![u] = BlankRecord]
  BY AdminNamed DEF RightPassword
<1>2. /\ i \in Ips /\ u \in Names /\ ~Held(ipRecords[i]) /\ ~Held(userRecords[u])
      /\ Kept(ipRecords, ipRecords, IpBlock) /\ Kept(userRecords, userRecords, UserLock)
  BY <1>1, InHandFacts
<1> HIDE DEF i, u
<1>3. /\ clock \in Nat /\ IpBlock \in Nat /\ UserLock \in Nat
      /\ ipRecords \in [Ips -> AttemptRecord] /\ userRecords \in [Names -> AttemptRecord]
      /\ DOMAIN ipRecords = Ips /\ DOMAIN userRecords = Names
  BY LimiterAssumption DEF LimiterInv, LimiterTypeOK
<1>4. Proper(BlankRecord, IpBlock) /\ Proper(BlankRecord, UserLock) /\ ~Held(BlankRecord)
  BY <1>3 DEF BlankRecord, AttemptRecord, Proper, Held
<1>5. Kept(ipRecords, ipRecords', IpBlock)
  BY <1>1, <1>2, <1>3, <1>4, ReplacedKept
<1>6. Kept(userRecords, userRecords', UserLock)
  BY <1>1, <1>2, <1>3, <1>4, ReplacedKept
<1>7. LimiterTypeOK'
  BY <1>1, <1>5, <1>6, KeptTypes DEF LimiterInv, LimiterTypeOK
<1>8. InHandFree'
  BY <1>1 DEF InHandFree
<1>9. ListedFree'
  <2> SUFFICES ASSUME NEW k \in blacklisted PROVE ~(ipRecords'[k].until > clock)
    BY <1>1 DEF ListedFree, Held
  <2>1. k \in Ips /\ ~Held(ipRecords[k])
    BY DEF LimiterInv, LimiterTypeOK, ListedFree
  <2> QED BY <1>1, <1>3, <1>4, <2>1 DEF Held
<1> QED BY <1>5, <1>6, <1>7, <1>8, <1>9 DEF LimiterInv

\* As the clock moves a block may run out; none appears.
LEMMA ClockTickInv ==
    ASSUME LimiterInv, ClockTick
    PROVE  LimiterInv' /\ ipRecords' = ipRecords /\ userRecords' = userRecords
<1>1. /\ clock < MaxTime /\ clock' = clock + 1
      /\ UNCHANGED <<ipRecords, userRecords, blacklisted, inHand>>
  BY DEF ClockTick
<1>2. /\ clock \in 1..MaxTime /\ MaxTime \in Nat
      /\ {IpBlock, UserLock} \subseteq Nat
      /\ ipRecords \in [Ips -> AttemptRecord] /\ userRecords \in [Names -> AttemptRecord]
  BY LimiterAssumption DEF LimiterInv, LimiterTypeOK
<1>3. LimiterTypeOK'
  BY <1>1, <1>2 DEF LimiterInv, LimiterTypeOK, AttemptRecord
<1>4. \A r \in AttemptRecord : ~Held(r) => ~(r.until > clock')
  BY <1>1, <1>2 DEF Held, AttemptRecord
<1>5. InHandFree'
  <2> SUFFICES ASSUME inHand # Idle
               PROVE  /\ inHand[1] \notin blacklisted /\ ~(ipRecords[inHand[1]].until > clock')
                      /\ inHand[2] # NoName => ~(userRecords[inHand[2]].until > clock')
    BY <1>1 DEF InHandFree, Held
  <2> QED BY <1>2, <1>4, InHandFacts
<1>6. ListedFree'
  <2> SUFFICES ASSUME NEW k \in blacklisted PROVE ~(ipRecords[k].until > clock')
    BY <1>1 DEF ListedFree, Held
  <2>1. k \in Ips /\ ~Held(ipRecords[k])
    BY DEF LimiterInv, LimiterTypeOK, ListedFree
  <2> QED BY <1>2, <1>4, <2>1
<1> QED BY <1>1, <1>3, <1>5, <1>6 DEF LimiterInv

\* Every step keeps the invariant, and every block that has not run out.
LEMMA LimiterStep ==
    ASSUME LimiterInv, [LimiterNext]_limiterVars
    PROVE  /\ LimiterInv'
           /\ \A i \in Ips : Held(ipRecords[i]) => ipRecords'[i].until >= ipRecords[i].until
           /\ \A u \in Names : Held(userRecords[u]) => userRecords'[u].until >= userRecords[u].until
<1>1. ipRecords \in [Ips -> AttemptRecord] /\ userRecords \in [Names -> AttemptRecord]
  BY DEF LimiterInv, LimiterTypeOK
<1>2. ASSUME Kept(ipRecords, ipRecords', IpBlock), Kept(userRecords, userRecords', UserLock)
      PROVE  /\ \A i \in Ips : Held(ipRecords[i]) => ipRecords'[i].until >= ipRecords[i].until
             /\ \A u \in Names : Held(userRecords[u]) => userRecords'[u].until >= userRecords[u].until
  BY <1>1, <1>2 DEF Kept
<1>3. ASSUME ipRecords' = ipRecords, userRecords' = userRecords
      PROVE  /\ \A i \in Ips : Held(ipRecords[i]) => ipRecords'[i].until >= ipRecords[i].until
             /\ \A u \in Names : Held(userRecords[u]) => userRecords'[u].until >= userRecords[u].until
  BY <1>1, <1>3 DEF AttemptRecord
<1>4. ASSUME NEW i \in Ips, NEW u \in Names, Arrive(i, u)
      PROVE  LimiterInv' /\ Kept(ipRecords, ipRecords', IpBlock) /\ Kept(userRecords, userRecords', UserLock)
  BY <1>4, ArriveInv
<1>5. CASE \E i \in Ips, u \in Names : Arrive(i, u)
  BY <1>2, <1>4, <1>5
<1>6. CASE WrongPassword
  BY <1>2, <1>6, WrongPasswordInv
<1>7. CASE RightPassword
  BY <1>2, <1>7, RightPasswordInv
<1>8. CASE ClockTick
  BY <1>3, <1>8, ClockTickInv
<1>9. CASE UNCHANGED limiterVars
  <2>1. LimiterInv'
    BY <1>9 DEF limiterVars, LimiterInv, LimiterTypeOK, InHandFree, ListedFree, Held
  <2> QED BY <1>3, <1>9, <2>1 DEF limiterVars
<1> QED BY <1>5, <1>6, <1>7, <1>8, <1>9 DEF LimiterNext

-----------------------------------------------------------------------------
\* The records of LoginRateLimiter keep their types, the attempt a request has
\* in hand is of a free address and a free name until its outcome is recorded,
\* and a blacklisted address holds no block.
THEOREM LimiterInvariant == LimiterSpec => []LimiterInv
<1>1. LimiterInv /\ [LimiterNext]_limiterVars => LimiterInv'
  BY LimiterStep
<1> QED BY <1>1, LimiterInitInv, PTL DEF LimiterSpec

\* No step of any request shortens a block or a lock that has not run out: the
\* sweep, which drops whole records, a success, which drops two, and a failure
\* that lists the address instead of blocking it all meet only free records.
THEOREM BlocksAreHeld == LimiterSpec => BlocksHold
<1> DEFINE Keeping ==
        /\ \A i \in Ips : Held(ipRecords[i]) => ipRecords'[i].until >= ipRecords[i].until
        /\ \A u \in Names : Held(userRecords[u]) => userRecords'[u].until >= userRecords[u].until
<1>1. LimiterInv /\ [LimiterNext]_limiterVars => [Keeping]_limiterVars
  BY LimiterStep
<1> HIDE DEF Keeping
<1>2. LimiterSpec => [][Keeping]_limiterVars
  BY <1>1, LimiterInvariant, PTL DEF LimiterSpec
<1> QED BY <1>2 DEF BlocksHold, Keeping
-----------------------------------------------------------------------------
(***************************************************************************)
(* The wrong passwords in any stretch of a window.  A record counts those  *)
(* of one period, which ends a window after it began or with a success.    *)
(* A stretch no longer than a window meets at most two periods; and if it  *)
(* meets the second it does not hold the last of a period's max failures,  *)
(* which blocked the key for longer than a window.                         *)
(***************************************************************************)
Limits(w, m, h) == w \in Nat /\ m \in Nat /\ m > 0 /\ h \in Nat /\ w < h

\* Times of wrong passwords, as they came, until now
Times(g, now) ==
    /\ g \in Seq(Nat)
    /\ \A j \in 1..Len(g) : g[j] <= now
    /\ \A j, k \in 1..Len(g) : j <= k => g[j] <= g[k]

\* A period may begin: of any m guesses in a row, one was before the window.
Quiet(g, w, m, now) ==
    /\ \A j \in 1..Len(g) : g[j] < now
    /\ \A j \in 1..Len(g) : j + m - 1 <= Len(g) => g[j] < now - w

\* What the count and the start of a period say of the guesses
Counted(r, g, w, m, now) ==
    /\ r.attempts <= m + 1
    /\ r.first = 0 => r.attempts = 0 /\ Quiet(g, w, m, now)
    /\ r.first > 0 =>
        /\ \A j \in 1..Len(g) : g[j] >= r.first => Len(g) - j + 1 <= r.attempts
        /\ \A j, k \in 1..Len(g) : k = j + m - 1 /\ g[k] < r.first => g[j] < r.first - w
        /\ \A j \in 1..Len(g) : g[j] <= r.first + w

\* A period with its fill of failures blocks for longer than the window.
Filled(r, g, m, h) ==
    r.attempts >= m => r.until >= r.first + h /\ \A j \in 1..Len(g) : g[j] + h <= r.until

Tallied(r, g, w, m, h, now) == Counted(r, g, w, m, now) /\ Filled(r, g, m, h)

\* A period that is over leaves the guesses quiet.
LEMMA PeriodOver ==
    ASSUME clock \in Nat, NEW w, NEW m, NEW h, Limits(w, m, h), NEW r, Proper(r, h),
           NEW g, Times(g, clock), Tallied(r, g, w, m, h, clock),
           ~Held(r), r.first = 0 \/ clock - r.first > w
    PROVE  Quiet(g, w, m, clock)
<1>1. r.attempts \in Nat /\ r.first \in Nat /\ r.until \in Nat /\ r.until <= clock
  BY DEF Proper, AttemptRecord, Held
<1>2. CASE r.first = 0
  BY <1>2 DEF Tallied, Counted
<1>3. CASE r.first > 0
  <2>1. \A j \in 1..Len(g) : g[j] \in Nat /\ g[j] <= r.first + w
    BY <1>3 DEF Tallied, Counted, Times
  <2>2. \A j \in 1..Len(g) : g[j] >= r.first => Len(g) - j + 1 <= r.attempts
    BY <1>3 DEF Tallied, Counted
  <2>3. r.attempts >= m => \A j \in 1..Len(g) : g[j] + h <= r.until
    BY DEF Tallied, Filled
  <2>4. clock - r.first > w /\ w \in Nat /\ m \in Nat /\ h \in Nat /\ w < h
    BY <1>3 DEF Limits
  <2>5. Len(g) \in Nat
    BY DEF Times
  <2>6. \A j \in 1..Len(g) : g[j] < clock
    BY <1>1, <2>1, <2>4
  <2>7. ASSUME NEW j \in 1..Len(g), j + m - 1 <= Len(g) PROVE g[j] < clock - w
    <3>1. CASE g[j] < r.first
      BY <1>1, <2>1, <2>4, <3>1
    <3>2. CASE g[j] >= r.first
      <4>1. r.attempts >= m
        BY <1>1, <2>2, <2>4, <2>5, <2>7, <3>2
      <4> QED BY <1>1, <2>1, <2>3, <2>4, <4>1
    <3> QED BY <1>1, <2>1, <3>1, <3>2
  <2> QED BY <2>6, <2>7 DEF Quiet
<1> QED BY <1>1, <1>2, <1>3

\* A blank record agrees with quiet guesses.
LEMMA BlankTallied ==
    ASSUME NEW now, NEW w, NEW m, NEW h, Limits(w, m, h), NEW g, Quiet(g, w, m, now),
           NEW r \in AttemptRecord, r.first = 0, r.attempts = 0
    PROVE  Tallied(r, g, w, m, h, now)
BY DEF Tallied, Counted, Filled, Limits

LEMMA LapseTallied ==
    ASSUME clock \in Nat, NEW w, NEW m, NEW h, Limits(w, m, h), NEW r, Proper(r, h),
           NEW g, Times(g, clock), Tallied(r, g, w, m, h, clock)
    PROVE  Tallied(Lapse(r, w), g, w, m, h, clock)
<1>1. CASE Held(r)
  BY <1>1 DEF Lapse
<1>2. CASE ~Held(r) /\ (r.first = 0 \/ clock - r.first > w)
  <2> DEFINE s == Lapse(r, w)
  <2>1. Quiet(g, w, m, clock)
    BY <1>2, PeriodOver
  <2>2. s \in AttemptRecord
    BY LapseRecord DEF Proper, Limits
  <2>3. s.first = 0 /\ s.attempts = 0
    <3>1. r \in AttemptRecord /\ clock \in Nat /\ w \in Nat
      BY DEF Proper, Limits
    <3>2. CASE r.first > 0
      BY <1>2, <3>1, <3>2 DEF Lapse, ResetWindow, AttemptRecord
    <3>3. CASE r.first = 0
      <4>1. r.attempts = 0
        BY <3>3 DEF Tallied, Counted
      <4> QED BY <1>2, <3>1, <3>3, <4>1 DEF Lapse, ResetWindow, AttemptRecord
    <3> QED BY <3>1, <3>2, <3>3 DEF AttemptRecord
  <2> HIDE DEF s
  <2>4. Tallied(s, g, w, m, h, clock)
    BY <2>1, <2>2, <2>3, BlankTallied
  <2> QED BY <2>4 DEF s
<1>3. CASE ~Held(r) /\ r.first # 0 /\ ~(clock - r.first > w)
  <2> DEFINE s == [r EXCEPT !.until = 0]
  <2>1. r \in AttemptRecord
    BY DEF Proper
  <2>2. Lapse(r, w) = s
    BY <1>3, <2>1 DEF Lapse, ResetWindow, AttemptRecord
  <2>3. s.attempts = r.attempts /\ s.first = r.first
    BY <2>1 DEF AttemptRecord
  <2>4. r.attempts < m
    BY <1>3, <2>1 DEF AttemptRecord, Held, Tallied, Filled, Limits
  <2> HIDE DEF s
  <2>5. Counted(s, g, w, m, clock)
    BY <2>3 DEF Tallied, Counted
  <2>6. Filled(s, g, m, h)
    BY <2>1, <2>3, <2>4 DEF Filled, AttemptRecord, Limits
  <2> QED BY <2>2, <2>5, <2>6 DEF Tallied
<1> QED BY <1>1, <1>2, <1>3

\* What Lapse leaves of a record that is not held: no block, and a period that
\* is still open if there is one.
LEMMA LapseOpen ==
    ASSUME clock \in Nat, NEW w \in Nat, NEW h \in Nat, NEW r, Proper(r, h), ~Held(r)
    PROVE  Lapse(r, w).until = 0 /\ (Lapse(r, w).first > 0 => clock - Lapse(r, w).first <= w)
<1>1. r \in AttemptRecord
  BY DEF Proper
<1>2. CASE r.first > 0 /\ clock - r.first > w
  BY <1>1, <1>2 DEF Lapse, ResetWindow, AttemptRecord
<1>3. CASE ~(r.first > 0 /\ clock - r.first > w)
  BY <1>1, <1>3 DEF Lapse, ResetWindow, AttemptRecord
<1> QED BY <1>2, <1>3

\* The fields of a record after one more failure
LEMMA CountFields ==
    ASSUME clock \in Nat, NEW w \in Nat, NEW m \in Nat, NEW h \in Nat, NEW r, Proper(r, h)
    PROVE  /\ Lapse(r, w) \in AttemptRecord /\ Lapse(r, w).first <= clock
           /\ Count(r, w, m) \in AttemptRecord
           /\ Count(r, w, m).attempts = UpTo(Lapse(r, w).attempts + 1, m + 1)
           /\ Count(r, w, m).first = IF Lapse(r, w).first = 0 THEN clock ELSE Lapse(r, w).first
           /\ Count(r, w, m).first <= clock
<1> DEFINE s == Lapse(r, w)
           attempts == UpTo(s.attempts + 1, m + 1)
           total == UpTo(s.total + 1, BlacklistAt)
           first == IF s.first = 0 THEN clock ELSE s.first
<1>1. s \in AttemptRecord /\ s.first <= clock
  BY LapseRecord DEF Proper
<1>2. Count(r, w, m) = [s EXCEPT !.attempts = attempts, !.total = total, !.first = first]
  BY DEF Count
<1> HIDE DEF s
<1>3. attempts \in Nat /\ total \in Nat
  BY <1>1, LimiterAssumption DEF UpTo, AttemptRecord
<1>4. first \in Nat /\ first <= clock
  BY <1>1 DEF AttemptRecord
<1> HIDE DEF attempts, total, first
<1>5. /\ Count(r, w, m) \in AttemptRecord
      /\ Count(r, w, m).attempts = attempts /\ Count(r, w, m).first = first
  BY <1>1, <1>2, <1>3, <1>4 DEF AttemptRecord
<1> QED BY <1>1, <1>4, <1>5 DEF s, attempts, first

\* A failure that is no guess of this key: a request that met another block
LEMMA CountTallied ==
    ASSUME clock \in Nat, clock > 0, NEW w, NEW m, NEW h, Limits(w, m, h), NEW r, Proper(r, h),
           NEW g, Times(g, clock), Tallied(r, g, w, m, h, clock)
    PROVE  Counted(Count(r, w, m), g, w, m, clock)
<1> DEFINE s == Lapse(r, w)
           q == Count(r, w, m)
<1>1. w \in Nat /\ m \in Nat /\ h \in Nat /\ m > 0
  BY DEF Limits
<1>2. Tallied(s, g, w, m, h, clock)
  BY LapseTallied
<1>3. /\ s \in AttemptRecord /\ q \in AttemptRecord
      /\ q.attempts = UpTo(s.attempts + 1, m + 1)
      /\ q.first = IF s.first = 0 THEN clock ELSE s.first
  BY <1>1, CountFields
<1> HIDE DEF s, q
<1>4. \A j \in 1..Len(g) : g[j] \in Nat /\ g[j] <= clock
  BY DEF Times
<1>5. Len(g) \in Nat
  BY DEF Times
<1>6. /\ s.attempts \in Nat /\ s.first \in Nat /\ q.attempts \in Nat /\ q.first \in Nat
      /\ q.attempts <= m + 1 /\ s.attempts <= m + 1 /\ q.attempts >= s.attempts
  BY <1>1, <1>2, <1>3 DEF AttemptRecord, UpTo, Tallied, Counted
<1>7. CASE s.first = 0
  <2>1. q.first = clock /\ Quiet(g, w, m, clock)
    BY <1>2, <1>3, <1>7 DEF Tallied, Counted
  <2>2. \A j \in 1..Len(g) : ~(g[j] >= q.first)
    BY <1>4, <2>1 DEF Quiet
  <2>3. \A j, k \in 1..Len(g) : k = j + m - 1 => g[j] < q.first - w
    BY <1>1, <1>5, <2>1 DEF Quiet
  <2>4. \A j \in 1..Len(g) : g[j] <= q.first + w
    BY <1>1, <1>4, <2>1
  <2>5. /\ \A j \in 1..Len(g) : g[j] >= q.first => Len(g) - j + 1 <= q.attempts
        /\ \A j, k \in 1..Len(g) : k = j + m - 1 /\ g[k] < q.first => g[j] < q.first - w
    BY <2>2, <2>3
  <2>6. q.first > 0
    BY <2>1
  <2>7. Counted(q, g, w, m, clock)
    BY <1>6, <2>4, <2>5, <2>6 DEF Counted
  <2> QED BY <2>7 DEF q
<1>8. CASE s.first > 0
  <2>1. q.first = s.first
    BY <1>3, <1>8
  <2>2. \A j \in 1..Len(g) : g[j] >= q.first => Len(g) - j + 1 <= q.attempts
    BY <1>2, <1>5, <1>6, <1>8, <2>1 DEF Tallied, Counted
  <2>3. /\ \A j, k \in 1..Len(g) : k = j + m - 1 /\ g[k] < q.first => g[j] < q.first - w
        /\ \A j \in 1..Len(g) : g[j] <= q.first + w
    BY <1>2, <1>8, <2>1 DEF Tallied, Counted
  <2>4. q.first > 0
    BY <1>8, <2>1
  <2>5. Counted(q, g, w, m, clock)
    BY <1>6, <2>2, <2>3, <2>4 DEF Counted
  <2> QED BY <2>5 DEF q
<1> QED BY <1>6, <1>7, <1>8

\* A guess, made when the key was free
LEMMA GuessTallied ==
    ASSUME clock \in Nat, clock > 0, NEW w, NEW m, NEW h, Limits(w, m, h), NEW r, Proper(r, h), ~Held(r),
           NEW g, Times(g, clock), Tallied(r, g, w, m, h, clock), Sparse(g, 2 * m, w)
    PROVE  /\ Times(Append(g, clock), clock)
           /\ Counted(Count(r, w, m), Append(g, clock), w, m, clock)
           /\ Sparse(Append(g, clock), 2 * m, w)
<1> DEFINE s == Lapse(r, w)
           q == Count(r, w, m)
           d == Append(g, clock)
           n == Len(g)
<1>1. w \in Nat /\ m \in Nat /\ h \in Nat /\ m > 0 /\ w < h
  BY DEF Limits
<1>2. Tallied(s, g, w, m, h, clock)
  BY LapseTallied
<1>3. /\ s \in AttemptRecord /\ q \in AttemptRecord
      /\ q.attempts = UpTo(s.attempts + 1, m + 1)
      /\ q.first = IF s.first = 0 THEN clock ELSE s.first
      /\ q.first <= clock
  BY <1>1, CountFields
<1>4. s.until = 0 /\ (s.first > 0 => clock - s.first <= w)
  BY <1>1, LapseOpen
<1>5. /\ n \in Nat /\ Len(d) = n + 1 /\ d \in Seq(Nat)
      /\ \A j \in 1..n : d[j] = g[j] /\ g[j] \in Nat /\ g[j] <= clock
      /\ d[n + 1] = clock
  BY DEF Times
<1>6. \A j, k \in 1..n : j <= k => g[j] <= g[k]
  BY DEF Times
<1>7. \A j, k \in 1..n : k = j + 2 * m - 1 => g[k] - g[j] > w
  BY DEF Sparse
<1> HIDE DEF s, q, d, n
<1>8. Times(d, clock)
  <2>1. \A j \in 1..(n + 1) : d[j] <= clock
    BY <1>5
  <2>2. ASSUME NEW j \in 1..(n + 1), NEW k \in 1..(n + 1), j <= k PROVE d[j] <= d[k]
    <3>1. CASE k = n + 1
      BY <1>5, <2>1, <3>1
    <3>2. CASE k # n + 1
      <4>1. j \in 1..n /\ k \in 1..n
        BY <1>5, <2>2, <3>2
      <4> QED BY <1>5, <1>6, <2>2, <4>1
    <3> QED BY <3>1, <3>2
  <2> QED BY <1>5, <2>1, <2>2 DEF Times
<1>9. /\ s.attempts \in Nat /\ s.first \in Nat /\ q.attempts \in Nat /\ q.first \in Nat
      /\ q.attempts <= m + 1 /\ s.attempts < m /\ q.attempts = s.attempts + 1
  <2>1. s.attempts \in Nat /\ s.first \in Nat /\ q.attempts \in Nat /\ q.first \in Nat
    BY <1>3 DEF AttemptRecord
  <2>2. s.attempts < m
    BY <1>1, <1>2, <1>4, <2>1 DEF Tallied, Filled
  <2> QED BY <1>1, <1>3, <2>1, <2>2 DEF UpTo
<1>10. CASE s.first = 0
  <2>1. q.first = clock /\ Quiet(g, w, m, clock) /\ s.attempts = 0
    BY <1>2, <1>3, <1>10 DEF Tallied, Counted
  <2>2. /\ \A j \in 1..n : g[j] < clock
        /\ \A j \in 1..n : j + m - 1 <= n => g[j] < clock - w
    BY <2>1 DEF Quiet, n
  <2>3. \A j \in 1..(n + 1) : d[j] >= clock => j = n + 1
    BY <1>5, <2>2
  <2>4. ASSUME NEW j \in 1..(n + 1), NEW k \in 1..(n + 1), k = j + m - 1, d[k] < clock PROVE d[j] < clock - w
    <3>5. d[n + 1] = clock /\ n \in Nat
      BY <1>5
    <3>6. k # n + 1
      BY <2>4, <3>5
    <3>7. m \in Nat /\ m > 0
      BY <1>1
    <3>1. k \in 1..n /\ j \in 1..n
      BY <2>4, <3>5, <3>6, <3>7
    <3>2. j + m - 1 <= n
      BY <2>4, <3>1
    <3>3. g[j] < clock - w
      BY <2>2, <3>1, <3>2
    <3>4. d[j] = g[j]
      BY <1>5, <3>1
    <3> QED BY <3>3, <3>4
  <2>5. \A j \in 1..(n + 1) : d[j] <= clock + w
    BY <1>1, <1>5
  <2>6. Counted(q, d, w, m, clock)
    <3>1. \A j \in 1..Len(d) : d[j] >= q.first => Len(d) - j + 1 <= q.attempts
      BY <1>5, <1>9, <2>1, <2>3
    <3>2. \A j, k \in 1..Len(d) : k = j + m - 1 /\ d[k] < q.first => d[j] < q.first - w
      BY <1>5, <2>1, <2>4
    <3>3. \A j \in 1..Len(d) : d[j] <= q.first + w
      BY <1>5, <2>1, <2>5
    <3>4. q.attempts <= m + 1 /\ q.first # 0
      BY <1>9, <2>1
    <3> QED BY <3>1, <3>2, <3>3, <3>4 DEF Counted
  <2>7. ASSUME NEW j \in 1..(n + 1), NEW k \in 1..(n + 1), k = j + 2 * m - 1 PROVE d[k] - d[j] > w
    <3>1. CASE k = n + 1
      <4>1. j \in 1..n /\ j + m - 1 <= n
        BY <1>1, <1>5, <2>7, <3>1
      <4> QED BY <1>1, <1>5, <2>2, <3>1, <4>1
    <3>2. CASE k # n + 1
      BY <1>1, <1>5, <1>7, <2>7, <3>2
    <3> QED BY <3>1, <3>2
  <2> QED BY <1>5, <1>8, <2>6, <2>7 DEF Sparse, d, q
<1>11. CASE s.first > 0
  <2>1. q.first = s.first /\ clock - s.first <= w /\ s.first <= clock
    BY <1>3, <1>4, <1>11
  <2>2. /\ \A j \in 1..n : g[j] >= s.first => n - j + 1 <= s.attempts
        /\ \A j, k \in 1..n : k = j + m - 1 /\ g[k] < s.first => g[j] < s.first - w
        /\ \A j \in 1..n : g[j] <= s.first + w
    BY <1>2, <1>11 DEF Tallied, Counted, n
  <2>3. ASSUME NEW j \in 1..(n + 1), d[j] >= s.first PROVE n + 1 - j + 1 <= q.attempts
    <3>1. CASE j = n + 1
      BY <1>5, <1>9, <3>1
    <3>2. CASE j # n + 1
      <4>1. j \in 1..n /\ g[j] >= s.first
        BY <1>5, <2>3, <3>2
      <4> QED BY <1>5, <1>9, <2>2, <4>1
    <3> QED BY <3>1, <3>2
  <2>4. ASSUME NEW j \in 1..(n + 1), NEW k \in 1..(n + 1), k = j + m - 1, d[k] < s.first PROVE d[j] < s.first - w
    <3>1. k # n + 1
      BY <1>5, <1>9, <2>1, <2>4
    <3>2. k \in 1..n /\ j \in 1..n
      BY <1>1, <1>5, <2>4, <3>1
    <3>3. g[k] < s.first
      BY <1>5, <2>4, <3>2
    <3>4. g[j] < s.first - w
      BY <2>2, <2>4, <3>2, <3>3
    <3> QED BY <1>5, <3>2, <3>4
  <2>5. \A j \in 1..(n + 1) : d[j] <= s.first + w
    BY <1>1, <1>5, <1>9, <2>1, <2>2
  <2>6. Counted(q, d, w, m, clock)
    <3>1. /\ \A j \in 1..Len(d) : d[j] >= q.first => Len(d) - j + 1 <= q.attempts
          /\ \A j, k \in 1..Len(d) : k = j + m - 1 /\ d[k] < q.first => d[j] < q.first - w
          /\ \A j \in 1..Len(d) : d[j] <= q.first + w
      BY <1>5, <2>1, <2>3, <2>4, <2>5
    <3>2. q.first > 0
      BY <1>11, <2>1
    <3> QED BY <1>9, <3>1, <3>2 DEF Counted
  <2>7. ASSUME NEW j \in 1..(n + 1), NEW k \in 1..(n + 1), k = j + 2 * m - 1 PROVE d[k] - d[j] > w
    <3>1. CASE k = n + 1
      <4> DEFINE last == j + m - 1
      <4>1. j \in 1..n /\ last \in 1..n /\ n - last + 1 = m
        BY <1>1, <1>5, <2>7, <3>1
      <4>2. g[last] < s.first
        <5>1. g[last] >= s.first => m <= s.attempts
          BY <2>2, <4>1
        <5>2. g[last] \in Nat
          BY <1>5, <4>1
        <5> HIDE DEF last
        <5> QED BY <1>1, <1>9, <5>1, <5>2
      <4>3. g[j] < s.first - w
        BY <2>2, <4>1, <4>2
      <4> HIDE DEF last
      <4> QED BY <1>1, <1>5, <1>9, <2>1, <3>1, <4>1, <4>3
    <3>2. CASE k # n + 1
      BY <1>1, <1>5, <1>7, <2>7, <3>2
    <3> QED BY <3>1, <3>2
  <2> QED BY <1>5, <1>8, <2>6, <2>7 DEF Sparse, d, q
<1> QED BY <1>9, <1>10, <1>11

\* A record whose count reached the limit is blocked from now on.
LEMMA PunishTallied ==
    ASSUME clock \in Nat, NEW w, NEW m, NEW h, Limits(w, m, h), NEW q \in AttemptRecord, q.first <= clock,
           NEW g, Times(g, clock), Counted(q, g, w, m, clock)
    PROVE  Tallied(Punish(q, m, h), g, w, m, h, clock)
<1>1. CASE q.attempts >= m
  <2> DEFINE p == [q EXCEPT !.until = clock + h]
  <2>1. p.attempts = q.attempts /\ p.first = q.first /\ p.until = clock + h
    BY DEF AttemptRecord
  <2>2. Punish(q, m, h) = p
    BY <1>1 DEF Punish
  <2> HIDE DEF p
  <2>3. Counted(p, g, w, m, clock)
    BY <2>1 DEF Counted
  <2>4. Filled(p, g, m, h)
    BY <2>1 DEF Filled, Limits, Times, AttemptRecord
  <2> QED BY <2>2, <2>3, <2>4 DEF Tallied
<1>2. CASE ~(q.attempts >= m)
  BY <1>2 DEF Punish, Tallied, Filled
<1> QED BY <1>1, <1>2

\* Forgetting the oldest times changes nothing that is said of the others.
LEMMA RecentTimes ==
    ASSUME NEW now \in Nat, NEW w \in Nat, NEW g, Times(g, now), NEW n \in Nat, Sparse(g, n, w)
    PROVE  /\ Times(Recent(g, w, now + 1), now + 1)
           /\ Sparse(Recent(g, w, now + 1), n, w)
           /\ \E k \in 0..Len(g) :
                /\ Len(Recent(g, w, now + 1)) = Len(g) - k
                /\ \A j \in 1..(Len(g) - k) : Recent(g, w, now + 1)[j] = g[j + k]
<1> DEFINE old == Gone(g, w, now + 1)
           k == Cardinality(old)
           d == Recent(g, w, now + 1)
           l == Len(g)
<1>1. l \in Nat /\ g \in Seq(Nat)
  BY DEF Times
<1>2. d = SubSeq(g, k + 1, l)
  BY DEF Recent
<1>3. k \in 0..l
  <2>1. old \subseteq 1..l
    BY DEF Gone
  <2> HIDE DEF old, l
  <2>2. IsFiniteSet(1..l) /\ Cardinality(1..l) = l
    <3>1. 1 \in Int /\ l \in Int /\ l >= 1 - 1
      BY <1>1
    <3> QED BY <1>1, <3>1, FS_Interval
  <2>3. Cardinality(old) \in Nat /\ Cardinality(old) <= Cardinality(1..l)
    BY <2>1, <2>2, FS_Subset, FS_CardinalityType
  <2> QED BY <1>1, <2>2, <2>3
<1> HIDE DEF old, k, d, l
<1>4. /\ d \in Seq(Nat) /\ Len(d) = l - k
      /\ \A j \in 1..(l - k) : d[j] = g[j + k] /\ j + k \in 1..l
  <2> DEFINE from == k + 1
  <2>1. from \in Int /\ l \in Int /\ from <= l + 1 /\ from - 1 = k /\ l - from + 1 = l - k
    BY <1>1, <1>3
  <2>2. d = SubSeq(g, from, l)
    BY <1>2
  <2>3. \A j \in from..l : g[j] \in Nat
    BY <1>1, <1>3 DEF l
  <2> HIDE DEF from
  <2>4. /\ d \in Seq(Nat) /\ Len(d) = (IF from <= l THEN l - from + 1 ELSE 0)
        /\ \A j \in 1..(l - from + 1) : d[j] = g[from + j - 1]
    BY <2>1, <2>2, <2>3, SubSeqProperties
  <2>5. Len(d) = l - k
    BY <1>1, <1>3, <2>1, <2>4
  <2>6. \A j \in 1..(l - k) : from + j - 1 = j + k /\ j + k \in 1..l /\ j \in 1..(l - from + 1)
    BY <1>1, <1>3, <2>1
  <2>7. \A j \in 1..(l - k) : d[j] = g[j + k]
    BY <2>4, <2>6
  <2> QED BY <2>4, <2>5, <2>6, <2>7
<1>5. /\ \A j \in 1..l : g[j] \in Nat /\ g[j] <= now
      /\ \A i, j \in 1..l : i <= j => g[i] <= g[j]
      /\ \A i, j \in 1..l : j = i + n - 1 => g[j] - g[i] > w
  BY <1>1 DEF Times, Sparse, l
<1>6. Times(d, now + 1)
  <2>1. \A j \in 1..(l - k) : d[j] <= now + 1
    BY <1>4, <1>5
  <2>2. \A i, j \in 1..(l - k) : i <= j => d[i] <= d[j]
    BY <1>1, <1>3, <1>4, <1>5
  <2> QED BY <1>4, <2>1, <2>2 DEF Times
<1>7. Sparse(d, n, w)
  <2>1. \A i, j \in 1..(l - k) : j = i + n - 1 => d[j] - d[i] > w
    BY <1>1, <1>3, <1>4, <1>5
  <2> QED BY <1>4, <2>1 DEF Sparse
<1> QED BY <1>3, <1>4, <1>6, <1>7 DEF d, l

LEMMA RecentTallied ==
    ASSUME NEW now \in Nat, NEW w, NEW m, NEW h, Limits(w, m, h), NEW r \in AttemptRecord,
           NEW g, Times(g, now), Sparse(g, 2 * m, w), Tallied(r, g, w, m, h, now)
    PROVE  Tallied(r, Recent(g, w, now + 1), w, m, h, now + 1)
<1> DEFINE d == Recent(g, w, now + 1)
           l == Len(g)
<1>1. w \in Nat /\ m \in Nat /\ h \in Nat /\ m > 0 /\ w < h /\ 2 * m \in Nat
  BY DEF Limits
<1>2. PICK k \in 0..l : /\ Len(d) = l - k
                        /\ \A j \in 1..(l - k) : d[j] = g[j + k]
  BY <1>1, RecentTimes
<1> HIDE DEF d, l
<1>3. l \in Nat /\ \A j \in 1..l : g[j] \in Nat
  BY DEF Times, l
<1>4. /\ k \in Nat /\ r.attempts \in Nat /\ r.first \in Nat /\ r.until \in Nat
      /\ \A j \in 1..(l - k) : j + k \in 1..l
  BY <1>2, <1>3 DEF AttemptRecord
<1>5. Filled(r, d, m, h)
  <2>1. r.attempts >= m => r.until >= r.first + h /\ \A j \in 1..l : g[j] + h <= r.until
    BY DEF Tallied, Filled, l
  <2>2. r.attempts >= m => \A j \in 1..(l - k) : d[j] + h <= r.until
    BY <1>2, <1>4, <2>1
  <2> QED BY <1>2, <2>1, <2>2 DEF Filled
<1>6. r.first = 0 => r.attempts = 0 /\ Quiet(d, w, m, now + 1)
  <2> SUFFICES ASSUME r.first = 0 PROVE r.attempts = 0 /\ Quiet(d, w, m, now + 1)
    OBVIOUS
  <2>1. /\ r.attempts = 0
        /\ \A j \in 1..l : g[j] < now
        /\ \A j \in 1..l : j + m - 1 <= l => g[j] < now - w
    BY DEF Tallied, Counted, Quiet, l
  <2>2. \A j \in 1..(l - k) : d[j] < now + 1
    BY <1>2, <1>3, <1>4, <2>1
  <2>3. \A j \in 1..(l - k) : j + m - 1 <= l - k => d[j] < (now + 1) - w
    BY <1>1, <1>2, <1>3, <1>4, <2>1
  <2>4. /\ \A j \in 1..Len(d) : d[j] < now + 1
        /\ \A j \in 1..Len(d) : j + m - 1 <= Len(d) => d[j] < (now + 1) - w
    BY <1>2, <2>2, <2>3
  <2>5. Quiet(d, w, m, now + 1)
    BY <2>4 DEF Quiet
  <2> QED BY <2>1, <2>5
<1>7. r.first > 0 =>
        /\ \A j \in 1..(l - k) : d[j] >= r.first => l - k - j + 1 <= r.attempts
        /\ \A i, j \in 1..(l - k) : j = i + m - 1 /\ d[j] < r.first => d[i] < r.first - w
        /\ \A j \in 1..(l - k) : d[j] <= r.first + w
  <2> SUFFICES ASSUME r.first > 0
               PROVE  /\ \A j \in 1..(l - k) : d[j] >= r.first => l - k - j + 1 <= r.attempts
                      /\ \A i, j \in 1..(l - k) : j = i + m - 1 /\ d[j] < r.first => d[i] < r.first - w
                      /\ \A j \in 1..(l - k) : d[j] <= r.first + w
    OBVIOUS
  <2>1. /\ \A j \in 1..l : g[j] >= r.first => l - j + 1 <= r.attempts
        /\ \A i, j \in 1..l : j = i + m - 1 /\ g[j] < r.first => g[i] < r.first - w
        /\ \A j \in 1..l : g[j] <= r.first + w
    BY DEF Tallied, Counted, l
  <2>2. ASSUME NEW j \in 1..(l - k), d[j] >= r.first PROVE l - k - j + 1 <= r.attempts
    <3>1. g[j + k] >= r.first /\ j + k \in 1..l
      BY <1>2, <1>4, <2>2
    <3>2. l - (j + k) + 1 <= r.attempts
      BY <2>1, <3>1
    <3> QED BY <1>3, <1>4, <3>2
  <2>3. ASSUME NEW i \in 1..(l - k), NEW j \in 1..(l - k), j = i + m - 1, d[j] < r.first PROVE d[i] < r.first - w
    <3>1. g[j + k] < r.first /\ j + k \in 1..l /\ i + k \in 1..l /\ j + k = (i + k) + m - 1
      BY <1>1, <1>2, <1>4, <2>3
    <3>2. g[i + k] < r.first - w
      BY <2>1, <3>1
    <3> QED BY <1>2, <3>2
  <2>4. \A j \in 1..(l - k) : d[j] <= r.first + w
    BY <1>2, <1>4, <2>1
  <2> QED BY <2>2, <2>3, <2>4
<1>8. r.attempts <= m + 1
  BY DEF Tallied, Counted
<1>9. Counted(r, d, w, m, now + 1)
  BY <1>2, <1>6, <1>7, <1>8 DEF Counted
<1> QED BY <1>5, <1>9 DEF Tallied, d

LEMMA SweptTallied ==
    ASSUME clock \in Nat, NEW w, NEW m, NEW h, Limits(w, m, h), NEW records, NEW spare,
           NEW k \in DOMAIN records \ spare, Proper(records[k], h),
           NEW g, Times(g, clock), Tallied(records[k], g, w, m, h, clock)
    PROVE  Tallied(Swept(records, w, spare)[k], g, w, m, h, clock)
<1> DEFINE r == records[k]
<1>1. CASE Swept(records, w, spare)[k] = r
  BY <1>1
<1>2. CASE /\ Swept(records, w, spare)[k] = BlankRecord
           /\ ~Held(r) /\ (r.first = 0 \/ clock - r.first > w)
  <2>1. Quiet(g, w, m, clock)
    BY <1>2, PeriodOver
  <2>2. BlankRecord \in AttemptRecord /\ BlankRecord.first = 0 /\ BlankRecord.attempts = 0
    BY DEF BlankRecord, AttemptRecord
  <2>3. Tallied(BlankRecord, g, w, m, h, clock)
    BY <2>1, <2>2, BlankTallied
  <2> QED BY <1>2, <2>3
<1> QED BY <1>1, <1>2 DEF Swept

-----------------------------------------------------------------------------
\* The wrong passwords of each key: their times, spread as the property asks,
\* and what the record of the key says of them.  A blacklisted address has a
\* record that may say less; it makes no more guesses.
IpTally(record, i) == Tallied(record, ipGuesses[i], IpWindow, IpMax, IpBlock, clock)
UserTally(record, u) == Tallied(record, userGuesses[u], UserWindow, UserMax, UserLock, clock)

GuessesOK ==
    /\ ipGuesses \in [Ips -> Seq(Nat)] /\ userGuesses \in [Names \ {NoName} -> Seq(Nat)]
    /\ \A i \in Ips : Times(ipGuesses[i], clock)
    /\ \A u \in Names \ {NoName} : Times(userGuesses[u], clock)

RecordsTally ==
    /\ \A i \in Ips \ blacklisted : IpTally(ipRecords[i], i)
    /\ \A u \in Names \ {NoName} : UserTally(userRecords[u], u)

TallyInv == GuessesOK /\ RecordsTally /\ SlidingBounds

LEMMA LimitsHold ==
    /\ Limits(IpWindow, IpMax, IpBlock) /\ Limits(UserWindow, UserMax, UserLock)
    /\ {IpMax, IpWindow, IpBlock, UserMax, UserWindow, UserLock} \subseteq Nat
BY LimiterAssumption DEF Limits

LEMMA LimiterFacts ==
    ASSUME LimiterInv
    PROVE  /\ clock \in Nat /\ clock > 0
           /\ \A i \in Ips : Proper(ipRecords[i], IpBlock)
           /\ \A u \in Names : Proper(userRecords[u], UserLock)
           /\ ipRecords \in [Ips -> AttemptRecord] /\ userRecords \in [Names -> AttemptRecord]
           /\ DOMAIN ipRecords = Ips /\ DOMAIN userRecords = Names
BY DEF LimiterInv, LimiterTypeOK, Proper

LEMMA TallyInitially == LimiterInit => TallyInv
<1> SUFFICES ASSUME LimiterInit PROVE TallyInv
  OBVIOUS
<1>1. Times(<<>>, 1) /\ \A w, m : Quiet(<<>>, w, m, 1)
  BY DEF Times, Quiet
<1>2. BlankRecord \in AttemptRecord /\ BlankRecord.first = 0 /\ BlankRecord.attempts = 0
  BY DEF BlankRecord, AttemptRecord
<1>3. clock = 1
  BY DEF LimiterInit
<1>4. \A i \in Ips : ipGuesses[i] = <<>> /\ ipRecords[i] = BlankRecord
  BY DEF LimiterInit
<1>5. \A u \in Names \ {NoName} : userGuesses[u] = <<>> /\ userRecords[u] = BlankRecord
  BY DEF LimiterInit
<1>6. GuessesOK
  BY <1>1, <1>3, <1>4, <1>5 DEF LimiterInit, GuessesOK
<1>7. /\ Tallied(BlankRecord, <<>>, IpWindow, IpMax, IpBlock, 1)
      /\ Tallied(BlankRecord, <<>>, UserWindow, UserMax, UserLock, 1)
  BY <1>1, <1>2, LimitsHold, BlankTallied
<1>8. RecordsTally
  BY <1>3, <1>4, <1>5, <1>7 DEF RecordsTally, IpTally, UserTally
<1>9. \A n, w : Sparse(<<>>, n, w)
  BY DEF Sparse
<1>10. SlidingBounds
  BY <1>4, <1>5, <1>9 DEF SlidingBounds
<1> QED BY <1>6, <1>8, <1>10 DEF TallyInv

\* The records that record_failure leaves agree with the guesses as they are
\* after the request: i and u are the keys it counts, tables those it starts from.
LEMMA FailureTally ==
    ASSUME clock \in Nat, NEW ips \in [Ips -> AttemptRecord], NEW users \in [Names -> AttemptRecord],
           NEW i \in Ips, NEW u \in Names, RecordFailure(ips, users, i, u),
           Proper(ips[i], IpBlock), Proper(users[u], UserLock),
           NEW g, NEW d, Times(g, clock), Counted(Count(ips[i], IpWindow, IpMax), g, IpWindow, IpMax, clock),
           u # NoName => /\ Times(d, clock)
                         /\ Counted(Count(users[u], UserWindow, UserMax), d, UserWindow, UserMax, clock)
    PROVE  /\ i \notin blacklisted' => Tallied(ipRecords'[i], g, IpWindow, IpMax, IpBlock, clock)
           /\ u # NoName => Tallied(userRecords'[u], d, UserWindow, UserMax, UserLock, clock)
           /\ \A k \in Ips \ {i} : ipRecords'[k] = ips[k]
           /\ \A k \in Names \ {u} : userRecords'[k] = users[k]
           /\ blacklisted \subseteq blacklisted'
<1> DEFINE counted == Count(ips[i], IpWindow, IpMax)
           listed  == counted.total >= BlacklistAt
           failed  == Count(users[u], UserWindow, UserMax)
           untold  == [failed EXCEPT !.total = 0]
           locked  == Punish(untold, UserMax, UserLock)
           blocked == Punish(counted, IpMax, IpBlock)
<1>1. /\ ipRecords' = [ips EXCEPT ![i] = IF listed THEN counted ELSE blocked]
      /\ userRecords' = [users EXCEPT ![u] = locked]
      /\ blacklisted' = IF listed THEN blacklisted \cup {i} ELSE blacklisted
  BY DEF RecordFailure
<1>2. /\ counted \in AttemptRecord /\ counted.first <= clock
      /\ failed \in AttemptRecord /\ failed.first <= clock
  BY LimitsHold, CountFields
<1>3. Counted(counted, g, IpWindow, IpMax, clock)
      /\ (u # NoName => Counted(failed, d, UserWindow, UserMax, clock))
  OBVIOUS
<1> HIDE DEF counted, listed, failed
<1>4. /\ untold \in AttemptRecord /\ untold.first = failed.first /\ untold.attempts = failed.attempts
  BY <1>2 DEF AttemptRecord
<1> HIDE DEF untold
<1>5. u # NoName => Tallied(locked, d, UserWindow, UserMax, UserLock, clock)
  <2>1. u # NoName => Counted(untold, d, UserWindow, UserMax, clock)
    BY <1>3, <1>4 DEF Counted
  <2> QED BY <1>2, <1>4, <2>1, LimitsHold, PunishTallied
<1>6. Tallied(blocked, g, IpWindow, IpMax, IpBlock, clock)
  BY <1>2, <1>3, LimitsHold, PunishTallied
<1> HIDE DEF locked, blocked
<1>7. i \notin blacklisted' => ipRecords'[i] = blocked
  BY <1>1
<1>8. userRecords'[u] = locked
  BY <1>1
<1> QED BY <1>1, <1>5, <1>6, <1>7, <1>8

\* Arrivals leave the guesses alone; the records they sweep, look at, or count
\* a failure in still agree with them.
LEMMA ArriveTally ==
    ASSUME LimiterInv, TallyInv, NEW i \in Ips, NEW u \in Names, Arrive(i, u)
    PROVE  TallyInv'
<1> DEFINE ips   == Swept(ipRecords, IpWindow, blacklisted)
           users == Swept(userRecords, UserWindow, {})
           lapsed == Lapse(ips[i], IpWindow)
           seen  == IF i \in blacklisted THEN ips ELSE [ips EXCEPT ![i] = lapsed]
           relieved == Lapse(users[u], UserWindow)
<1>1. /\ clock \in Nat /\ clock > 0
      /\ ipRecords \in [Ips -> AttemptRecord] /\ userRecords \in [Names -> AttemptRecord]
      /\ DOMAIN ipRecords = Ips /\ DOMAIN userRecords = Names
      /\ \A k \in Ips : Proper(ipRecords[k], IpBlock)
      /\ \A k \in Names : Proper(userRecords[k], UserLock)
  BY LimiterFacts
<1>2. UNCHANGED <<clock, ipGuesses, userGuesses>>
  BY DEF Arrive
<1>3. GuessesOK' /\ SlidingBounds'
  BY <1>2 DEF TallyInv, GuessesOK, SlidingBounds, Times, Sparse
<1>4. /\ \A k \in Ips : Times(ipGuesses[k], clock)
      /\ \A k \in Names \ {NoName} : Times(userGuesses[k], clock)
  BY DEF TallyInv, GuessesOK
<1>5. /\ ips \in [Ips -> AttemptRecord] /\ users \in [Names -> AttemptRecord]
      /\ \A k \in Ips : Proper(ips[k], IpBlock)
      /\ \A k \in Names : Proper(users[k], UserLock)
  <2>1. Kept(ipRecords, ips, IpBlock)
    BY <1>1, LimitsHold, SweptKept DEF LimiterInv, ListedFree
  <2>2. Kept(userRecords, users, UserLock)
    BY <1>1, LimitsHold, SweptKept
  <2> QED BY <1>1, <2>1, <2>2 DEF Kept
<1>6. \A k \in Ips \ blacklisted : IpTally(ips[k], k)
  BY <1>1, <1>4, LimitsHold, SweptTallied DEF TallyInv, RecordsTally, IpTally
<1>7. \A k \in Names \ {NoName} : UserTally(users[k], k)
  BY <1>1, <1>4, LimitsHold, SweptTallied DEF TallyInv, RecordsTally, UserTally
<1>8. Proper(lapsed, IpBlock) /\ Proper(relieved, UserLock)
  BY <1>1, <1>5, LimitsHold, LapseRecord
<1>9. i \notin blacklisted => IpTally(lapsed, i)
  BY <1>1, <1>4, <1>5, <1>6, LimitsHold, LapseTallied DEF IpTally
<1>10. u # NoName => UserTally(relieved, u)
  BY <1>1, <1>4, <1>5, <1>7, LimitsHold, LapseTallied DEF UserTally
<1> HIDE DEF ips, users, lapsed, relieved
<1>11. /\ seen \in [Ips -> AttemptRecord] /\ \A k \in Ips : Proper(seen[k], IpBlock)
       /\ \A k \in Ips \ blacklisted : IpTally(seen[k], k)
  BY <1>5, <1>6, <1>8, <1>9 DEF Proper
<1> HIDE DEF seen
<1>12. CASE ipRecords' = ips /\ userRecords' = users /\ blacklisted' = blacklisted
  <2>1. RecordsTally'
    BY <1>2, <1>6, <1>7, <1>12 DEF RecordsTally, IpTally, UserTally
  <2> QED BY <1>3, <2>1 DEF TallyInv
<1>13. CASE i \notin blacklisted /\ u # NoName /\ RecordFailure(seen, users, i, u)
  <2>1. Counted(Count(seen[i], IpWindow, IpMax), ipGuesses[i], IpWindow, IpMax, clock)
    BY <1>1, <1>4, <1>11, <1>13, LimitsHold, CountTallied DEF IpTally
  <2>2. Counted(Count(users[u], UserWindow, UserMax), userGuesses[u], UserWindow, UserMax, clock)
    BY <1>1, <1>4, <1>5, <1>7, <1>13, LimitsHold, CountTallied DEF UserTally
  <2>3. /\ i \notin blacklisted' => IpTally(ipRecords'[i], i)
        /\ UserTally(userRecords'[u], u)
        /\ \A k \in Ips \ {i} : ipRecords'[k] = seen[k]
        /\ \A k \in Names \ {u} : userRecords'[k] = users[k]
        /\ blacklisted \subseteq blacklisted'
    BY <1>1, <1>4, <1>5, <1>11, <1>13, <2>1, <2>2, FailureTally DEF IpTally, UserTally
  <2>4. \A k \in Ips \ blacklisted' : IpTally(ipRecords'[k], k)
    BY <1>11, <2>3
  <2>5. \A k \in Names \ {NoName} : UserTally(userRecords'[k], k)
    BY <1>7, <2>3
  <2>6. RecordsTally'
    BY <1>2, <2>4, <2>5 DEF RecordsTally, IpTally, UserTally
  <2> QED BY <1>3, <2>6 DEF TallyInv
<1>14. CASE /\ ipRecords' = seen /\ blacklisted' = blacklisted
            /\ userRecords' = IF u = NoName THEN users ELSE [users EXCEPT ![u] = relieved]
  <2>1. \A k \in Names \ {NoName} : UserTally(userRecords'[k], k)
    BY <1>5, <1>7, <1>10, <1>14
  <2>2. RecordsTally'
    BY <1>2, <1>11, <1>14, <2>1 DEF RecordsTally, IpTally, UserTally
  <2> QED BY <1>3, <2>2 DEF TallyInv
<1> QED BY <1>12, <1>13, <1>14 DEF Arrive, ips, users, seen, lapsed, relieved

LEMMA WrongPasswordTally ==
    ASSUME LimiterInv, TallyInv, WrongPassword
    PROVE  TallyInv'
<1> DEFINE i == inHand[1]
           u == inHand[2]
           g == Append(ipGuesses[i], clock)
           d == Append(userGuesses[u], clock)
<1>1. /\ clock \in Nat /\ clock > 0
      /\ ipRecords \in [Ips -> AttemptRecord] /\ userRecords \in [Names -> AttemptRecord]
      /\ \A k \in Ips : Proper(ipRecords[k], IpBlock)
      /\ \A k \in Names : Proper(userRecords[k], UserLock)
  BY LimiterFacts
<1>2. /\ inHand # Idle /\ UNCHANGED clock
      /\ RecordFailure(ipRecords, userRecords, i, u)
      /\ ipGuesses' = [ipGuesses EXCEPT ![i] = g]
      /\ userGuesses' = IF u = NoName THEN userGuesses ELSE [userGuesses EXCEPT ![u] = d]
  BY DEF WrongPassword
<1>3. /\ i \in Ips /\ u \in Names /\ i \notin blacklisted /\ ~Held(ipRecords[i])
      /\ u # NoName => ~Held(userRecords[u])
  BY <1>2, InHandFacts
<1>4. /\ ipGuesses \in [Ips -> Seq(Nat)] /\ userGuesses \in [Names \ {NoName} -> Seq(Nat)]
      /\ \A k \in Ips : Times(ipGuesses[k], clock) /\ Sparse(ipGuesses[k], 2 * IpMax, IpWindow)
      /\ \A k \in Names \ {NoName} :
            Times(userGuesses[k], clock) /\ Sparse(userGuesses[k], 2 * UserMax, UserWindow)
      /\ \A k \in Ips \ blacklisted : IpTally(ipRecords[k], k)
      /\ \A k \in Names \ {NoName} : UserTally(userRecords[k], k)
  BY DEF TallyInv, GuessesOK, RecordsTally, SlidingBounds
<1> HIDE DEF i, u
<1>5. /\ Times(g, clock) /\ Sparse(g, 2 * IpMax, IpWindow)
      /\ Counted(Count(ipRecords[i], IpWindow, IpMax), g, IpWindow, IpMax, clock)
  BY <1>1, <1>3, <1>4, LimitsHold, GuessTallied DEF IpTally
<1>6. u # NoName =>
      /\ Times(d, clock) /\ Sparse(d, 2 * UserMax, UserWindow)
      /\ Counted(Count(userRecords[u], UserWindow, UserMax), d, UserWindow, UserMax, clock)
  BY <1>1, <1>3, <1>4, LimitsHold, GuessTallied DEF UserTally
<1> HIDE DEF g, d
<1>7. /\ i \notin blacklisted' => Tallied(ipRecords'[i], g, IpWindow, IpMax, IpBlock, clock)
      /\ u # NoName => Tallied(userRecords'[u], d, UserWindow, UserMax, UserLock, clock)
      /\ \A k \in Ips \ {i} : ipRecords'[k] = ipRecords[k]
      /\ \A k \in Names \ {u} : userRecords'[k] = userRecords[k]
      /\ blacklisted \subseteq blacklisted'
  BY <1>1, <1>2, <1>3, <1>5, <1>6, FailureTally
<1>8. /\ ipGuesses'[i] = g /\ \A k \in Ips \ {i} : ipGuesses'[k] = ipGuesses[k]
      /\ u # NoName => userGuesses'[u] = d
      /\ \A k \in (Names \ {NoName}) \ {u} : userGuesses'[k] = userGuesses[k]
  BY <1>2, <1>3, <1>4
<1>9. /\ g \in Seq(Nat) /\ (u # NoName => d \in Seq(Nat))
  BY <1>5, <1>6 DEF Times
<1>10. GuessesOK'
  <2>1. ipGuesses' \in [Ips -> Seq(Nat)] /\ userGuesses' \in [Names \ {NoName} -> Seq(Nat)]
    BY <1>2, <1>3, <1>4, <1>9
  <2>2. \A k \in Ips : Times(ipGuesses'[k], clock)
    BY <1>4, <1>5, <1>8
  <2>3. \A k \in Names \ {NoName} : Times(userGuesses'[k], clock)
    BY <1>4, <1>6, <1>8
  <2> QED BY <1>2, <2>1, <2>2, <2>3 DEF GuessesOK
<1>11. SlidingBounds'
  <2>1. \A k \in Ips : Sparse(ipGuesses'[k], 2 * IpMax, IpWindow)
    BY <1>4, <1>5, <1>8
  <2>2. \A k \in Names \ {NoName} : Sparse(userGuesses'[k], 2 * UserMax, UserWindow)
    BY <1>4, <1>6, <1>8
  <2> QED BY <2>1, <2>2 DEF SlidingBounds
<1>12. RecordsTally'
  <2>1. \A k \in Ips \ blacklisted' : Tallied(ipRecords'[k], ipGuesses'[k], IpWindow, IpMax, IpBlock, clock)
    BY <1>4, <1>7, <1>8 DEF IpTally
  <2>2. \A k \in Names \ {NoName} :
            Tallied(userRecords'[k], userGuesses'[k], UserWindow, UserMax, UserLock, clock)
    BY <1>4, <1>7, <1>8 DEF UserTally
  <2> QED BY <1>2, <2>1, <2>2 DEF RecordsTally, IpTally, UserTally
<1> QED BY <1>10, <1>11, <1>12 DEF TallyInv

\* A success forgets the guesses of both keys with their records.
LEMMA RightPasswordTally ==
    ASSUME LimiterInv, TallyInv, RightPassword
    PROVE  TallyInv'
<1> DEFINE i == inHand[1]
           u == inHand[2]
<1>1. /\ clock \in Nat /\ clock > 0
      /\ ipRecords \in [Ips -> AttemptRecord] /\ userRecords \in [Names -> AttemptRecord]
  BY LimiterFacts
<1>2. /\ inHand # Idle /\ u # NoName /\ UNCHANGED <<clock, blacklisted>>
      /\ ipRecords' = [ipRecords EXCEPT ![i] = BlankRecord]
      /\ userRecords' = [userRecords EXCEPT ![u] = BlankRecord]
      /\ ipGuesses' = [ipGuesses EXCEPT ![i] = <<>>]
      /\ userGuesses' = [userGuesses EXCEPT ![u] = <<>>]
  BY AdminNamed DEF RightPassword
<1>3. i \in Ips /\ u \in Names
  BY <1>2, InHandFacts
<1>4. /\ ipGuesses \in [Ips -> Seq(Nat)] /\ userGuesses \in [Names \ {NoName} -> Seq(Nat)]
      /\ \A k \in Ips : Times(ipGuesses[k], clock) /\ Sparse(ipGuesses[k], 2 * IpMax, IpWindow)
      /\ \A k \in Names \ {NoName} :
            Times(userGuesses[k], clock) /\ Sparse(userGuesses[k], 2 * UserMax, UserWindow)
      /\ \A k \in Ips \ blacklisted : IpTally(ipRecords[k], k)
      /\ \A k \in Names \ {NoName} : UserTally(userRecords[k], k)
  BY DEF TallyInv, GuessesOK, RecordsTally, SlidingBounds
<1> HIDE DEF i, u
<1>5. /\ Times(<<>>, clock) /\ \A n, w : Sparse(<<>>, n, w)
      /\ \A w, m : Quiet(<<>>, w, m, clock)
  BY DEF Times, Sparse, Quiet
<1>6. BlankRecord \in AttemptRecord /\ BlankRecord.first = 0 /\ BlankRecord.attempts = 0
  BY DEF BlankRecord, AttemptRecord
<1>7. /\ Tallied(BlankRecord, <<>>, IpWindow, IpMax, IpBlock, clock)
      /\ Tallied(BlankRecord, <<>>, UserWindow, UserMax, UserLock, clock)
  BY <1>5, <1>6, LimitsHold, BlankTallied
<1>8. /\ ipGuesses'[i] = <<>> /\ ipRecords'[i] = BlankRecord
      /\ \A k \in Ips \ {i} : ipGuesses'[k] = ipGuesses[k] /\ ipRecords'[k] = ipRecords[k]
      /\ userGuesses'[u] = <<>> /\ userRecords'[u] = BlankRecord
      /\ \A k \in (Names \ {NoName}) \ {u} :
            userGuesses'[k] = userGuesses[k] /\ userRecords'[k] = userRecords[k]
  BY <1>1, <1>2, <1>3, <1>4
<1>9. GuessesOK'
  <2>1. ipGuesses' \in [Ips -> Seq(Nat)] /\ userGuesses' \in [Names \ {NoName} -> Seq(Nat)]
    BY <1>2, <1>3, <1>4
  <2>2. \A k \in Ips : Times(ipGuesses'[k], clock)
    BY <1>4, <1>5, <1>8
  <2>3. \A k \in Names \ {NoName} : Times(userGuesses'[k], clock)
    BY <1>4, <1>5, <1>8
  <2> QED BY <1>2, <2>1, <2>2, <2>3 DEF GuessesOK
<1>10. SlidingBounds'
  <2>1. \A k \in Ips : Sparse(ipGuesses'[k], 2 * IpMax, IpWindow)
    BY <1>4, <1>5, <1>8
  <2>2. \A k \in Names \ {NoName} : Sparse(userGuesses'[k], 2 * UserMax, UserWindow)
    BY <1>4, <1>5, <1>8
  <2> QED BY <2>1, <2>2 DEF SlidingBounds
<1>11. RecordsTally'
  <2>1. \A k \in Ips \ blacklisted : Tallied(ipRecords'[k], ipGuesses'[k], IpWindow, IpMax, IpBlock, clock)
    BY <1>4, <1>7, <1>8 DEF IpTally
  <2>2. \A k \in Names \ {NoName} :
            Tallied(userRecords'[k], userGuesses'[k], UserWindow, UserMax, UserLock, clock)
    BY <1>4, <1>7, <1>8 DEF UserTally
  <2> QED BY <1>2, <2>1, <2>2 DEF RecordsTally, IpTally, UserTally
<1> QED BY <1>9, <1>10, <1>11 DEF TallyInv

LEMMA ClockTickTally ==
    ASSUME LimiterInv, TallyInv, ClockTick
    PROVE  TallyInv'
<1>1. /\ clock \in Nat
      /\ ipRecords \in [Ips -> AttemptRecord] /\ userRecords \in [Names -> AttemptRecord]
  BY LimiterFacts
<1>2. /\ clock' = clock + 1 /\ UNCHANGED <<ipRecords, userRecords, blacklisted>>
      /\ ipGuesses' = [i \in Ips |-> Recent(ipGuesses[i], IpWindow, clock + 1)]
      /\ userGuesses' = [u \in Names \ {NoName} |-> Recent(userGuesses[u], UserWindow, clock + 1)]
  BY DEF ClockTick
<1>3. /\ \A k \in Ips : Times(ipGuesses[k], clock) /\ Sparse(ipGuesses[k], 2 * IpMax, IpWindow)
      /\ \A k \in Names \ {NoName} :
            Times(userGuesses[k], clock) /\ Sparse(userGuesses[k], 2 * UserMax, UserWindow)
      /\ \A k \in Ips \ blacklisted : IpTally(ipRecords[k], k)
      /\ \A k \in Names \ {NoName} : UserTally(userRecords[k], k)
  BY DEF TallyInv, GuessesOK, RecordsTally, SlidingBounds
<1>4. 2 * IpMax \in Nat /\ 2 * UserMax \in Nat
  BY LimitsHold
<1>5. \A k \in Ips : /\ Times(ipGuesses'[k], clock + 1)
                     /\ Sparse(ipGuesses'[k], 2 * IpMax, IpWindow)
  BY <1>1, <1>2, <1>3, <1>4, LimitsHold, RecentTimes
<1>6. \A k \in Names \ {NoName} : /\ Times(userGuesses'[k], clock + 1)
                                  /\ Sparse(userGuesses'[k], 2 * UserMax, UserWindow)
  BY <1>1, <1>2, <1>3, <1>4, LimitsHold, RecentTimes
<1>7. \A k \in Ips \ blacklisted :
          Tallied(ipRecords[k], ipGuesses'[k], IpWindow, IpMax, IpBlock, clock + 1)
  BY <1>1, <1>2, <1>3, LimitsHold, RecentTallied DEF IpTally
<1>8. \A k \in Names \ {NoName} :
          Tallied(userRecords[k], userGuesses'[k], UserWindow, UserMax, UserLock, clock + 1)
  BY <1>1, <1>2, <1>3, LimitsHold, RecentTallied DEF UserTally
<1>9. GuessesOK'
  <2>1. ipGuesses' \in [Ips -> Seq(Nat)] /\ userGuesses' \in [Names \ {NoName} -> Seq(Nat)]
    <3>1. \A k \in Ips : ipGuesses'[k] \in Seq(Nat)
      BY <1>5 DEF Times
    <3>2. \A k \in Names \ {NoName} : userGuesses'[k] \in Seq(Nat)
      BY <1>6 DEF Times
    <3> QED BY <1>2, <3>1, <3>2
  <2> QED BY <1>2, <1>5, <1>6, <2>1 DEF GuessesOK
<1>10. SlidingBounds'
  BY <1>5, <1>6 DEF SlidingBounds
<1>11. RecordsTally'
  BY <1>2, <1>7, <1>8 DEF RecordsTally, IpTally, UserTally
<1> QED BY <1>9, <1>10, <1>11 DEF TallyInv

\* In no stretch as long as its window does an address try 2 * IpMax wrong
\* passwords or a user name meet 2 * UserMax, for any limits whose block is
\* longer than the window: the fixed windows, the sweep that drops records, the
\* failures that blocked requests add and the time between the check and the
\* record of the failure (LoginRateLimiter) cost a factor of two and no more.
THEOREM GuessesAreSparse == LimiterSpec => []SlidingBounds
<1>1. LimiterInv /\ TallyInv /\ [LimiterNext]_limiterVars => TallyInv'
  <2> SUFFICES ASSUME LimiterInv, TallyInv, [LimiterNext]_limiterVars PROVE TallyInv'
    OBVIOUS
  <2>1. CASE \E i \in Ips, u \in Names : Arrive(i, u)
    BY <2>1, ArriveTally
  <2>2. CASE WrongPassword
    BY <2>2, WrongPasswordTally
  <2>3. CASE RightPassword
    BY <2>3, RightPasswordTally
  <2>4. CASE ClockTick
    BY <2>4, ClockTickTally
  <2>5. CASE UNCHANGED limiterVars
    <3>1. /\ clock' = clock /\ ipRecords' = ipRecords /\ userRecords' = userRecords
          /\ blacklisted' = blacklisted /\ ipGuesses' = ipGuesses /\ userGuesses' = userGuesses
      BY <2>5 DEF limiterVars
    <3> QED BY <3>1 DEF TallyInv, GuessesOK, RecordsTally, IpTally, UserTally, SlidingBounds
  <2> QED BY <2>1, <2>2, <2>3, <2>4, <2>5 DEF LimiterNext
<1>2. TallyInv => SlidingBounds
  BY DEF TallyInv
<1> QED BY <1>1, <1>2, TallyInitially, LimiterInvariant, PTL DEF LimiterSpec
=============================================================================
