---------------------------- MODULE Tables_proofs ---------------------------
(***************************************************************************)
(* Proofs about the components whose state is tables changed by whole      *)
(* handlers: account records, delivery cards and rules, reply rules, the   *)
(* sessions of the captcha remote control; for any accounts, cookies,      *)
(* items, priorities, patterns, searches and calls.                        *)
(***************************************************************************)
EXTENDS AccountRecords, Delivery, Replies, CaptchaRemote, FiniteSetTheorems, WellFoundedInduction, TLAPS

-----------------------------------------------------------------------------
\* AccountRecords

\* An entry whose row is gone may differ from the next row in everything.
OrphanParted ==
    \A a \in AccountIds : row[a] = NoRecord /\ entry[a] # NoRecord => parted[a] = Fields

RecordsInv == RecordsTypeOK /\ OrphanParted /\ EntryAgrees

\* What a write of one field does to a table of records.
LEMMA WrittenValue ==
    ASSUME NEW table \in [AccountIds -> Records \cup {NoRecord}], NEW a \in AccountIds,
           NEW f \in Fields, NEW v, f = "cookie" => v \in Cookies, f = "enabled" => v \in BOOLEAN
    PROVE  /\ Written(table, a, f, v) \in [AccountIds -> Records \cup {NoRecord}]
           /\ \A b \in AccountIds : b # a => Written(table, a, f, v)[b] = table[b]
           /\ Written(table, a, f, v)[a] = NoRecord <=> table[a] = NoRecord
           /\ table[a] # NoRecord =>
                 /\ Written(table, a, f, v)[a][f] = v
                 /\ \A g \in Fields \ {f} : Written(table, a, f, v)[a][g] = table[a][g]
<1>1. CASE table[a] = NoRecord
  BY <1>1 DEF Written
<1>2. CASE table[a] # NoRecord
  <2>1. table[a] \in Records
    BY <1>2
  <2>2. [table[a] EXCEPT ![f] = v] \in Records
    BY <2>1 DEF Records, Fields
  <2>3. [table[a] EXCEPT ![f] = v] # NoRecord
    BY <2>2, RecordsAssumption DEF Records
  <2>4. Written(table, a, f, v) = [table EXCEPT ![a] = [table[a] EXCEPT ![f] = v]]
    BY <1>2 DEF Written
  <2>5. /\ [table[a] EXCEPT ![f] = v][f] = v
        /\ \A g \in Fields \ {f} : [table[a] EXCEPT ![f] = v][g] = table[a][g]
    BY <2>1 DEF Records, Fields
  <2> QED BY <1>2, <2>2, <2>3, <2>4, <2>5
<1> QED BY <1>1, <1>2

LEMMA InitInv == RecordsInit => RecordsInv
BY DEF RecordsInit, RecordsInv, RecordsTypeOK, OrphanParted, EntryAgrees, Fields

\* A write of one field to both places keeps the invariant.
LEMMA WriteBothInv ==
    ASSUME RecordsInv, NEW a \in AccountIds, NEW f \in Fields, NEW v,
           f = "cookie" => v \in Cookies, f = "enabled" => v \in BOOLEAN,
           WriteBoth(a, f, v), UNCHANGED backup, refreshing' \subseteq AccountIds
    PROVE  RecordsInv'
<1> USE DEF RecordsInv
<1>1. /\ row' = Written(row, a, f, v) /\ entry' = Written(entry, a, f, v)
      /\ row \in [AccountIds -> Records \cup {NoRecord}]
      /\ entry \in [AccountIds -> Records \cup {NoRecord}]
      /\ parted \in [AccountIds -> SUBSET Fields]
  BY DEF WriteBoth, RecordsTypeOK
<1>2. /\ row' \in [AccountIds -> Records \cup {NoRecord}]
      /\ \A b \in AccountIds : b # a => row'[b] = row[b]
      /\ row'[a] = NoRecord <=> row[a] = NoRecord
      /\ row[a] # NoRecord => /\ row'[a][f] = v
                              /\ \A g \in Fields \ {f} : row'[a][g] = row[a][g]
  BY <1>1, WrittenValue
<1>3. /\ entry' \in [AccountIds -> Records \cup {NoRecord}]
      /\ \A b \in AccountIds : b # a => entry'[b] = entry[b]
      /\ entry'[a] = NoRecord <=> entry[a] = NoRecord
      /\ entry[a] # NoRecord => /\ entry'[a][f] = v
                                /\ \A g \in Fields \ {f} : entry'[a][g] = entry[a][g]
  BY <1>1, WrittenValue
<1>4. /\ parted' \in [AccountIds -> SUBSET Fields]
      /\ parted'[a] = IF row[a] = NoRecord THEN parted[a] ELSE parted[a] \ {f}
      /\ \A b \in AccountIds : b # a => parted'[b] = parted[b]
  BY <1>1 DEF WriteBoth
<1>5. RecordsTypeOK'
  BY <1>2, <1>3, <1>4 DEF RecordsTypeOK
<1>6. OrphanParted'
  BY <1>2, <1>3, <1>4 DEF OrphanParted
<1>7. EntryAgrees'
  BY <1>2, <1>3, <1>4 DEF EntryAgrees
<1> QED BY <1>5, <1>6, <1>7

LEMMA StepInv == RecordsInv /\ [RecordsNext]_recordVars => RecordsInv'
<1> SUFFICES ASSUME RecordsInv, [RecordsNext]_recordVars PROVE RecordsInv'
  OBVIOUS
<1>0. RecordsTypeOK /\ OrphanParted /\ EntryAgrees
  BY DEF RecordsInv
<1> USE DEF RecordsTypeOK, OrphanParted, EntryAgrees
<1>1. ASSUME NEW a \in AccountIds, NEW r \in Records, AddRow(a, r) PROVE RecordsInv'
  BY <1>0, <1>1, RecordsAssumption DEF AddRow, RecordsInv, Records, Fields
<1>2. ASSUME NEW a \in AccountIds, RemoveRow(a) PROVE RecordsInv'
  BY <1>0, <1>2 DEF RemoveRow, PartAll, RecordsInv
<1>3. ASSUME ClearTable PROVE RecordsInv'
  BY <1>0, <1>3 DEF ClearTable, PartAll, RecordsInv
<1>4. ASSUME ExportBackup PROVE RecordsInv'
  BY <1>0, <1>4 DEF ExportBackup, RecordsInv
<1>5. ASSUME ImportBackup PROVE RecordsInv'
  BY <1>0, <1>5 DEF ImportBackup, PartAll, RecordsInv
<1>6. ASSUME NEW a \in AccountIds, NEW c \in Cookies, UpdateAccountCookie(a, c) \/ PersistLogin(a, c)
      PROVE RecordsInv'
  <2>1. WriteBoth(a, "cookie", c) /\ UNCHANGED <<backup, refreshing>>
    BY <1>6 DEF UpdateAccountCookie, PersistLogin
  <2> QED BY <1>0, <2>1, WriteBothInv DEF Fields
<1>7. ASSUME NEW a \in AccountIds, NEW c \in Cookies, RefreshEnds(a, c) PROVE RecordsInv'
  <2>1. CASE WriteBoth(a, "cookie", c)
    BY <1>0, <1>7, <2>1, WriteBothInv DEF RefreshEnds, Fields
  <2>2. CASE UNCHANGED <<row, entry, parted>>
    BY <1>0, <1>7, <2>2 DEF RefreshEnds, RecordsInv
  <2> QED BY <1>7, <2>1, <2>2 DEF RefreshEnds
<1>8. ASSUME NEW a \in AccountIds, NEW on \in BOOLEAN, UpdateStatus(a, on) PROVE RecordsInv'
  BY <1>0, <1>8, WriteBothInv DEF UpdateStatus, Fields
<1>9. ASSUME NEW a \in AccountIds, RefreshBegins(a) PROVE RecordsInv'
  BY <1>0, <1>9 DEF RefreshBegins, RecordsInv
<1>10. ASSUME NEW a \in AccountIds, StartAccount(a) PROVE RecordsInv'
  <2>a. row[a] \in Records /\ (entry[a] = NoRecord \/ entry[a] \in Records) /\ row[a] # NoRecord
    BY <1>0, <1>10 DEF StartAccount
  <2>b. PICK e \in Records : /\ entry' = [entry EXCEPT ![a] = e] /\ e.enabled = TRUE
                             /\ e.cookie = IF entry[a] = NoRecord THEN row[a].cookie ELSE entry[a].cookie
    <3>1. CASE entry[a] = NoRecord
      <4>1. [row[a] EXCEPT !.enabled = TRUE] \in Records
        BY <2>a DEF Records
      <4> QED BY <1>10, <3>1, <4>1, <2>a DEF StartAccount, Records
    <3>2. CASE entry[a] # NoRecord
      <4>1. [entry[a] EXCEPT !.enabled = TRUE] \in Records
        BY <2>a, <3>2 DEF Records
      <4> QED BY <1>10, <3>2, <4>1, <2>a DEF StartAccount, Records
    <3> QED BY <3>1, <3>2
  <2>c. PICK r \in Records : row' = [row EXCEPT ![a] = r] /\ r.cookie = row[a].cookie
                             /\ (r.enabled = TRUE \/ "enabled" \in parted'[a])
    <3>1. CASE row' = [row EXCEPT ![a].enabled = TRUE]
      <4>1. [row[a] EXCEPT !.enabled = TRUE] \in Records
        BY <2>a DEF Records
      <4> QED BY <1>0, <3>1, <4>1, <2>a DEF Records
    <3>2. CASE row' = row /\ parted' = [parted EXCEPT ![a] = @ \cup {"enabled"}]
      BY <1>0, <3>2, <2>a
    <3> QED BY <1>10, <3>1, <3>2 DEF StartAccount
  <2>d. /\ parted' \in [AccountIds -> SUBSET Fields]
        /\ "cookie" \in parted'[a] \/ entry[a] = NoRecord \/ "cookie" \notin parted[a]
        /\ \A b \in AccountIds : b # a => parted'[b] = parted[b]
    BY <1>0, <1>10 DEF StartAccount, Fields
  <2>1. row' \in [AccountIds -> Records \cup {NoRecord}] /\ entry' \in [AccountIds -> Records \cup {NoRecord}]
    BY <1>0, <2>b, <2>c
  <2>2. \A b \in AccountIds : b # a => row'[b] = row[b] /\ entry'[b] = entry[b] /\ parted'[b] = parted[b]
    BY <1>0, <2>b, <2>c, <2>d
  <2>4. row'[a] = r /\ entry'[a] = e /\ row'[a] # NoRecord
    BY <1>0, <2>b, <2>c, RecordsAssumption DEF Records
  <2>5. \A f \in Fields \ parted'[a] : row'[a][f] = entry'[a][f]
    <3>1. "enabled" \notin parted'[a] => row'[a].enabled = entry'[a].enabled
      BY <2>b, <2>c, <2>4
    <3>2. "cookie" \notin parted'[a] => row'[a].cookie = entry'[a].cookie
      BY <1>0, <2>a, <2>b, <2>c, <2>d, <2>4 DEF Fields
    <3> QED BY <3>1, <3>2 DEF Fields
  <2>6. backup' = backup /\ refreshing' = refreshing
    BY <1>10 DEF StartAccount
  <2>7. RecordsTypeOK'
    BY <1>0, <2>1, <2>d, <2>6
  <2>8. OrphanParted'
    BY <1>0, <2>2, <2>4
  <2>9. EntryAgrees'
    BY <1>0, <2>2, <2>5
  <2> QED BY <2>7, <2>8, <2>9 DEF RecordsInv
<1>11. ASSUME NEW a \in AccountIds, StopAccount(a) PROVE RecordsInv'
  <2>1. CASE WriteBoth(a, "enabled", FALSE)
    BY <1>0, <1>11, <2>1, WriteBothInv DEF StopAccount, Fields
  <2>2. CASE /\ entry' = Written(entry, a, "enabled", FALSE)
             /\ parted' = [parted EXCEPT ![a] = @ \cup {"enabled"}]
             /\ UNCHANGED row
    <3>a. entry \in [AccountIds -> Records \cup {NoRecord}] /\ "enabled" \in Fields /\ "enabled" # "cookie"
      BY <1>0 DEF Fields
    <3>1. /\ entry' \in [AccountIds -> Records \cup {NoRecord}]
          /\ \A b \in AccountIds : b # a => entry'[b] = entry[b]
          /\ entry'[a] = NoRecord <=> entry[a] = NoRecord
          /\ entry[a] # NoRecord => \A g \in Fields \ {"enabled"} : entry'[a][g] = entry[a][g]
      <4>1. \A v \in BOOLEAN :
               /\ Written(entry, a, "enabled", v) \in [AccountIds -> Records \cup {NoRecord}]
               /\ \A b \in AccountIds : b # a => Written(entry, a, "enabled", v)[b] = entry[b]
               /\ Written(entry, a, "enabled", v)[a] = NoRecord <=> entry[a] = NoRecord
               /\ entry[a] # NoRecord =>
                     \A g \in Fields \ {"enabled"} : Written(entry, a, "enabled", v)[a][g] = entry[a][g]
        BY <3>a, WrittenValue
      <4>2. FALSE \in BOOLEAN
        OBVIOUS
      <4> QED BY <4>1, <4>2, <2>2
    <3>2. /\ parted' \in [AccountIds -> SUBSET Fields]
          /\ parted'[a] = parted[a] \cup {"enabled"}
          /\ \A b \in AccountIds : b # a => parted'[b] = parted[b]
      BY <1>0, <2>2 DEF Fields
    <3>3. row[a] # NoRecord /\ UNCHANGED <<row, backup, refreshing>>
      BY <1>11, <2>2 DEF StopAccount
    <3>4. RecordsTypeOK'
      BY <1>0, <3>1, <3>2, <3>3
    <3>5. OrphanParted'
      BY <1>0, <3>1, <3>2, <3>3
    <3>6. EntryAgrees'
      BY <1>0, <3>1, <3>2, <3>3
    <3> QED BY <3>4, <3>5, <3>6 DEF RecordsInv
  <2> QED BY <1>11, <2>1, <2>2 DEF StopAccount
<1>12. ASSUME Restart PROVE RecordsInv'
  BY <1>0, <1>12 DEF Restart, RecordsInv
<1>13. CASE UNCHANGED recordVars
  BY <1>0, <1>13 DEF recordVars, RecordsInv
<1> HIDE DEF RecordsTypeOK, OrphanParted, EntryAgrees
<1> QED
  BY <1>1, <1>2, <1>3, <1>4, <1>5, <1>6, <1>7, <1>8, <1>9, <1>10, <1>11, <1>12, <1>13 DEF RecordsNext

\* The types of rows and entries, what holds of an entry without a row, and the
\* agreement of row and entry, kept together by every route that writes one.
THEOREM RecordsInvariant == RecordsSpec => []RecordsInv
BY InitInv, StepInv, PTL DEF RecordsSpec

\* The types of the rows, entries and histories, of every number of accounts.
THEOREM RecordsTypes == RecordsSpec => []RecordsTypeOK
<1>1. RecordsInv => RecordsTypeOK
  BY DEF RecordsInv
<1> QED BY <1>1, RecordsInvariant, PTL

\* Whatever the order of edits, logins, refreshes, starts, stops, removals,
\* imports and restarts, row and entry differ only where a named cause set
\* them apart.
THEOREM EntriesAgree == RecordsSpec => []EntryAgrees
<1>1. RecordsInv => EntryAgrees
  BY DEF RecordsInv
<1> QED BY <1>1, RecordsInvariant, PTL

-----------------------------------------------------------------------------
\* Delivery

\* A finite set that is not empty has a first element in any strict order: one
\* whose set of predecessors has no smaller one among those of the others.
LEMMA FirstOf ==
    ASSUME NEW S, IsFiniteSet(S), S # {}, NEW R,
           \A x \in S : <<x, x>> \notin R,
           \A x, y, z \in S : <<x, y>> \in R /\ <<y, z>> \in R => <<x, z>> \in R,
           \A x, y \in S : x = y \/ <<x, y>> \in R \/ <<y, x>> \in R
    PROVE  \E x \in S : \A y \in S \ {x} : <<x, y>> \in R
<1> DEFINE below == [x \in S |-> {y \in S : <<y, x>> \in R}]
           T == {below[x] : x \in S}
           Inside == StrictSubsetOrdering(S)
<1>1. IsWellFoundedOn(Inside, SUBSET S)
  BY FS_StrictSubsetOrderingWellFounded, FS_FiniteSubsetsOfFinite
<1>2. \A x, y \in S : y \in below[x] <=> <<y, x>> \in R
  OBVIOUS
<1>3. \A x \in S : below[x] \subseteq S
  OBVIOUS
<1>4. \A A, B \in SUBSET S : A \subseteq B /\ A # B => <<A, B>> \in Inside
  BY DEF StrictSubsetOrdering
<1> HIDE DEF below, Inside
<1>5. T \subseteq SUBSET S /\ T # {}
  BY <1>3
<1>6. \E A \in T : \A B \in T : ~ (<<B, A>> \in Inside)
  <2> HIDE DEF T
  <2> QED BY <1>1, <1>5, WFMin
<1>7. PICK x \in S : \A y \in S : ~ (<<below[y], below[x]>> \in Inside)
  BY <1>6
<1>8. ASSUME NEW y \in S \ {x}, <<y, x>> \in R PROVE FALSE
  <2>1. below[y] \subseteq below[x] /\ y \in below[x] /\ y \notin below[y]
    BY <1>2, <1>3, <1>8
  <2>2. below[y] # below[x]
    BY <2>1
  <2> QED BY <1>3, <1>4, <1>7, <2>1, <2>2
<1> QED BY <1>8

LEMMA LargestOf ==
    ASSUME NEW S, S \subseteq Int, IsFiniteSet(S), S # {}
    PROVE  Max(S) \in S /\ \A y \in S : Max(S) >= y
<1> DEFINE R == {p \in S \X S : p[1] > p[2]}
<1>1. \A x, y \in S : <<x, y>> \in R <=> x > y
  OBVIOUS
<1>2. \A x \in S : x \in Int
  OBVIOUS
<1> HIDE DEF R
<1>3. \A x \in S : <<x, x>> \notin R
  BY <1>1, <1>2
<1>4. \A x, y, z \in S : <<x, y>> \in R /\ <<y, z>> \in R => <<x, z>> \in R
  <2> SUFFICES ASSUME NEW x \in S, NEW y \in S, NEW z \in S, x > y, y > z PROVE x > z
    BY <1>1
  <2> QED BY <1>2
<1>5. \A x, y \in S : x = y \/ <<x, y>> \in R \/ <<y, x>> \in R
  <2> SUFFICES ASSUME NEW x \in S, NEW y \in S PROVE x = y \/ x > y \/ y > x
    BY <1>1
  <2> QED BY <1>2
<1>6. PICK x \in S : \A y \in S \ {x} : <<x, y>> \in R
  BY <1>3, <1>4, <1>5, FirstOf
<1>7. \A y \in S : x >= y
  <2> SUFFICES ASSUME NEW y \in S PROVE x >= y
    OBVIOUS
  <2>1. x = y \/ x > y
    BY <1>1, <1>6
  <2> QED BY <1>2, <2>1
<1> QED BY <1>7 DEF Max
-----------------------------------------------------------------------------
\* Tables of rows
Table(t, Row) == t \in [DOMAIN t -> Row] /\ DOMAIN t \subseteq Nat /\ IsFiniteSet(DOMAIN t)

LEMMA EmptyTable ==
    ASSUME NEW Row
    PROVE  Table(<< >>, Row) /\ DOMAIN << >> = {}
BY FS_EmptySet DEF Table

\* The id of a new row is in no row of the table.
LEMMA FreshId ==
    ASSUME NEW t, NEW Row, Table(t, Row)
    PROVE  NextId(t) \in Nat /\ NextId(t) \notin DOMAIN t
<1> DEFINE S == {0} \cup DOMAIN t
<1>1. S \subseteq Int /\ S # {} /\ 0 \in S
  BY DEF Table
<1>2. IsFiniteSet(DOMAIN t \cup {0})
  BY FS_AddElement DEF Table
<1>3. IsFiniteSet(S)
  <2>1. S = DOMAIN t \cup {0}
    OBVIOUS
  <2> QED BY <1>2, <2>1
<1>4. \A y \in DOMAIN t : y \in S
  OBVIOUS
<1>5. NextId(t) = 1 + Max(S)
  BY DEF NextId
<1> HIDE DEF S
<1>6. Max(S) \in Int /\ \A y \in S : Max(S) >= y
  BY <1>1, <1>3, LargestOf
<1>7. \A y \in DOMAIN t : y \in Int /\ NextId(t) > y
  BY <1>4, <1>5, <1>6 DEF Table
<1>8. NextId(t) \in Nat
  BY <1>1, <1>5, <1>6
<1> QED BY <1>7, <1>8

LEMMA AddedRow ==
    ASSUME NEW t, NEW Row, Table(t, Row), NEW added \in Row
    PROVE  /\ Table(WithRow(t, added), Row)
           /\ DOMAIN WithRow(t, added) = DOMAIN t \cup {NextId(t)}
           /\ \A i \in DOMAIN t : WithRow(t, added)[i] = t[i]
           /\ WithRow(t, added)[NextId(t)] = added
<1>1. NextId(t) \in Nat /\ NextId(t) \notin DOMAIN t
  BY FreshId
<1> DEFINE u == WithRow(t, added)
           id == NextId(t)
<1>2. u = [i \in DOMAIN t \cup {id} |-> IF i \in DOMAIN t THEN t[i] ELSE added]
  BY DEF WithRow
<1> HIDE DEF u, id
<1>3. /\ DOMAIN u = DOMAIN t \cup {id}
      /\ \A i \in DOMAIN t : u[i] = t[i]
      /\ u \in [DOMAIN t \cup {id} -> Row]
  BY <1>2 DEF Table
<1>4. u[id] = added
  BY <1>1, <1>2 DEF id
<1>5. DOMAIN u \subseteq Nat /\ IsFiniteSet(DOMAIN u)
  BY <1>1, <1>3, FS_AddElement DEF Table, id
<1>6. Table(u, Row)
  BY <1>3, <1>5 DEF Table
<1> QED BY <1>3, <1>4, <1>6 DEF u, id

LEMMA DroppedRows ==
    ASSUME NEW t, NEW Row, Table(t, Row), NEW ids
    PROVE  /\ Table(Without(t, ids), Row)
           /\ DOMAIN Without(t, ids) = DOMAIN t \ ids
           /\ \A i \in DOMAIN t \ ids : Without(t, ids)[i] = t[i]
<1>1. /\ DOMAIN Without(t, ids) = DOMAIN t \ ids
      /\ \A i \in DOMAIN t \ ids : Without(t, ids)[i] = t[i]
      /\ Without(t, ids) \in [DOMAIN t \ ids -> Row]
  BY DEF Without, Restrict, Table
<1>2. IsFiniteSet(DOMAIN t \ ids)
  BY FS_Subset DEF Table
<1> QED BY <1>1, <1>2 DEF Table

-----------------------------------------------------------------------------
CardRow == [account : Accounts, serial : Nat, moved : BOOLEAN]
RuleRow == [item : Items, card : Nat, priority : Priorities, enabled : BOOLEAN,
            account : Accounts, meant : Nat]

DeliveryTypes == Table(cards, CardRow) /\ Table(rules, RuleRow) /\ serial \in Nat

DeliveryInv == DeliveryTypes /\ RulesFitTheirCards

LEMMA DeliveryInitially == DeliveryInit => DeliveryInv
BY EmptyTable DEF DeliveryInit, DeliveryInv, DeliveryTypes, RulesFitTheirCards

\* A rule fits a card of the table.
Fits(rule, table) ==
    /\ rule.card \in DOMAIN table
    /\ table[rule.card].serial = rule.meant
    /\ table[rule.card].moved \/ table[rule.card].account = rule.account

LEMMA FitRules == RulesFitTheirCards <=> \A r \in DOMAIN rules : Fits(rules[r], cards)
BY DEF RulesFitTheirCards, Fits

LEMMA DeliveryStep ==
    ASSUME DeliveryInv, [DeliveryNext]_deliveryVars
    PROVE  DeliveryInv'
<1>1. /\ Table(cards, CardRow) /\ Table(rules, RuleRow) /\ serial \in Nat
      /\ \A r \in DOMAIN rules : Fits(rules[r], cards)
  BY FitRules DEF DeliveryInv, DeliveryTypes
<1>2. /\ \A c \in DOMAIN cards : cards[c] \in CardRow
      /\ \A r \in DOMAIN rules : rules[r] \in RuleRow
      /\ DOMAIN cards \subseteq Nat /\ DOMAIN rules \subseteq Nat
  BY <1>1 DEF Table
<1>3. ASSUME Table(cards', CardRow), Table(rules', RuleRow), serial' \in Nat,
             \A r \in DOMAIN rules' : Fits(rules'[r], cards')
      PROVE  DeliveryInv'
  BY <1>3 DEF DeliveryInv, DeliveryTypes, RulesFitTheirCards, Fits
<1>4. ASSUME NEW a \in Accounts, CreateCard(a) PROVE DeliveryInv'
  <2> DEFINE card == [account |-> a, serial |-> serial + 1, moved |-> FALSE]
  <2>1. card \in CardRow
    BY <1>1 DEF CardRow
  <2>2. cards' = WithRow(cards, card) /\ rules' = rules /\ serial' = serial + 1
    BY <1>4 DEF CreateCard
  <2> HIDE DEF card
  <2>5. /\ Table(WithRow(cards, card), CardRow)
        /\ DOMAIN WithRow(cards, card) = DOMAIN cards \cup {NextId(cards)}
        /\ \A c \in DOMAIN cards : WithRow(cards, card)[c] = cards[c]
        /\ WithRow(cards, card)[NextId(cards)] = card
    BY <1>1, <2>1, AddedRow
  <2>3. /\ Table(cards', CardRow) /\ DOMAIN cards \subseteq DOMAIN cards'
        /\ \A c \in DOMAIN cards : cards'[c] = cards[c]
    BY <2>2, <2>5
  <2>4. \A r \in DOMAIN rules' : Fits(rules'[r], cards')
    BY <1>1, <2>2, <2>3 DEF Fits
  <2> QED BY <1>1, <1>3, <2>2, <2>3, <2>4
<1>5. ASSUME NEW c, NEW a \in Accounts, UpdateCard(c, a) PROVE DeliveryInv'
  <2>1. /\ c \in DOMAIN cards /\ rules' = rules /\ serial' = serial
        /\ cards' = [cards EXCEPT ![c].account = a, ![c].moved = @ \/ a # cards[c].account]
    BY <1>5 DEF UpdateCard
  <2> DEFINE given == [cards[c] EXCEPT !.account = a]
             card == [given EXCEPT !.moved = given.moved \/ a # cards[c].account]
  <2>2. /\ given \in CardRow /\ given.account = a /\ given.serial = cards[c].serial
        /\ given.moved = cards[c].moved
    BY <1>2, <2>1 DEF CardRow
  <2>3. cards' = [cards EXCEPT ![c] = card]
    BY <2>1
  <2> HIDE DEF given
  <2>4. /\ card \in CardRow /\ card.account = a /\ card.serial = cards[c].serial
        /\ card.moved <=> cards[c].moved \/ a # cards[c].account
    BY <2>2 DEF CardRow
  <2> HIDE DEF card
  <2>5. /\ DOMAIN cards' = DOMAIN cards /\ cards'[c] = card
        /\ \A k \in DOMAIN cards \ {c} : cards'[k] = cards[k]
    BY <2>1, <2>3
  <2>6. Table(cards', CardRow)
    BY <1>1, <2>3, <2>4, <2>5 DEF Table
  <2>7. \A r \in DOMAIN rules : Fits(rules[r], cards')
    <3> SUFFICES ASSUME NEW r \in DOMAIN rules PROVE Fits(rules[r], cards')
      OBVIOUS
    <3>1. Fits(rules[r], cards)
      BY <1>1
    <3>2. CASE rules[r].card = c
      BY <2>1, <2>4, <2>5, <3>1, <3>2 DEF Fits
    <3>3. CASE rules[r].card # c
      BY <2>5, <3>1, <3>3 DEF Fits
    <3> QED BY <3>2, <3>3
  <2> QED BY <1>1, <1>3, <2>1, <2>6, <2>7
<1>6. ASSUME NEW c, DeleteCard(c) PROVE DeliveryInv'
  <2> DEFINE its == {r \in DOMAIN rules : rules[r].card = c}
  <2>1. /\ cards' = Without(cards, {c}) /\ serial' = serial
        /\ rules' = Without(rules, its)
    BY <1>6 DEF DeleteCard
  <2>2. \A r \in DOMAIN rules \ its : rules[r].card # c
    OBVIOUS
  <2> HIDE DEF its
  <2>3. /\ Table(cards', CardRow) /\ DOMAIN cards' = DOMAIN cards \ {c}
        /\ \A k \in DOMAIN cards \ {c} : cards'[k] = cards[k]
    BY <1>1, <2>1, DroppedRows
  <2>4. /\ Table(rules', RuleRow) /\ DOMAIN rules' = DOMAIN rules \ its
        /\ \A r \in DOMAIN rules \ its : rules'[r] = rules[r]
    BY <1>1, <2>1, DroppedRows
  <2>5. \A r \in DOMAIN rules' : Fits(rules'[r], cards')
    BY <1>1, <2>2, <2>3, <2>4 DEF Fits
  <2> QED BY <1>1, <1>3, <2>1, <2>3, <2>4, <2>5
<1>7. ASSUME NEW i \in Items, NEW c, NEW p \in Priorities, NEW on \in BOOLEAN, NEW a \in Accounts,
             CreateRule(i, c, p, on, a)
      PROVE  DeliveryInv'
  <2> DEFINE rule == [item |-> i, card |-> c, priority |-> p, enabled |-> on,
                      account |-> a, meant |-> cards[c].serial]
  <2>1. /\ c \in DOMAIN cards /\ cards[c].account = a /\ cards' = cards /\ serial' = serial
        /\ rules' = WithRow(rules, rule)
    BY <1>7 DEF CreateRule
  <2>2. rule \in RuleRow
    BY <1>2, <2>1 DEF RuleRow, CardRow
  <2>3. Fits(rule, cards)
    BY <2>1 DEF Fits
  <2> HIDE DEF rule
  <2>4. /\ Table(rules', RuleRow) /\ DOMAIN rules' = DOMAIN rules \cup {NextId(rules)}
        /\ \A r \in DOMAIN rules : rules'[r] = rules[r]
        /\ rules'[NextId(rules)] = rule
    <3>1. /\ Table(WithRow(rules, rule), RuleRow)
          /\ DOMAIN WithRow(rules, rule) = DOMAIN rules \cup {NextId(rules)}
          /\ \A r \in DOMAIN rules : WithRow(rules, rule)[r] = rules[r]
          /\ WithRow(rules, rule)[NextId(rules)] = rule
      BY <1>1, <2>2, AddedRow
    <3> QED BY <2>1, <3>1
  <2>5. \A r \in DOMAIN rules' : Fits(rules'[r], cards)
    BY <1>1, <2>3, <2>4
  <2> QED BY <1>1, <1>3, <2>1, <2>4, <2>5
<1>8. ASSUME NEW r, NEW c, Recard(r, c) PROVE DeliveryInv'
  <2>1. /\ r \in DOMAIN rules /\ c \in DOMAIN cards /\ cards[c].account = rules[r].account
        /\ rules' = [rules EXCEPT ![r].card = c, ![r].meant = cards[c].serial]
        /\ cards' = cards /\ serial' = serial
    BY <1>8 DEF Recard
  <2> DEFINE given == [rules[r] EXCEPT !.card = c]
             rule == [given EXCEPT !.meant = cards[c].serial]
  <2>2. given \in RuleRow /\ given.card = c /\ given.account = rules[r].account
    BY <1>2, <2>1 DEF RuleRow
  <2>3. rules' = [rules EXCEPT ![r] = rule]
    BY <2>1
  <2> HIDE DEF given
  <2>4. /\ rule \in RuleRow /\ rule.card = c /\ rule.account = rules[r].account
        /\ rule.meant = cards[c].serial
    <3>1. cards[c].serial \in Nat
      BY <1>2, <2>1 DEF CardRow
    <3> QED BY <2>2, <3>1 DEF RuleRow
  <2> HIDE DEF rule
  <2>5. Fits(rule, cards)
    BY <2>1, <2>4 DEF Fits
  <2>6. /\ DOMAIN rules' = DOMAIN rules /\ rules'[r] = rule
        /\ \A k \in DOMAIN rules \ {r} : rules'[k] = rules[k]
    BY <2>1, <2>3
  <2>7. Table(rules', RuleRow)
    BY <1>1, <2>3, <2>4, <2>6 DEF Table
  <2>8. \A k \in DOMAIN rules' : Fits(rules'[k], cards)
    BY <1>1, <2>5, <2>6
  <2> QED BY <1>1, <1>3, <2>1, <2>7, <2>8
<1>9. ASSUME NEW r, NEW p \in Priorities, NEW on \in BOOLEAN, Retune(r, p, on) PROVE DeliveryInv'
  <2>1. /\ r \in DOMAIN rules /\ cards' = cards /\ serial' = serial
        /\ rules' = [rules EXCEPT ![r].priority = p, ![r].enabled = on]
    BY <1>9 DEF Retune
  <2> DEFINE given == [rules[r] EXCEPT !.priority = p]
             rule == [given EXCEPT !.enabled = on]
  <2>2. /\ given \in RuleRow /\ given.card = rules[r].card /\ given.account = rules[r].account
        /\ given.meant = rules[r].meant
    BY <1>2, <2>1 DEF RuleRow
  <2>3. rules' = [rules EXCEPT ![r] = rule]
    BY <2>1
  <2> HIDE DEF given
  <2>4. /\ rule \in RuleRow /\ rule.card = rules[r].card /\ rule.account = rules[r].account
        /\ rule.meant = rules[r].meant
    BY <2>2 DEF RuleRow
  <2> HIDE DEF rule
  <2>5. Fits(rule, cards)
    BY <1>1, <2>1, <2>4 DEF Fits
  <2>6. /\ DOMAIN rules' = DOMAIN rules /\ rules'[r] = rule
        /\ \A k \in DOMAIN rules \ {r} : rules'[k] = rules[k]
    BY <2>1, <2>3
  <2>7. Table(rules', RuleRow)
    BY <1>1, <2>3, <2>4, <2>6 DEF Table
  <2>8. \A k \in DOMAIN rules' : Fits(rules'[k], cards)
    BY <1>1, <2>5, <2>6
  <2> QED BY <1>1, <1>3, <2>1, <2>7, <2>8
<1>10. ASSUME NEW r, DeleteRule(r) PROVE DeliveryInv'
  <2>1. rules' = Without(rules, {r}) /\ cards' = cards /\ serial' = serial
    BY <1>10 DEF DeleteRule
  <2>2. /\ Table(rules', RuleRow) /\ DOMAIN rules' = DOMAIN rules \ {r}
        /\ \A k \in DOMAIN rules \ {r} : rules'[k] = rules[k]
    BY <1>1, <2>1, DroppedRows
  <2>3. \A k \in DOMAIN rules' : Fits(rules'[k], cards)
    BY <1>1, <2>2
  <2> QED BY <1>1, <1>3, <2>1, <2>2, <2>3
<1>11. ASSUME NEW i, NEW a, ItemChanges(i, a) PROVE DeliveryInv'
  BY <1>1, <1>3, <1>11 DEF ItemChanges
<1>12. CASE UNCHANGED deliveryVars
  BY <1>1, <1>3, <1>12 DEF deliveryVars
<1> QED BY <1>4, <1>5, <1>6, <1>7, <1>8, <1>9, <1>10, <1>11, <1>12 DEF DeliveryNext

\* A rule's card is the one it was given, whatever cards and rules are edited
\* and whatever ids are given again: ON DELETE CASCADE of the schema takes the
\* rules with their card, and every route checks the accounts.
THEOREM RulesFit == DeliverySpec => []RulesFitTheirCards
<1>1. DeliveryInv /\ [DeliveryNext]_deliveryVars => DeliveryInv'
  BY DeliveryStep
<1>2. DeliveryInv => RulesFitTheirCards
  BY DEF DeliveryInv
<1> QED BY <1>1, <1>2, DeliveryInitially, PTL DEF DeliverySpec

\* The rules in the order of the query: one strict order, for the ids differ
LEMMA BeforeOrders ==
    ASSUME DeliveryTypes
    PROVE  /\ \A r \in DOMAIN rules : ~ Before(r, r)
           /\ \A r, s, t \in DOMAIN rules : Before(r, s) /\ Before(s, t) => Before(r, t)
           /\ \A r, s \in DOMAIN rules : r = s \/ Before(r, s) \/ Before(s, r)
<1>1. \A r \in DOMAIN rules : r \in Int /\ rules[r].priority \in Int
  BY DeliveryAssumption DEF DeliveryTypes, Table, RuleRow
<1>2. \A r \in DOMAIN rules : ~ Before(r, r)
  BY <1>1 DEF Before
<1>3. \A r, s, t \in DOMAIN rules : Before(r, s) /\ Before(s, t) => Before(r, t)
  BY <1>1 DEF Before
<1>4. \A r, s \in DOMAIN rules : r = s \/ Before(r, s) \/ Before(s, r)
  BY <1>1 DEF Before
<1> QED BY <1>2, <1>3, <1>4

\* resolve_delivery_rule finds a rule if any joins, the first in its order.
LEMMA ResolvesToFirst ==
    ASSUME DeliveryTypes, NEW i, NEW a, Joined(i, a) # {}
    PROVE  /\ ResolveRule(i, a) \in Joined(i, a)
           /\ \A s \in Joined(i, a) \ {ResolveRule(i, a)} : Before(ResolveRule(i, a), s)
<1> DEFINE found == Joined(i, a)
           R == {p \in (DOMAIN rules) \X (DOMAIN rules) : Before(p[1], p[2])}
<1>1. found \subseteq DOMAIN rules
  BY DEF Joined
<1>2. IsFiniteSet(found)
  BY <1>1, FS_Subset DEF DeliveryTypes, Table
<1>3. \A r, s \in DOMAIN rules : <<r, s>> \in R <=> Before(r, s)
  OBVIOUS
<1>4. found # {}
  OBVIOUS
<1>5. ResolveRule(i, a) = CHOOSE r \in found : \A s \in found \ {r} : Before(r, s)
  BY DEF ResolveRule
<1> HIDE DEF found, R
<1>6. /\ \A r \in found : <<r, r>> \notin R
      /\ \A r, s, t \in found : <<r, s>> \in R /\ <<s, t>> \in R => <<r, t>> \in R
      /\ \A r, s \in found : r = s \/ <<r, s>> \in R \/ <<s, r>> \in R
  BY <1>1, <1>3, BeforeOrders
<1>7. PICK r \in found : \A s \in found \ {r} : <<r, s>> \in R
  BY <1>2, <1>4, <1>6, FirstOf
<1>8. \A s \in found \ {r} : Before(r, s)
  BY <1>1, <1>3, <1>7
<1> QED BY <1>5, <1>8 DEF found

FoundFirst ==
    \A i \in Items, a \in Accounts :
        Joined(i, a) # {} =>
            /\ ResolveRule(i, a) \in Joined(i, a)
            /\ \A s \in Joined(i, a) \ {ResolveRule(i, a)} : Before(ResolveRule(i, a), s)

LEMMA FoundIsFirst == DeliveryTypes => FoundFirst
BY ResolvesToFirst DEF FoundFirst

\* No step gives a card that stays another serial.
LEMMA SerialsStay ==
    ASSUME DeliveryInv, [DeliveryNext]_deliveryVars
    PROVE  \A c \in DOMAIN cards : c \in DOMAIN cards' => cards'[c].serial = cards[c].serial
<1>1. Table(cards, CardRow)
  BY DEF DeliveryInv, DeliveryTypes
<1>2. ASSUME NEW a \in Accounts, CreateCard(a)
      PROVE  \A c \in DOMAIN cards : cards'[c].serial = cards[c].serial
  <2> DEFINE card == [account |-> a, serial |-> serial + 1, moved |-> FALSE]
  <2>1. card \in CardRow
    BY DEF DeliveryInv, DeliveryTypes, CardRow
  <2>2. cards' = WithRow(cards, card)
    BY <1>2 DEF CreateCard
  <2> HIDE DEF card
  <2>3. /\ Table(WithRow(cards, card), CardRow)
        /\ DOMAIN WithRow(cards, card) = DOMAIN cards \cup {NextId(cards)}
        /\ \A c \in DOMAIN cards : WithRow(cards, card)[c] = cards[c]
        /\ WithRow(cards, card)[NextId(cards)] = card
    BY <1>1, <2>1, AddedRow
  <2> QED BY <2>2, <2>3
<1>3. ASSUME NEW c, NEW a \in Accounts, UpdateCard(c, a)
      PROVE  \A k \in DOMAIN cards : cards'[k].serial = cards[k].serial
  <2>1. \A k \in DOMAIN cards : cards[k] \in CardRow
    BY <1>1 DEF Table
  <2> QED BY <1>3, <2>1 DEF UpdateCard, CardRow
<1>4. ASSUME NEW c, DeleteCard(c)
      PROVE  \A k \in DOMAIN cards : k \in DOMAIN cards' => cards'[k].serial = cards[k].serial
  <2>1. cards' = Without(cards, {c})
    BY <1>4 DEF DeleteCard
  <2>2. /\ DOMAIN Without(cards, {c}) = DOMAIN cards \ {c}
        /\ \A k \in DOMAIN cards \ {c} : Without(cards, {c})[k] = cards[k]
    BY <1>1, DroppedRows
  <2> QED BY <2>1, <2>2
<1>5. ASSUME UNCHANGED cards
      PROVE  \A k \in DOMAIN cards : cards'[k].serial = cards[k].serial
  BY <1>5
<1> QED
  BY <1>2, <1>3, <1>4, <1>5
  DEF DeliveryNext, CreateRule, Recard, Retune, DeleteRule, ItemChanges, deliveryVars

\* Where an account's rules and their cards stay, the same rows join.
LEMMA SameJoin ==
    ASSUME DeliveryInv, NEW i \in Items, NEW a \in Accounts,
           RulesOf(i, a)' = RulesOf(i, a),
           \A r \in DOMAIN RulesOf(i, a) : ~ TakesCard(rules[r].card)
    PROVE  /\ Joined(i, a)' = Joined(i, a)
           /\ \A r \in Joined(i, a) :
                 /\ r \in DOMAIN rules /\ rules'[r] = rules[r]
                 /\ rules[r].card \in DOMAIN cards /\ rules[r].card \in DOMAIN cards'
<1> DEFINE own == {r \in DOMAIN rules : rules[r].item = i /\ rules[r].account = a}
           later == {r \in DOMAIN rules' : rules'[r].item = i /\ rules'[r].account = a}
<1>1. own = later /\ \A r \in own : rules'[r] = rules[r]
  <2>1. DOMAIN RulesOf(i, a) = own /\ (DOMAIN RulesOf(i, a))' = later
    BY DEF RulesOf
  <2>2. \A r \in own : RulesOf(i, a)[r] = rules[r]
    BY DEF RulesOf
  <2>3. \A r \in later : RulesOf(i, a)'[r] = rules'[r]
    BY DEF RulesOf
  <2> QED BY <2>1, <2>2, <2>3
<1>2. \A r \in own : /\ rules[r].card \in DOMAIN cards /\ rules[r].card \in DOMAIN cards'
                      /\ cards'[rules[r].card].account = cards[rules[r].card].account
  <2>1. DOMAIN RulesOf(i, a) = own
    BY DEF RulesOf
  <2>2. \A r \in own : rules[r].card \in DOMAIN cards
    BY DEF DeliveryInv, RulesFitTheirCards
  <2> QED BY <2>1, <2>2 DEF TakesCard
<1>3. /\ Joined(i, a) = {r \in own : rules[r].enabled /\ rules[r].card \in DOMAIN cards
                                     /\ cards[rules[r].card].account = a}
      /\ Joined(i, a)' = {r \in later : rules'[r].enabled /\ rules'[r].card \in DOMAIN cards'
                                       /\ cards'[rules'[r].card].account = a}
  BY DEF Joined
<1>4. own \subseteq DOMAIN rules
  OBVIOUS
<1> HIDE DEF own, later
<1>5. Joined(i, a)' = Joined(i, a)
  BY <1>1, <1>2, <1>3
<1>6. Joined(i, a) \subseteq own
  BY <1>3
<1> QED BY <1>1, <1>2, <1>4, <1>5, <1>6

\* OwnEditsDecide, for any accounts, items, cards and rules: what an account is
\* served with is decided by its own rules and their cards alone, though all
\* accounts share the tables and ids are given again.
THEOREM OwnEdits == DeliverySpec => OwnEditsDecide
<1>1. DeliveryInv /\ [DeliveryNext]_deliveryVars => DeliveryInv'
  BY DeliveryStep
<1>2. DeliveryInv => DeliveryTypes
  BY DEF DeliveryInv
<1>3. ASSUME DeliveryInv, DeliveryInv', FoundFirst, FoundFirst', [DeliveryNext]_deliveryVars,
             NEW i \in Items, NEW a \in Accounts,
             RulesOf(i, a)' = RulesOf(i, a),
             \A r \in DOMAIN RulesOf(i, a) : ~ TakesCard(rules[r].card)
      PROVE  Served(i, a)' = Served(i, a)
  <2> DEFINE F == Joined(i, a)
             r == ResolveRule(i, a)
  <2>0. PICK q : q = ResolveRule(i, a)'
    OBVIOUS
  <2>1. /\ Joined(i, a)' = F
        /\ \A s \in F : /\ s \in DOMAIN rules /\ rules'[s] = rules[s]
                         /\ rules[s].card \in DOMAIN cards /\ rules[s].card \in DOMAIN cards'
    BY <1>3, SameJoin
  <2>2. CASE F = {}
    BY <2>1, <2>2 DEF Served, ResolveRule
  <2>3. CASE F # {}
    <3>1. r \in F /\ \A s \in F \ {r} : Before(r, s)
      BY <1>3, <2>3 DEF FoundFirst
    <3>2. /\ q \in F
          /\ \A s \in F \ {q} :
                \/ rules'[q].priority > rules'[s].priority
                \/ rules'[q].priority = rules'[s].priority /\ q < s
      <4>1. Joined(i, a)' # {} =>
               /\ ResolveRule(i, a)' \in Joined(i, a)'
               /\ \A s \in Joined(i, a)' \ {ResolveRule(i, a)'} :
                     \/ rules'[ResolveRule(i, a)'].priority > rules'[s].priority
                     \/ /\ rules'[ResolveRule(i, a)'].priority = rules'[s].priority
                        /\ ResolveRule(i, a)' < s
        BY <1>3 DEF FoundFirst, Before
      <4> HIDE DEF r
      <4> QED BY <2>0, <2>1, <2>3, <4>1
    <3>3. \A s \in F \ {q} : Before(q, s)
      BY <2>1, <3>2 DEF Before
    <3>4. q = r
      <4>1. r \in DOMAIN rules /\ q \in DOMAIN rules
        BY <2>1, <3>1, <3>2
      <4> HIDE DEF F, r
      <4>2. ASSUME q # r PROVE FALSE
        <5>1. Before(q, r) /\ Before(r, q)
          BY <3>1, <3>2, <3>3, <4>2
        <5> QED BY <1>2, <1>3, <4>1, <5>1, BeforeOrders
      <4> QED BY <4>2
    <3>5. cards'[rules[r].card].serial = cards[rules[r].card].serial
      <4>1. \A c \in DOMAIN cards : c \in DOMAIN cards' => cards'[c].serial = cards[c].serial
        BY <1>3, SerialsStay
      <4> QED BY <2>1, <3>1, <4>1
    <3>6. rules'[r] = rules[r]
      BY <2>1, <3>1
    <3> QED BY <2>0, <3>4, <3>5, <3>6 DEF Served
  <2> QED BY <2>2, <2>3
<1>4. DeliveryInv /\ DeliveryInv' /\ FoundFirst /\ FoundFirst' /\ [DeliveryNext]_deliveryVars =>
         [\A i \in Items, a \in Accounts :
            Served(i, a)' # Served(i, a) =>
                \/ RulesOf(i, a)' # RulesOf(i, a)
                \/ \E r \in DOMAIN RulesOf(i, a) : TakesCard(rules[r].card)]_deliveryVars
  BY <1>3
<1> QED BY <1>1, <1>2, <1>4, FoundIsFirst, DeliveryInitially, PTL DEF DeliverySpec, OwnEditsDecide

-----------------------------------------------------------------------------
\* Replies

\* The rows that the first two steps of ReplyPolicyService.resolve read decide
\* an answer of the first two ranks, and those of the first three one of the third.
LEMMA RankDecides ==
    ASSUME NEW i \in ItemIds, NEW said \in SUBSET Patterns
    PROVE  /\ Rank[ResolveReply(i, said).source] <= 2 =>
                 TRUE \in itemReply[i] \/ ItemKeywordHits(i, said) # {}
           /\ Rank[ResolveReply(i, said).source] = 3 =>
                 GeneralHits(said) # {}
<1> DEFINE n == Rank[ResolveReply(i, said).source]
           own == TRUE \in itemReply[i]
           item == ItemKeywordHits(i, said) # {}
           any == GeneralHits(said) # {}
<1>1. /\ Rank["item_reply"] = 1 /\ Rank["item_keyword"] = 2 /\ Rank["keyword"] = 3
      /\ Rank["default"] = 4 /\ Rank["ai_fallback"] = 5
  BY DEF Rank
<1>2. own => n = 1
  <2> SUFFICES ASSUME own PROVE n = 1
    OBVIOUS
  <2>1. ResolveReply(i, said).source = "item_reply"
    BY DEF ResolveReply
  <2> QED BY <1>1, <2>1
<1>3. ~own /\ item => n = 2
  <2> SUFFICES ASSUME ~own, item PROVE n = 2
    OBVIOUS
  <2>1. ResolveReply(i, said).source = "item_keyword"
    BY DEF ResolveReply
  <2> QED BY <1>1, <2>1
<1>4. ~own /\ ~item /\ any => n = 3
  <2> SUFFICES ASSUME ~own, ~item, any PROVE n = 3
    OBVIOUS
  <2>1. ResolveReply(i, said).source = "keyword"
    BY DEF ResolveReply
  <2> QED BY <1>1, <2>1
<1>5. ~own /\ ~item /\ ~any => n \in {4, 5}
  <2> SUFFICES ASSUME ~own, ~item, ~any PROVE n \in {4, 5}
    OBVIOUS
  <2>1. ResolveReply(i, said).source \in {"default", "ai_fallback"}
    BY DEF ResolveReply
  <2> QED BY <1>1, <2>1
<1> HIDE DEF n, own, item, any
<1>6. (n <= 2 => own \/ item) /\ (n = 3 => any)
  BY <1>2, <1>3, <1>4, <1>5
<1> QED BY <1>6 DEF n, own, item, any

\* Whatever handler ran, an answer of ReplyPolicyService.resolve by an item's own
\* reply or keyword outlives every edit of the general keywords and of the default
\* reply, and one by a keyword every edit of the default reply.
THEOREM HigherRanksAnswer == RepliesSpec => LowerRanksAreHidden
<1> DEFINE Hidden ==
        \A i \in ItemIds, said \in SUBSET Patterns :
          LET before == Rank[ResolveReply(i, said).source]
          IN  /\ before <= 2 /\ itemReply' = itemReply /\ itemised' = itemised =>
                     ResolveReply(i, said)' = ResolveReply(i, said)
              /\ before = 3 /\ itemReply' = itemReply /\ itemised' = itemised /\ general' = general =>
                     ResolveReply(i, said)' = ResolveReply(i, said)
<1>1. Hidden
  <2> SUFFICES ASSUME NEW i \in ItemIds, NEW said \in SUBSET Patterns,
                      itemReply' = itemReply, itemised' = itemised
               PROVE  /\ Rank[ResolveReply(i, said).source] <= 2 =>
                            ResolveReply(i, said)' = ResolveReply(i, said)
                      /\ Rank[ResolveReply(i, said).source] = 3 /\ general' = general =>
                            ResolveReply(i, said)' = ResolveReply(i, said)
    OBVIOUS
  <2>1. ItemKeywordHits(i, said)' = ItemKeywordHits(i, said)
    BY DEF ItemKeywordHits
  <2>2. general' = general => GeneralHits(said)' = GeneralHits(said)
    BY DEF GeneralHits
  <2>3. ASSUME Rank[ResolveReply(i, said).source] <= 2
        PROVE  ResolveReply(i, said)' = ResolveReply(i, said)
    <3>1. TRUE \in itemReply[i] \/ ItemKeywordHits(i, said) # {}
      BY <2>3, RankDecides
    <3> QED BY <2>1, <3>1 DEF ResolveReply
  <2>4. ASSUME Rank[ResolveReply(i, said).source] = 3, general' = general
        PROVE  ResolveReply(i, said)' = ResolveReply(i, said)
    <3>1. GeneralHits(said) # {}
      BY <2>4, RankDecides
    <3> QED BY <2>1, <2>2, <2>4, <3>1 DEF ResolveReply
  <2> QED BY <2>3, <2>4
<1>2. [Hidden]_replyVars
  BY <1>1
<1> HIDE DEF Hidden
<1>3. [][Hidden]_replyVars
  BY <1>2, PTL
<1> QED BY <1>3 DEF LowerRanksAreHidden, Hidden

-----------------------------------------------------------------------------
\* CaptchaRemote

RemoteSession == [page : Searches, picture : Searches, completed : BOOLEAN]

RemoteTypeOK ==
    /\ remote \in [Ids -> RemoteSession \cup {NoSession}]
    /\ search \in [Searches -> {"idle", "opening", "waiting", "true", "false"}]
    /\ captcha \in [Searches -> {"shown", "solved", "gone"}]
    /\ inFlight \in [Calls -> [kind : {"check", "refresh"}, id : Ids, page : Searches] \cup {NoCall}]

\* A session is that of a search with its id: whoever closes the id closes it.
OwnId == \A i \in Ids : Active(i) => IdOf[remote[i].page] = i

RemoteInv == RemoteTypeOK /\ OwnId /\ NoAbandonedSession

LEMMA RemoteInitInv == RemoteInit => RemoteInv
BY DEF RemoteInit, RemoteInv, RemoteTypeOK, OwnId, NoAbandonedSession, Active

\* An active session is a record of a search; the empty one is not.
LEMMA ActiveSession ==
    ASSUME RemoteTypeOK, NEW i \in Ids
    PROVE  Active(i) <=> remote[i] \in RemoteSession
BY RemoteAssumption DEF RemoteTypeOK, RemoteSession, Active, NoSession

\* A field other than the page changes in a session: nothing that matters does.
LEMMA TouchedInv ==
    ASSUME RemoteInv, NEW i \in Ids, Active(i), UNCHANGED <<search, captcha>>,
           remote'[i] \in RemoteSession, remote'[i].page = remote[i].page,
           remote' \in [Ids -> RemoteSession \cup {NoSession}],
           \A j \in Ids : j # i => remote'[j] = remote[j]
    PROVE  OwnId' /\ NoAbandonedSession'
BY RemoteAssumption DEF RemoteInv, RemoteTypeOK, OwnId, NoAbandonedSession, Active, NoSession, RemoteSession

\* A session that is closed leaves the others as they were, and its search may
\* go on to another state.
LEMMA ClosedInv ==
    ASSUME RemoteInv, NEW i \in Ids, Close(i), UNCHANGED <<captcha, inFlight>>,
           search' \in [Searches -> {"idle", "opening", "waiting", "true", "false"}],
           \A s \in Searches : IdOf[s] # i => search'[s] = search[s]
    PROVE  RemoteInv'
<1> USE DEF RemoteInv, Close
<1>1. /\ remote' \in [Ids -> RemoteSession \cup {NoSession}]
      /\ remote'[i] = NoSession
      /\ \A j \in Ids : j # i => remote'[j] = remote[j]
  BY DEF RemoteTypeOK
<1>2. RemoteTypeOK'
  BY <1>1 DEF RemoteTypeOK
<1>3. OwnId'
  BY <1>1 DEF OwnId, Active
<1>4. NoAbandonedSession'
  <2> SUFFICES ASSUME NEW j \in Ids, remote'[j] # NoSession
               PROVE  search'[remote'[j].page] = "waiting"
    BY DEF NoAbandonedSession, Active
  <2>1. j # i /\ remote'[j] = remote[j] /\ Active(j)
    BY <1>1 DEF Active
  <2>2. remote[j].page \in Searches /\ IdOf[remote[j].page] = j /\ search[remote[j].page] = "waiting"
    BY <2>1, ActiveSession DEF OwnId, NoAbandonedSession, RemoteSession
  <2> QED BY <2>1, <2>2
<1> QED BY <1>2, <1>3, <1>4

LEMMA RemoteStepInv == RemoteInv /\ [RemoteNext]_remoteVars => RemoteInv'
<1> SUFFICES ASSUME RemoteInv, [RemoteNext]_remoteVars PROVE RemoteInv'
  OBVIOUS
<1>0. RemoteTypeOK /\ OwnId /\ NoAbandonedSession
  BY DEF RemoteInv
<1>1. ASSUME NEW s \in Searches, MeetCaptcha(s) PROVE RemoteInv'
  <2>1. RemoteTypeOK' /\ UNCHANGED remote
    BY <1>0, <1>1 DEF MeetCaptcha, RemoteTypeOK
  <2>2. \A i \in Ids : Active(i) => remote[i].page # s
    BY <1>0, <1>1, ActiveSession DEF MeetCaptcha, NoAbandonedSession
  <2> QED BY <1>0, <1>1, <2>1, <2>2, ActiveSession
      DEF MeetCaptcha, RemoteInv, RemoteTypeOK, OwnId, NoAbandonedSession, Active, RemoteSession
<1>2. ASSUME NEW s \in Searches, CreateSession(s) PROVE RemoteInv'
  <2>1. CASE search'[s] = "waiting" /\ remote' = [remote EXCEPT ![IdOf[s]] = [page |-> s, picture |-> s, completed |-> FALSE]]
    <3>0. search' = [search EXCEPT ![s] = "waiting"]
      BY <1>0, <1>2, <2>1 DEF CreateSession, RemoteTypeOK
    <3>1. IdOf[s] \in Ids /\ [page |-> s, picture |-> s, completed |-> FALSE] \in RemoteSession
      BY RemoteAssumption DEF RemoteSession
    <3>2. RemoteTypeOK'
      BY <1>0, <1>2, <2>1, <3>0, <3>1 DEF CreateSession, RemoteTypeOK
    <3>3. OwnId'
      BY <1>0, <2>1, <3>1 DEF RemoteTypeOK, OwnId, Active
    <3>4. NoAbandonedSession'
      BY <1>0, <2>1, <3>0, <3>1, ActiveSession DEF RemoteTypeOK, NoAbandonedSession, Active, RemoteSession
    <3> QED BY <3>2, <3>3, <3>4 DEF RemoteInv
  <2>2. CASE search' = [search EXCEPT ![s] = "false"] /\ UNCHANGED remote
    <3>1. RemoteTypeOK'
      BY <1>0, <1>2, <2>2 DEF CreateSession, RemoteTypeOK
    <3>2. \A i \in Ids : Active(i) => remote[i].page # s
      BY <1>0, <1>2, ActiveSession DEF CreateSession, NoAbandonedSession
    <3> QED BY <1>0, <2>2, <3>1, <3>2, ActiveSession
        DEF RemoteInv, RemoteTypeOK, OwnId, NoAbandonedSession, Active, RemoteSession
  <2> QED BY <1>0, <1>2, <2>1, <2>2 DEF CreateSession, RemoteTypeOK
<1>3. ASSUME NEW s \in Searches, SeesCompleted(s) PROVE RemoteInv'
  BY <1>0, <1>3, ClosedInv, RemoteAssumption DEF SeesCompleted, RemoteTypeOK
<1>4. ASSUME NEW s \in Searches, WaitTimesOut(s) PROVE RemoteInv'
  BY <1>0, <1>4, ClosedInv, RemoteAssumption DEF WaitTimesOut, RemoteTypeOK
<1>5. ASSUME NEW s \in Searches, PageGone(s) PROVE RemoteInv'
  BY <1>0, <1>5 DEF PageGone, RemoteInv, RemoteTypeOK, OwnId, NoAbandonedSession, Active
<1>6. ASSUME NEW i \in Ids, CloseSession(i) PROVE RemoteInv'
  BY <1>0, <1>6, ClosedInv DEF CloseSession, RemoteTypeOK
<1>7. ASSUME NEW i \in Ids, Drag(i) PROVE RemoteInv'
  BY <1>0, <1>7 DEF Drag, RemoteInv, RemoteTypeOK, OwnId, NoAbandonedSession, Active
<1>8. ASSUME NEW c \in Calls, CheckCompletion(c) PROVE RemoteInv'
  <2> DEFINE i == inFlight[c].id
  <2>1. i \in Ids
    BY <1>0, <1>8 DEF CheckCompletion, RemoteTypeOK, NoCall
  <2>2. CASE UNCHANGED remote
    BY <1>0, <1>8, <2>2 DEF CheckCompletion, RemoteInv, RemoteTypeOK, OwnId, NoAbandonedSession, Active
  <2>3. CASE Active(i) /\ remote' = [remote EXCEPT ![i].completed = TRUE]
    <3>1. remote[i] \in RemoteSession
      BY <1>0, <2>1, <2>3, ActiveSession
    <3>2. [remote[i] EXCEPT !.completed = TRUE] \in RemoteSession
          /\ [remote[i] EXCEPT !.completed = TRUE].page = remote[i].page
      BY <3>1 DEF RemoteSession
    <3>3. RemoteTypeOK'
      BY <1>0, <1>8, <2>1, <2>3, <3>2 DEF CheckCompletion, RemoteTypeOK
    <3>4. OwnId' /\ NoAbandonedSession'
      BY <1>0, <1>8, <2>1, <2>3, <3>2, <3>3, TouchedInv DEF CheckCompletion, RemoteTypeOK, RemoteInv
    <3> QED BY <3>3, <3>4 DEF RemoteInv
  <2> QED BY <1>8, <2>2, <2>3 DEF CheckCompletion
<1>9. ASSUME NEW c \in Calls, UpdateScreenshot(c) PROVE RemoteInv'
  <2> DEFINE i == inFlight[c].id
             p == inFlight[c].page
  <2>1. i \in Ids /\ p \in Searches
    BY <1>0, <1>9 DEF UpdateScreenshot, RemoteTypeOK, NoCall
  <2>2. CASE UNCHANGED remote
    BY <1>0, <1>9, <2>2 DEF UpdateScreenshot, RemoteInv, RemoteTypeOK, OwnId, NoAbandonedSession, Active
  <2>3. CASE Active(i) /\ remote' = [remote EXCEPT ![i].picture = p]
    <3>1. remote[i] \in RemoteSession
      BY <1>0, <2>1, <2>3, ActiveSession
    <3>2. [remote[i] EXCEPT !.picture = p] \in RemoteSession
          /\ [remote[i] EXCEPT !.picture = p].page = remote[i].page
      BY <2>1, <3>1 DEF RemoteSession
    <3>3. RemoteTypeOK'
      BY <1>0, <1>9, <2>1, <2>3, <3>2 DEF UpdateScreenshot, RemoteTypeOK
    <3>4. OwnId' /\ NoAbandonedSession'
      BY <1>0, <1>9, <2>1, <2>3, <3>2, <3>3, TouchedInv DEF UpdateScreenshot, RemoteTypeOK, RemoteInv
    <3> QED BY <3>3, <3>4 DEF RemoteInv
  <2> QED BY <1>9, <2>2, <2>3 DEF UpdateScreenshot
<1>10. ASSUME NEW c \in Calls, NEW i \in Ids, NEW kind \in {"check", "refresh"}, BeginCall(c, i, kind)
       PROVE  RemoteInv'
  BY <1>0, <1>10, ActiveSession DEF BeginCall, RemoteInv, RemoteTypeOK, OwnId, NoAbandonedSession, Active, RemoteSession
<1>11. CASE UNCHANGED remoteVars
  BY <1>0, <1>11 DEF remoteVars, RemoteInv, RemoteTypeOK, OwnId, NoAbandonedSession, Active
<1> QED BY <1>1, <1>2, <1>3, <1>4, <1>5, <1>6, <1>7, <1>8, <1>9, <1>10, <1>11 DEF RemoteNext

-----------------------------------------------------------------------------
\* However searches that share an id open, overwrite and close each other's
\* sessions, and whatever checks and refreshes are still under way, no session
\* is left whose search no longer waits for it.
THEOREM NoSessionAbandoned == RemoteSpec => []NoAbandonedSession
<1>1. RemoteInv => NoAbandonedSession
  BY DEF RemoteInv
<1> QED BY <1>1, RemoteInitInv, RemoteStepInv, PTL DEF RemoteSpec
=============================================================================
