--------------------------- MODULE AccountRecords ---------------------------
(***************************************************************************)
(* An account is kept twice: a row of xianyu_accounts and, once it was     *)
(* started, an entry of the runtime registry (app/runtime/                 *)
(* account_registry.py).  The routers accounts.py, account_compat.py and   *)
(* runtime.py and the login service write one, the other or both; the      *)
(* registry is lost with the process.  A handler is one step except        *)
(* refresh_account_cookie, which awaits between its check and its write.   *)
(***************************************************************************)
EXTENDS FiniteSets

CONSTANTS AccountIds, Cookies, NoRecord

ASSUME RecordsAssumption == NoRecord \notin [cookie : Cookies, enabled : BOOLEAN]

VARIABLES
    row,         \* account -> its row, NoRecord without one
    entry,       \* account -> its registry entry
    backup,      \* account -> the row in the file last exported
    refreshing,  \* accounts whose refresh_account_cookie awaits the service
    parted       \* history: the fields in which row and entry may differ, see Agree

recordVars == <<row, entry, backup, refreshing, parted>>

Fields == {"cookie", "enabled"}
Records == [cookie : Cookies, enabled : BOOLEAN]

RecordsInit ==
    /\ row = [a \in AccountIds |-> NoRecord]
    /\ entry = [a \in AccountIds |-> NoRecord]
    /\ backup = [a \in AccountIds |-> NoRecord]
    /\ refreshing = {}
    /\ parted = [a \in AccountIds |-> {}]

-----------------------------------------------------------------------------
\* add_account; 409 when the id has a row
AddRow(a, r) ==
    /\ row[a] = NoRecord
    /\ row' = [row EXCEPT ![a] = r]
    /\ UNCHANGED <<entry, backup, refreshing, parted>>

\* The rows of some accounts change behind the registry's back.
PartAll(who) == parted' = [a \in AccountIds |-> IF a \in who /\ entry[a] # NoRecord THEN Fields ELSE parted[a]]

\* remove_account: the entry stays
RemoveRow(a) ==
    /\ row[a] # NoRecord
    /\ row' = [row EXCEPT ![a] = NoRecord]
    /\ PartAll({a})
    /\ UNCHANGED <<entry, backup, refreshing>>

\* clear_table of xianyu_accounts
ClearTable ==
    /\ row' = [a \in AccountIds |-> NoRecord]
    /\ PartAll(AccountIds)
    /\ UNCHANGED <<entry, backup, refreshing>>

\* export_backup, and import_backup: the database file is replaced
ExportBackup ==
    /\ backup' = row
    /\ UNCHANGED <<row, entry, refreshing, parted>>

ImportBackup ==
    /\ row' = backup
    /\ PartAll(AccountIds)
    /\ UNCHANGED <<entry, backup, refreshing>>

-----------------------------------------------------------------------------
\* A field written to the row, when there is one, and to the entry, when there is one.
Written(table, a, f, v) ==
    IF table[a] = NoRecord THEN table ELSE [table EXCEPT ![a] = [@ EXCEPT ![f] = v]]

WriteRowOnly(a, f, v) ==
    /\ row' = Written(row, a, f, v)
    /\ parted' = [parted EXCEPT ![a] = IF row[a] = NoRecord THEN @ ELSE @ \ {f}]
    /\ UNCHANGED entry

WriteBoth(a, f, v) ==
    /\ row' = Written(row, a, f, v)
    /\ entry' = Written(entry, a, f, v)
    /\ parted' = [parted EXCEPT ![a] = IF row[a] = NoRecord THEN @ ELSE @ \ {f}]

\* _update_account_cookie, behind the cookie routes; 404 without a row
UpdateAccountCookie(a, c) ==
    /\ row[a] # NoRecord
    /\ WriteBoth(a, "cookie", c)
    /\ UNCHANGED <<backup, refreshing>>

\* update_account_status with _set_account_enabled
UpdateStatus(a, on) ==
    /\ row[a] # NoRecord
    /\ WriteBoth(a, "enabled", on)
    /\ UNCHANGED <<backup, refreshing>>

\* _persist_login_to_db does not look at the number of rows it changed
PersistLogin(a, c) ==
    /\ WriteBoth(a, "cookie", c)
    /\ UNCHANGED <<backup, refreshing>>

RefreshBegins(a) ==
    /\ row[a] # NoRecord /\ a \notin refreshing
    /\ refreshing' = refreshing \cup {a}
    /\ UNCHANGED <<row, entry, backup, parted>>

\* The service answered (or raised: 502); 404 when the row went meanwhile.
RefreshEnds(a, c) ==
    /\ a \in refreshing
    /\ refreshing' = refreshing \ {a}
    /\ \/ row[a] # NoRecord /\ WriteBoth(a, "cookie", c)
       \/ UNCHANGED <<row, entry, parted>>
    /\ UNCHANGED backup

\* start_account: the registry first (a new entry copies the row, an old one
\* keeps its cookie), then the UPDATE, which may fail.
StartAccount(a) ==
    /\ row[a] # NoRecord
    /\ entry' = [entry EXCEPT ![a] = IF @ = NoRecord THEN [row[a] EXCEPT !.enabled = TRUE]
                                     ELSE [@ EXCEPT !.enabled = TRUE]]
    /\ \/ /\ row' = [row EXCEPT ![a].enabled = TRUE]
          /\ parted' = [parted EXCEPT ![a] = IF entry[a] = NoRecord THEN {} ELSE @ \ {"enabled"}]
       \/ /\ parted' = [parted EXCEPT ![a] = @ \cup {"enabled"}]
          /\ UNCHANGED row
    /\ UNCHANGED <<backup, refreshing>>

\* stop_account: disable_account when there is an entry, then the UPDATE
StopAccountRowOnly(a) ==
    /\ row[a] # NoRecord
    /\ row' = [row EXCEPT ![a].enabled = FALSE]
    /\ parted' = [parted EXCEPT ![a] = @ \ {"enabled"}]
    /\ UNCHANGED <<entry, backup, refreshing>>

StopAccount(a) ==
    /\ row[a] # NoRecord
    /\ \/ WriteBoth(a, "enabled", FALSE)
       \/ /\ entry[a] # NoRecord
          /\ entry' = Written(entry, a, "enabled", FALSE)
          /\ parted' = [parted EXCEPT ![a] = @ \cup {"enabled"}]
          /\ UNCHANGED row
    /\ UNCHANGED <<backup, refreshing>>

\* The process restarts: the registry is empty and no handler is under way.
Restart ==
    /\ entry' = [a \in AccountIds |-> NoRecord]
    /\ refreshing' = {}
    /\ parted' = [a \in AccountIds |-> {}]
    /\ UNCHANGED <<row, backup>>

RecordsNext ==
    \/ \E a \in AccountIds :
          \/ \E r \in Records : AddRow(a, r)
          \/ RemoveRow(a)
          \/ \E c \in Cookies : UpdateAccountCookie(a, c) \/ PersistLogin(a, c) \/ RefreshEnds(a, c)
          \/ \E on \in BOOLEAN : UpdateStatus(a, on)
          \/ RefreshBegins(a) \/ StartAccount(a) \/ StopAccount(a)
    \/ ClearTable \/ ExportBackup \/ ImportBackup \/ Restart

RecordsSpec == RecordsInit /\ [][RecordsNext]_recordVars

-----------------------------------------------------------------------------
RecordsTypeOK ==
    /\ row \in [AccountIds -> Records \cup {NoRecord}]
    /\ entry \in [AccountIds -> Records \cup {NoRecord}]
    /\ backup \in [AccountIds -> Records \cup {NoRecord}]
    /\ refreshing \subseteq AccountIds
    /\ parted \in [AccountIds -> SUBSET Fields]

\* list_runtime_accounts shows the entry's switch and the row's account: the
\* two agree in every field except those in which a removal, an import, a
\* cleared table or a failed UPDATE has set them apart since both were last
\* written together.
EntryAgrees ==
    \A a \in AccountIds :
        row[a] # NoRecord /\ entry[a] # NoRecord =>
            \A f \in Fields \ parted[a] : row[a][f] = entry[a][f]
=============================================================================
