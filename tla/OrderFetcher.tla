---------------------------- MODULE OrderFetcher ----------------------------
(* utils/order_detail_fetcher.py: fetch_order_detail_simple and the fetcher   *)
(* it makes. Calls for one order share the order's row and the class-wide    *)
(* lock; each has a browser of its own, which may die at any time and is then *)
(* replaced. What the page says is parsed in OrderParse; here a look finds    *)
(* something or nothing. The rows are written by whoever asked.               *)
EXTENDS Naturals, Sequences

CONSTANTS Fetches,        \* calls of fetch_order_detail_simple, all for one order
          NoFetch,
          GotoRetries     \* max_retries, 2

ASSUME FetchAssumption == NoFetch \notin Fetches /\ GotoRetries \in Nat

VARIABLES
    cached,     \* the order's row is good enough (UseCached of OrderParse)
    lock,       \* _order_locks[order_id]: the holder
    queue,      \* and who waits
    fetch       \* per call: where it is, and its fetcher

fetchVars == <<cached, lock, queue, fetch>>

\* browsers: how many run, those of a failed close not counted; ready: the
\* fetcher's own one answers; listening: its page has the response handler
NewFetch ==
    [at |-> "idle", forced |-> FALSE, tries |-> 0, browsers |-> 0, ready |-> FALSE,
     listening |-> FALSE, result |-> "none"]

FetchInit ==
    /\ cached \in BOOLEAN
    /\ lock = NoFetch /\ queue = <<>>
    /\ fetch = [f \in Fetches |-> NewFetch]

At(f, s) == fetch[f].at = s

\* The call f goes on with the record r.
Goes(f, r) == fetch' = [fetch EXCEPT ![f] = r]

-----------------------------------------------------------------------------
\* fetch_order_detail_simple looks at the row without the lock. The row is in
\* db_manager, which may raise (it is no module of the repository): here that
\* counts as no row.
CallFetch(f) ==
    /\ At(f, "idle")
    /\ \E forced \in BOOLEAN :
        \/ ~forced /\ cached /\ Goes(f, [NewFetch EXCEPT !.at = "done", !.result = "cache"])
        \/ Goes(f, [NewFetch EXCEPT !.at = "init", !.forced = forced])
    /\ UNCHANGED <<cached, lock, queue>>

\* init_browser: launch, context, page, cookies; what was reached stays set.
Launches(r) ==
    {[r EXCEPT !.browsers = @ + 1, !.ready = TRUE], [r EXCEPT !.browsers = @ + 1], r}

InitBrowser(f) ==
    /\ At(f, "init")
    /\ \E r \in Launches(fetch[f]) :
        IF r.ready
        THEN /\ Goes(f, [r EXCEPT !.at = "lock"])
             /\ queue' = Append(queue, f)
        ELSE Goes(f, [r EXCEPT !.at = "close"]) /\ UNCHANGED queue
    /\ UNCHANGED <<cached, lock>>

\* async with order_lock: first come, first served; then the row once more
TakeLock(f) ==
    /\ At(f, "lock") /\ lock = NoFetch /\ Head(queue) = f
    /\ lock' = f /\ queue' = Tail(queue)
    /\ Goes(f, [fetch[f] EXCEPT !.at = "locked"])
    /\ UNCHANGED cached

\* Under the lock, what db_manager raises ends the call without a result.
LookAtRow(f) ==
    /\ At(f, "locked")
    /\ \/ ~fetch[f].forced /\ cached /\ Goes(f, [fetch[f] EXCEPT !.at = "leave", !.result = "cache"])
       \/ ~fetch[f].forced /\ Goes(f, [fetch[f] EXCEPT !.at = "leave"])
       \/ (fetch[f].forced \/ ~cached) /\ Goes(f, [fetch[f] EXCEPT !.at = "ensure"])
    /\ UNCHANGED <<cached, lock, queue>>

\* _force_close_browser forgets page, context and browser, closed or not.
ForceClosed(r) ==
    [r EXCEPT !.browsers = IF @ = 0 THEN 0 ELSE @ - 1, !.ready = FALSE, !.listening = FALSE]

EnsureKeepingOld(r) ==
    IF r.ready THEN {r} ELSE Launches([r EXCEPT !.listening = FALSE])

\* _ensure_browser_ready: a browser that does not answer is closed and replaced.
Ensure(r) ==
    IF r.ready THEN {r} ELSE Launches(ForceClosed(r))

\* A handler for the responses is put on the page, and what was captured is dropped.
Registered(r) == [r EXCEPT !.listening = TRUE]

EnsureReady(f) ==
    /\ At(f, "ensure")
    /\ \E r \in Ensure(fetch[f]) :
        Goes(f, IF r.ready
                THEN Registered([r EXCEPT !.at = "goto"])
                ELSE [r EXCEPT !.at = "leave"])
    /\ UNCHANGED <<cached, lock, queue>>

GotoUncounted(f) ==
    /\ At(f, "goto")
    /\ \/ fetch[f].ready /\ Goes(f, [fetch[f] EXCEPT !.at = "look"])
       \/ \E r \in Ensure(fetch[f]) :
            Goes(f, IF r.ready THEN Registered(r) ELSE [r EXCEPT !.at = "leave"])
    /\ UNCHANGED <<cached, lock, queue>>

\* page.goto, tried again after another status or an error; a closed browser
\* is replaced first. The last failure ends the call.
Goto(f) ==
    /\ At(f, "goto")
    /\ \/ fetch[f].ready /\ Goes(f, [fetch[f] EXCEPT !.at = "look"])
       \/ /\ fetch[f].ready
          /\ Goes(f, IF fetch[f].tries = GotoRetries
                     THEN [fetch[f] EXCEPT !.at = "leave"]
                     ELSE [fetch[f] EXCEPT !.tries = @ + 1])
       \/ /\ ~fetch[f].ready
          /\ \E r \in Ensure(fetch[f]) :
              Goes(f, IF r.ready /\ r.tries < GotoRetries
                      THEN Registered([r EXCEPT !.tries = @ + 1])
                      ELSE [r EXCEPT !.at = "leave"])
    /\ UNCHANGED <<cached, lock, queue>>

\* _is_order_detail_parse_success: an amount, a spec or a status. A page that
\* does not answer shows none of them.
LookAtPage(f) ==
    /\ At(f, "look")
    /\ \/ fetch[f].ready /\ Goes(f, [fetch[f] EXCEPT !.at = "leave", !.result = "page"])
       \/ Goes(f, [fetch[f] EXCEPT !.at = "again"])
    /\ UNCHANGED <<cached, lock, queue>>

\* Nothing at all: reload and look once more; there is a result in any case.
LookAgain(f) ==
    /\ At(f, "again")
    /\ Goes(f, [fetch[f] EXCEPT !.at = "leave", !.result = "page"])
    /\ UNCHANGED <<cached, lock, queue>>

\* The finally clause of the look and the end of the lock
LeaveLock(f) ==
    /\ At(f, "leave")
    /\ lock' = NoFetch
    /\ Goes(f, [fetch[f] EXCEPT !.at = "close", !.listening = FALSE])
    /\ UNCHANGED <<cached, queue>>

\* close(), and by force when a part of it raises
CloseFetcher(f) ==
    /\ At(f, "close")
    /\ Goes(f, [ForceClosed(fetch[f]) EXCEPT !.at = "done"])
    /\ UNCHANGED <<cached, lock, queue>>

\* The caller of a finished fetch stores what it got, and may ask again.
StoreRow(f) ==
    /\ At(f, "done") /\ fetch[f].result = "page"
    /\ cached' \in BOOLEAN
    /\ Goes(f, [fetch[f] EXCEPT !.result = "stored"])
    /\ UNCHANGED <<lock, queue>>

\* The page or its browser goes away.
BrowserDies(f) ==
    /\ fetch[f].ready /\ ~At(f, "done")
    /\ Goes(f, [fetch[f] EXCEPT !.ready = FALSE])
    /\ UNCHANGED <<cached, lock, queue>>

FetchStep(f) ==
    \/ CallFetch(f) \/ InitBrowser(f) \/ TakeLock(f) \/ LookAtRow(f) \/ EnsureReady(f) \/ Goto(f)
    \/ LookAtPage(f) \/ LookAgain(f) \/ LeaveLock(f) \/ CloseFetcher(f)

FetchNext == \E f \in Fetches : FetchStep(f) \/ StoreRow(f) \/ BrowserDies(f)

FetchFairness == \A f \in Fetches : WF_fetchVars(FetchStep(f))
FetchSpec == FetchInit /\ [][FetchNext]_fetchVars /\ FetchFairness

-----------------------------------------------------------------------------
\* A finished call leaves no browser running, however often its browser died
\* and was replaced, so far as closing worked.
NoBrowserLeft == \A f \in Fetches : At(f, "done") => fetch[f].browsers = 0

\* The lock's holder is at work on the page, so every call ends, whatever
\* dies, and the next one gets the lock.
FetchesReturn == \A f \in Fetches : At(f, "lock") ~> At(f, "done") /\ lock # f
=============================================================================
