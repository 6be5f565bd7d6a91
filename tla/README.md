# Verification of xianyu-manager

TLA+ modules, TLC configurations and TLAPS proofs for xianyu-manager, a FastAPI
application with one administrator that logs Xianyu (Goofish) accounts in with a
browser, solves the sliders it meets, keeps a message connection per account,
answers buyers and delivers goods automatically. The models are written from the
code; where a comment or a docstring promises something else, the difference is a
finding (section 5).

| module | models | source |
|---|---|---|
| `SliderSlots` | the table of running slider browsers: the abstract specification of what callers may do to it | `utils/xianyu_slider_stealth.py` (`SliderConcurrencyManager`) |
| `PasswordLogin` | a password login: session, task, browser thread, slots, stored cookies; composes and implements `SliderSlots` | `app/services/login_service.py`, `utils/xianyu_slider_stealth.py`, `app/api/routers/accounts.py`, `account_compat.py` |
| `BrowserLogin` | what such a login does inside its browser, from the launch to the last finally clause | `utils/xianyu_slider_stealth.py` (`login_with_password_playwright`) |
| `SliderSolve` | the attempts of one slider: find, drag, decide, confirm, record | `utils/xianyu_slider_stealth.py` (`solve_slider`) |
| `StrategyWeights`, `SliderHistory` | what is learnt from drags, in memory and in files | the same file |
| `WsClient` | the connection of an account: connect, disconnect, heartbeat, background loop | `app/runtime/ws_client.py` |
| `MessagePipeline` | the bounded priority queue with its workers and the deduplicator | `app/runtime/message_pipeline.py`, `dedupe.py` |
| `AdminLogin` | the administrator's login and its rate limiter | `app/auth/rate_limiter.py`, `app/api/routers/auth.py` |
| `AccountRecords` | row and registry entry of an account under every route that writes one | `app/api/routers/accounts.py`, `account_compat.py`, `runtime.py`, `app/runtime/account_registry.py` |
| `QrLogin` | the QR login manager: monitor, verification page, expiry, sweep | `utils/qr_login.py` |
| `CaptchaRemote` | remote control of a captcha and the search that waits for it | `utils/captcha_remote_control.py`, `utils/item_search.py` |
| `Rows` | a table with an INTEGER PRIMARY KEY under INSERT and DELETE, shared by the next two | `app/db/schema.py`, the routes that insert and delete |
| `Delivery` | cards and delivery rules, and the card chosen | `app/api/routers/shipping.py`, `app/services/shipping.py` |
| `Replies` | reply rules, and the answer chosen | `app/api/routers/replies.py`, `app/services/reply_policy.py` |
| `OrderFetcher` | the fetch of an order's page: cache, lock, browser, retries | `utils/order_detail_fetcher.py` |
| `OrderParse` | what is told of an order from several sources | the same file |
| `*_proofs` | theorems for every value of the constants (section 4): `Slider_proofs` about `SliderSlots`, `StrategyWeights`, `SliderHistory` and `SliderSolve`; `BrowserSessions_proofs` about `BrowserLogin` and `QrLogin`; `Tables_proofs` about `AccountRecords`, `Rows`, `Delivery`, `Replies` and `CaptchaRemote`; `Orders_proofs` about `OrderFetcher` and `OrderParse`; the others about the module they are named after | |
| `MC*` | values of constants that a `.cfg` cannot write down, and the composites `MCTables` and `MCBrowsers` | |

## 1. The system

### Where things run

One asyncio event loop runs the HTTP handlers and every background task. A
coroutine is interrupted only where it awaits something that is not ready, so
the models take the code between two suspensions as one step. Browser work of the
slider runs on threads of the default executor (`asyncio.to_thread`) and
interleaves with everything; what a thread does under one acquisition of a lock
is one step. Durable state is in SQLite, with one connection and one transaction
per handler (`app/db/connection.py`), and in a few JSON files that the slider
rewrites in place; everything else is process-wide dictionaries and objects and
dies with the process.

### Components

State, operations, what makes each correct. `PROJECT.json` gives the status and
what is left out of each.

- **Slider concurrency manager**. `active_instances` by user id and a
  `waiting_queue` under one lock. At most `SLIDER_MAX_CONCURRENT` browsers and at
  most one per account: a suffix of an underscore and ten or more digits is stripped
  from an id, so ids that differ only in it are one account. The look that
  `wait_for_slot` takes reserves nothing.
- **Login service**. Sessions with a status, a task per session, a thread that
  takes a slot, drives a browser and reports a needed verification by a callback.
  Cancelling a task does not stop its thread. Correct when a cancelled login
  stores nothing, an answer is never taken back, a slot is always given back and
  every login comes to an answer.
- **Password login in the browser**. The body of that thread: launch, navigation,
  form, looks for sliders and verification pages, waiting for the user, probes of
  the login state, the cookies, and nested clauses that close and restore. Correct
  when, wherever it raises, the slot, the browser, the object's own page and its
  refresh mode are put right, cookies come from a context found logged in, and
  the call ends.
- **Slider solving**. Up to three attempts on a page that changes under them,
  statistics and histories that later drags learn from. Correct when each attempt
  is recorded once, a success rests on what its own attempt saw, what is learnt
  belongs to the drag it names, no strategy is starved, and a restart costs no
  more than was not saved.
- **WebSocket client**. A state, a stop event, a heartbeat task and a runner task.
  `disconnect` and `stop_background` await tasks they cancelled and then assign
  the fields, whatever happened meanwhile. Correct when a connected client beats,
  exactly once, and a stop comes back and leaves nothing running. The transport is
  a stub in the source.
- **Message pipeline and deduplicator**. A bounded priority queue, worker tasks, a
  table of recently seen ids. Correct when `join` counts what is unfinished
  through duplicates, failures and cancellation, a stop ends all the workers, and
  a message is handled again only for a reason.
- **Admin login and sessions**. Fixed windows of failures per address and per user
  name, blocks and locks, a blacklist, a sweep of all records on every request.
  Correct when guessing is bounded over every stretch of time, not only over the
  limiter's own windows, and when no step shortens a block.
- **Account records**. A row and, since a start, a registry entry, written by
  logins, by the account routes, by start and stop, by table clearing and backup
  import. Correct when the copies agree but for the events that set them apart.
- **QR login manager**. A monitor, a page task, status queries and a sweep all
  write one session. Correct when success is final, no page or picture outlives
  its session unnoticed, and the monitor ends. No module of `app/` calls it.
- **Captcha remote control**. Sessions by an id that searches share, handlers that
  await the browser between look-up and use.
- **Delivery, reply policy**. Tables edited by separate routes and a query over
  them; row ids are given again.
- **Order details**. Calls for one order share a lock; each drives a browser that
  may die and is replaced. Amount, specs and status are put together from
  responses, elements and text.
- **Item search, token refresh, captcha bridge, runtime supervisor, order status,
  AI reply, item polish, system, upload and stream routes, protocol and signing,
  helpers, frontend**: section 6.

### How they interact

An HTTP request creates a login session, whose task hands a job to the thread
pool. The job competes for a slot in the one table all sliders share
(`PasswordLogin` over `SliderSlots`), logs in (`BrowserLogin`), and on its way
solves sliders (`SliderSolve`), which read and write weights and histories
(`StrategyWeights`, `SliderHistory`). The task writes the cookie to the account's
row and then to the registry entry, both of which the account routes also write
(`AccountRecords`). The WebSocket client hands raw events to the pipeline and the
pipeline's handler calls delivery and reply services, wired up by callbacks that
are stubs. An item search that meets a captcha opens a remote session and waits.

### What is hard here

Cancellation that stops a task and not its thread; releases that name an account
and not an owner; fields assigned after an await; a cancellation swallowed by
whoever awaits another cancelled task, or that meets a result already there;
sessions and rows whose ids are shared or given again; a clock read several times
in one request; a browser that raises at any step under four nested clauses;
statistics written in place. `PROJECT.json` lists each hazard at its line with
the property that covers it, or with what is known about it when none does.

## 2. The modules and the code

Common to all of them:

- A step is the code between two suspensions (coroutines) or under one lock
  (threads). A variable such as `step`, `at` or `wpc` says where a coroutine or
  thread stands.
- Data that no property tells apart is a model value: a cookie string is named by
  where it came from, a message by its identity with a priority and perhaps no id,
  a page by what it shows.
- A page or an external service is an actor of its own or a free choice at each
  look. Whatever the code does not guard may raise.
- Some definitions stand beside the code's as *wrong variants*: what a plausible
  edit would leave there. `PROJECT.json` names, for every property of a passing
  run, the variant that breaks it. They take no part in a specification.
- History variables are named as such and never decide what the code does.

**SliderSlots.** `active` is `active_instances`, `waiting` is `waiting_queue`: its
order is never read and an id is entered once, so a set. Every method runs under
`instance_lock` and is one action; `wait_for_slot` takes the lock once per look.
`PureId` is `_extract_pure_user_id`, many-to-one.

**PasswordLogin.** One session is three things: the record (`status`), its task
(`task`, `cancelling`), and its job on a thread (`thread`, `outcome`, `handle`).
Requests are `CreateSession`, `CancelSession` and the account routes that touch a
cookie or a row. `StartTask`, `FinishTask`, `CancelTask` and `DropTask` are the
task around its await of `asyncio.to_thread`; `CancelTask` also when the thread
has already returned. The thread polls for a slot, registers, logs in and ends in
two nested `finally` blocks that each unregister; `RequireVerification` is the
callback that writes the session from the thread. `active` and `waiting` are those
of `Slots == INSTANCE SliderSlots`. What happens in the page is reduced to how it
ends; `BrowserLogin` is that part.

**BrowserLogin.** `step` is the place in `login_with_password_playwright`; `Leave`
is a `return` or an exception inside the inner `try`, after which `Restore`,
`Close`, `Stop` and `Release` are the clauses, each part of which may raise in
turn. `DetectThen` is `_detect_qr_code_verification` with the place it returns to.
What the page shows is chosen at every look. `LateLook` is the look that reads
`active_page` before it is assigned (finding 6). `SolveInFrames` and
`SolveAfterPress` are calls of `solve_slider`, taken as one step each.

**SliderSolve.** `shown` is where the page shows the slider and the page may move,
remove or show it again between any two steps; `remembered`, `feedback`, `drag`
are the object's attributes, which live on from one call to the next; each carries
a history of the call and attempt that set it. A caller may set or clear
`remembered` between calls. Verification is in the order of the code's four looks;
`Accept` is where a success is decided and `Raises` the handler of an attempt.
`AwaitCookies` waits for a cookie (`refreshed`), then asks the context, then
`SoftSuccess`: that look picks a page of its own (`_select_monitor_page`) and takes
what it cannot query for absent, so in the model it may see no slider wherever one
is shown, and then takes complete cookies or the word in `feedback` for a success.
`StrategyWeights` counts in ten-thousandths
and rounds down where the code has floats, and its bounds allow for that.
`SliderHistory` names a record by its drag; a crash while a file is rewritten
leaves it `Torn`, which the next read takes for an empty one. It assumes that one
slider of the account runs at a time: a record is a read, an append and a rewrite
without a lock across them. The slot table is there to see to that, and finding 1
shows that it does not always.

**WsClient.** `state`, `stop`, `hb`, `runner` are the fields of the client; `at`
says where a caller or a runner is suspended, `waitOn` which task it awaits in
`_cancel_task`, `leaving` that a `CancelledError` is on its way out. The steps
after an await assign fields as the code does, whatever they hold by then.
`_cancel_task` swallows `CancelledError`, also one aimed at the awaiter itself.

**MessagePipeline.** `queue` with `unfinished` is the `asyncio.PriorityQueue`
(priority, then first in first out), `seen` the deduplicator's table in insertion
order. A worker is `new`, `getting` (inside `wait_for`), `got` (a message delivered
but the worker not yet resumed), `handling`, `cancelled` or `done`. On Python 3.11
`wait_for` returns a result that is already there and drops the cancellation that
came with it, so `StopWorkers` leaves a worker at `got` alone. Time is a tick that
ages every entry; the clock is taken to be monotonic (the code uses `time.time()`).

**AdminLogin.** A request runs without an await from its first look at the limiter
to the record of its outcome, so requests do not interleave; `inHand` is the one
being verified, and the clock may move before `WrongPassword` or `RightPassword`.
An absent record is `BlankRecord`, which every test takes the same way. Counters
stop just past the limits they are compared with. The histories `ipGuesses` and
`userGuesses` hold the times of the wrong passwords within the last window;
`ClockTick` drops what is out of reach (`Recent`). The delayed answer changes
nothing and is left out; so are session tokens.

**AccountRecords.** Every route is one action; `RefreshBegins` and `RefreshEnds`
are the two halves of `refresh_account_cookie` around its await, `Restart` loses
the registry. `parted` is the history of what the code itself sets apart.

**QrLogin.** The monitor (`MonitorLoop`, `PollAnswered`, `PollOver`, `NapOver`),
the page task (`PageStart` to `PageClosed`, cancelled at any of its awaits), the
status query and the sweep. Ages are 0, 1 and 2, before 300 s, before 600 s and
after. An answer is one of the outcomes the code tells apart.

**CaptchaRemote.** A call of `check_completion` or `update_screenshot` takes the
page of a session (`BeginCall`) and later writes to whatever session the id has
then. `IdOf` may map all searches to one id, as the source does (`"default"`).

**Delivery, Replies.** One action per route. A new row's id is one more than the
largest in use, as SQLite gives it, so ids come back; `serial` and `meant` tell
incarnations of a card apart. `UpdateCard` and `Recard` check what the routes check.
The join and the resolve are operators, `Joined`, `ResolveRule`, `ResolveReply`;
`Served` is the serial of the card an order is served with, `RulesOf` an account's
own rules for an item, whether they join or not.

**OrderFetcher, OrderParse.** A call is a record with its place and its fetcher's
browser; `Ensure` is the browser check that closes a dead browser and launches
another, `Goto` the retries, `lock` and `queue` the `asyncio.Lock` of the order. A
row is written by whoever asked (`StoreRow`). Rows are read through `db_manager`,
which is no module of the repository and may raise: outside the lock that counts as
no row (`CallFetch`), under it the call ends without a result (`LookAtRow`). As the
repository stands the import fails, so a call that is not forced launches a browser
and returns None. `OrderParse` parses one order in one
step per kind of data, over all combinations of sources.

## 3. What each run checks

| run | shows | states |
|---|---|---|
| `login_cancel` | three concurrent logins of one account, any cancelled at any point, the account removed, added and edited meanwhile: a cancelled login never stores its cookie, an answer implies the thread has stopped, an answer is never taken back | 702,964 |
| `login_slots` | two ids that are one account, under fairness: the login takes only the steps of `SliderSlots`, every slot comes back, every login comes to an answer | 165,792 |
| `ws_mixed` | callers of connect/disconnect and of the background loop together: a connected client with nobody in between has a live heartbeat | 28,746 |
| `pipeline` | two workers, started and stopped by one caller, three ids and a message without one, a queue of two, a table of two: exact counting, complete shutdown, no repetition without a reason, stop and join come back | 656,832 |
| `tables` | admin login, captcha sessions, account records, delivery, replies, slots, weights, histories and the parse of an order | 684,166 |
| `browsers` | QR login, slider solver, password login in the browser, order fetch and the background client, under fairness | 192,929 |
| `login_two_browsers`, `ws_two_heartbeats`, `ws_no_reconnect`, `captcha_completion`, `solver_history`, `late_slider` | findings 1 to 6 | |

`tables` and `browsers` are composites of components that share no state:
`component`, chosen initially, says which one runs, and the others rest. The states
are the sum and not the product of the components', and each component's properties
are those it would have alone. The composites do not check deadlock: an order that
is parsed, a limiter at `MaxTime` or a history at `MaxDrags` has nothing more to do.
The other passing runs do check it.

The properties of `tables`:

- `SlidingBounds`: at most `2 * IpMax - 1` wrong passwords of an address in any
  stretch of `IpWindow`, and likewise per user name, although the windows are
  fixed, swept and looked at with three readings of the clock. `BlocksHold`: no
  step shortens a running block.
- `NoAbandonedSession`: searches that overwrite and close each other's sessions
  leave none behind.
- `EntryAgrees`: row and entry differ only in what the code has set apart.
- `RulesFitTheirCards`, `OwnEditsDecide`: no rule comes to name a later card with
  the same id, and the card an account is served with changes only by an edit of its
  own rules for the item or by the loss of a card one of them names, whatever else is
  edited and whichever ids are given again. `LowerRanksAreHidden`: an edit of a lower rank never changes an
  answer of a higher one.
- `SlotLimits`: never more than the limit, never two ids of one account, with four
  ids of which two are one account and a limit of two.
- `NoStrategyStarves`, `RestartCosts`, `LearnsFromTheLatest`: weights keep the share of
  one lower bound beside two upper ones through clamping, smoothing and normalisation;
  a restart costs exactly the results since the last whole save, and every result ever
  recorded when a later save tore the file, as `open(..., 'w')` empties it first;
  drags are modelled on the newest successes.
- `SpecsAreSound`: no refused text is told as a spec, and no second without a first.

The properties of `browsers`:

- `PagesAccountedFor`, `NoOrphanScreenshot`, `QrSuccessIsFinal`, `MonitorEnds` of the
  QR login.
- `OneRecordPerAttempt`, `SuccessIsItsOwn`, `LearnsFromItsOwnDrag`, `SolveReturns`
  of the slider solver, over two calls on one object. A success rests on a look of
  its own attempt, which was no refusal; without a valid login it was a look at a
  frame in which that attempt found the slider, and with a cookie baseline a passing
  look alone is not enough. That the slider *is* gone is not claimed: the code does
  not make sure of it.
- `PutRight`, `CookiesAreProbed`, `LoginReturns` of the login in the browser.
- `NoBrowserLeft`, `FetchesReturn` of the order fetch.
- `OneHeartbeat`, `StoppedIsQuiet`, `StopComesBack` of a client in the background.

### Bounds, and why they are enough

- *Sessions*: three in `login_cancel` because a release by user id can hit the
  registration of a second login and let a third one in; two in `login_slots`
  because liveness of a login depends on one competitor, and symmetry cannot be
  used there. The safety properties are proved for any number.
- *Slots and pool*: two of each, so the account exclusion is what holds a login
  back and not the limit; in `login_slots` the two ids collide by account. The
  limit itself is `tables` and the proof.
- *WsClient*: task objects are reused once they have ended and nobody refers to
  them. `RoomForHeartbeat` keeps a caller from starting a connection when there
  would be no task object left for a suspended one: five heartbeats with three
  processes leave room for every overlap. `MaxBackoffs` saturates the counter,
  which nothing compares with.
- *Pipeline*: `MaxSeen` = 2 with three ids makes the table overflow with an id to
  spare; a queue of two has an order and a limit; TTL = 1 has a tick inside the
  window and one past it. `Tick` is free: any number of events fall in one tick.
- *AdminLogin*: two addresses and the administrator's name beside the empty one;
  limits of two, a blacklist at four, windows of one and two and blocks of two and
  three ticks, in the order of the code's (a window is shorter than its block);
  six ticks let a block begin, run out and be followed by another. `BlocksHold` is
  proved for all of them.
- *CaptchaRemote*: three searches under one id and two calls, so that a call may be
  begun for one search, outlive a second and end on a third.
- *AccountRecords*: accounts are independent of each other, so one, with two
  cookies; proved for any number.
- *Delivery, Replies*: two accounts, an item, two cards and two rules; `SerialLimit`
  3 lets the id of a deleted card come back. Two keywords in each table, two patterns.
- *QrLogin*: one session, since sessions share nothing but the sweep; three page
  tasks, for one abandoned, one closing and one new. Time stops at age 2, past every
  limit.
- *SliderSolve*: `MaxRetries` 3 as in the code, two calls on one object, the page's
  main frame and one other. *BrowserLogin*: three attempts at the address as in the
  code, three rounds of waiting for 45: the first, one between and the last.
- *StrategyWeights*: the code's ten-thousandths; four results and one sample, where
  the code wants more before it adjusts: each adjustment starts from weights an
  earlier one left. *SliderHistory*: limits of three and two, six drags, one slider
  of the account at a time.
- *OrderFetcher*: two calls for one order, the code's two retries. *OrderParse*: two
  specs, one refused text, amounts to two.
- `StopShutsDown`, `StopEnds`, `OneHeartbeat` and `StopComesBack` are checked for
  one caller of start/stop. With two overlapping callers they do not hold: one
  caller empties the field another has filled meanwhile. The code's own use has
  one owner per object, so the hazard list records this and the passing runs
  state the single-owner promise; for the heartbeat it is finding 2.

### Fairness

Safety runs use a specification without any. The others assume

- weak fairness for steps of tasks, coroutines and threads, each one on its own:
  the event loop runs every ready coroutine in turn, its timers fire, and the
  operating system runs every thread;
- weak fairness for `LoginReturns` and for the end of a message handler: every wait
  inside the login has a timeout (`BrowserLogin` shows that the call then ends); a
  handler that never returned would hold its worker for ever, and no property is
  claimed for it;
- strong fairness for `ThreadStart`, since a queued job loses its thread to others
  again and again but the executor's queue is FIFO, and for `WaitTimeout`, since
  the poll that is left at `SLIDER_WAIT_TIMEOUT` is interrupted by looks at the
  table but the clock is not;
- `QrFairness`: the monitor and each page task go on, because every request, page
  operation and sleep has a timeout, and time passes (`Age`);
- `SolveFairness`, `BrowserLoginFairness`, `FetchFairness`: the call itself goes on,
  since each browser operation returns or raises within its timeout; the page is not
  assumed to do anything, nor a browser to die or to live;
- no fairness for anybody's request: nobody has to log in, cancel, connect, stop or
  enqueue, and in the pipeline time need not tick.

In `browsers` a behaviour is assumed fair to the component that runs in it: the
disjunction `BrowserFairness`.

## 4. What is proved

`tlapm` checks these for every value of the constants that the named assumptions
of the modules allow. Every safety property of the passing runs (invariants and
action properties) is stated by a theorem. Few of them are inductive by themselves;
what each rests on:

- **Slots** (`Slider_proofs`): `SlotBound`. Limit and exclusion are inductive with the
  type (`SlotSafety`): a registration adds exactly one id, which has no namesake, to
  a set whose cardinality was below the limit.
- **Password login** (`PasswordLogin_proofs`): `LoginTypeCorrect`,
  `CancelledLoginsNeverPersist`, `SettledLoginsStopped`, `SettledLoginsStaySettled`.
  That a cancelled login stores nothing needs to know that an acknowledged
  cancellation is still on its way to the task or has ended it (`CancelReachesTask`),
  that a stored cookie goes with the answer success (`StoredMeansSuccess`), and that a
  cancelled session gets no final answer any more (`AckedNotSettled`), although the
  verification callback may change its status at any time; which needs a final
  answer to imply that the thread has returned (`SettledAfterJob`), which needs task,
  job and outcome to keep step. `LoginImplementsSlots` is the refinement: every step
  of a login is a step of `SliderSlots` or leaves the table alone. So the table is
  never wrong about who is registered; in finding 1 it is the registration that is
  given up too early.
- **Admin login** (`AdminLogin_proofs`): `BlocksAreHeld`, from `LimiterInvariant`. The
  sweep drops a whole record whenever its window has passed unless its block still
  runs, but not for blacklisted addresses: those must hold no block (`ListedFree`),
  which is so because an address is listed *instead of* being blocked and only when it
  is free. A success drops two records, which must be free too: they were when the
  request was let in, and nothing is recorded before it is verified (`InHandFree`).
  `AdminNamed` is used here: the administrator has a name, so the lock of that name
  was looked at.
  `GuessesAreSparse` bounds wrong passwords in *every* stretch of a window. A record
  is tied to the sequence of guesses (`Tallied`): the guesses since a period began are
  at most its count, those before it lie as sparse as `m` in a window before its
  start, and a period with its fill blocks for longer than the window (`Filled`), so
  that nothing is in reach when the next begins (`PeriodOver`). One window can meet
  the ends of two periods and no more, hence the factor two. The failures that
  refused requests add to a user's count, and the record that is counted into after
  its check, only make the count too high. `IpWindow < IpBlock` and
  `UserWindow < UserLock` are what the argument needs and what the code has.
- **Account records** (`Tables_proofs`): `EntriesAgree`, `RecordsTypes`. An entry whose
  row is gone has to count as parted in every field, or a row added anew would
  inherit its agreement (`OrphanParted`).
- **Delivery** (`Tables_proofs`): `RulesFit` is inductive with the shape of the tables,
  once a new id is known to be in no row (`FreshId`, from the maximum of a finite set,
  `LargestOf`); that a rule survives no card is the ON DELETE CASCADE of the schema.
  `OwnEdits`, an action property, takes a step that leaves the account's rules for an
  item alone and takes no card they name: then the same rows join before and after
  (`SameJoin`; a new card cannot take the id a rule of the account names, since that
  card is still there), the order of the query is a strict total one (`BeforeOrders`),
  so both states have the same first row (`FirstOf`, by well-foundedness of strict
  inclusion, and `FoundIsFirst`), and a card that stays keeps its serial
  (`SerialsStay`).
- **Replies** (`Tables_proofs`): `HigherRanksAnswer`, an action property, by cases of
  `ResolveReply`: an answer of a rank reads the tables of that rank and above only.
- **Captcha** (`Tables_proofs`): `NoSessionAbandoned`. A session is stored under the id
  of its own search (`OwnId`), so whoever closes the id closes it, also for others.
- **Orders** (`Orders_proofs`): `BrowsersClosed`, with `Sound` (a browser that answers is
  the one that runs, and there is none before the launch nor after the end), and
  `OneFetchAtATime`: whoever is at work on the page holds the lock (`HoldsLock`), so
  two calls never are. `SpecsTold`: whatever is merged is put through
  `_sanitize_sku_result` last, which makes any pair sound (`SanitizedSound`).
- **Pipeline** (`MessagePipeline_proofs`): `JoinWaitsForTheRest`. `unfinished` is the
  length of the queue plus the cardinality of the workers that hold a message, which
  needs to know where a worker holds one (`HandsMatch`) and that finitely many do. It
  holds for any number of callers. `StopLeavesNoWorker` does not, so it assumes one
  caller (`OneOwner`): then the live workers are those of the list, and once the flag
  is down the caller waits for each of them (`StopInv`). `OnlyForAReason` needs to know
  that the deduplicator's table is oldest first, without repetitions, that an entry
  is as old as the last dispatch of its id (`InOrder`), that the ids dispatched since
  are those behind it (`Followed`), and that an id which is missing though its window
  runs was driven out by `MaxSeen` others (`DrivenOut`).
- **WebSocket client** (`WsClient_proofs`): `ConnectedClientsBeat`, for any callers and
  runners: a connected client beats, or somebody is suspended who will start a
  heartbeat or disconnect, and with the stop event set it is the latter (`BeatInv`).
  `OwnedClientBeatsOnce` and `StopLeavesQuiet` assume one owner of the background loop
  and nobody who connects by hand, as with two they are false (finding 2). At most one
  runner has not ended and it is the client's (`OneRunner`); a heartbeat that has not
  ended is the client's and the client is connected (`OwnHeartbeat`); nobody ever meets
  a heartbeat to replace (`Places`); while the owner stops, the event stays set and the
  runner is on its way out (`StopLasts`), also when its cancellation was swallowed.
- **QR login** (`BrowserSessions_proofs`): `PagesAccounted`, `ScreenshotsSwept`,
  `SuccessIsFinal`. A task that was started is of a session whose monitor was
  (`TasksOfSessions`), and a listed session knows its task from before the task's
  first step to behind its last and has told it nothing (`ListedKnowTheirTask`).
- **Browser login** (`BrowserSessions_proofs`): `LoginPutsRight`, `CookiesProbed`. Four
  conjuncts follow the clauses: the browser has ended, or is out of reach, at every
  release (`BrowserEnded`), the object's own page is in place outside the stretch
  between swap and restore (`OwnPage`), the mode before is kept (`ModeKept`), and each
  of the places cookies come from is behind a probe (`ProbedCookies`).
- **Slider solver** (`Slider_proofs`): `CountedOnce`, `SuccessOwned`, `OwnDragLearnt`.
  While a call runs only failures of earlier attempts are recorded (`Underway`,
  `Ascending`), from the plan of a drag on the object describes this attempt's
  (`DragIsOwn`), and wherever a word of the page
  is acted upon, it is a word of this attempt about a frame of this attempt
  (`VerdictIsOwn`), which holds because the first look of a verification empties the
  feedback and every search that succeeds sets the frame anew.
- **What is learnt** (`Slider_proofs`): `WeightsNeverStarve`: a clamped weight beside two
  others has a share of at least `MinWeight / (2 MaxWeight + MinWeight)`, and an average
  of two numbers above that bound is above it, rounding included; what a try draws
  with adds up to one but for two units of rounding. `WeightsAssumption` asks that
  the code's first weights lie above the bound, as they do for its 0.15 and 0.55.
  `RestartsRollBack`: a whole file holds every result but the unsaved ones. `HistoryIsLatest`:
  every cut and clean-up leaves an end of the history (`NewestIsEnd`, `CleanedIsEnd`),
  an end of an end is an end, and one that ends in the same drag stays one.

TLC finds every one of these invariants true on the instances of the runs.

Only model-checked: liveness (`SlotComesBack`, `LoginSettles`, `StopComesBack`,
`StopEnds`, `JoinEnds`, `MonitorEnds`, `SolveReturns`, `LoginReturns`,
`FetchesReturn`), which is out of the prover's reach, and the counterexamples of
section 5. What recursive data would need is avoided rather than proved: histories
are cut with `SubSeq`, the weights are summed term by term, and no property depends
on a recursive definition.

## 5. Findings

Each is a counterexample of a violation run; the line it quotes is in
`PROJECT.json`.

1. `login_two_browsers`: a cancelled task gives back the slot of its account while
   its thread still drives the browser, so another login of the account opens a
   second browser.
2. `ws_two_heartbeats`: `disconnect()` clears the heartbeat field after its await,
   whatever it holds by then; with overlapping callers two heartbeats go on.
3. `ws_no_reconnect`: after a failed connect and its delay, `run_forever`'s
   `finally` calls `disconnect()`, which sets the stop event, so the loop ends
   instead of trying again.
4. `captcha_completion`: a look at a page that raises counts as an element that is
   not there, and a check marks whatever session its id has by the time it ends: a
   captcha nobody solved is marked completed.
5. `solver_history`: when refresh mode finds the slider gone and the login valid, the
   drag of the previous attempt, recorded as refused, is saved as a success.
6. `late_slider`: a slider noticed in the second look after the login button reads a
   variable this path has not assigned: the call ends with an exception and the
   slider is never tried.

Met on the way, and kept in the models without a run: a full deduplicator forgets an
id inside its window (`RepeatNeedsReason` states what does hold); the verification
callback sets a cancelled session back to `verification_required` (`RequireVerification`);
a failing launch between browser and inner `try` leaves the browser running (`lost`
in `BrowserLogin`); a single spec shown twice on a page is told as two.

## 6. Not modelled, and why

- *run() and slider_patch*: a second path through a slider, with the same attempts
  as `solve_slider` but steps of its own, and a copy of it for another page API.
  *The login by headful browser* is an alternative to `BrowserLogin` without the
  nested clauses. The distances and timings of a drag are arithmetic on floats with
  random numbers and no promise to check.
- *Item search* but for its captcha: one page driven from one coroutine, no state
  between calls. Its constructor takes a slot for the id `default` and keeps it,
  which the hazard list records.
- *Token refresh, captcha bridge*: delegation to an external service and to modelled
  components; the merge of a cookie is a union of two dictionaries. What matters, the
  await between reading and writing the account, is in `AccountRecords`.
- *Order status*: a transition table that the routes do not consult and a lookup that
  normalises a name.
- *Runtime supervisor*: register, cancel, gather, clear over a task list, the shape of
  the workers in `MessagePipeline`; nothing registers a task.
- *Admin session tokens*: a dictionary with an expiry and no second actor.
- *AI reply, item polish, system, upload and stream routes, image and time helpers*:
  one request to a service or one row each. *Protocol and signing*: pure formatting,
  hashing and decoding. *Database*: one transaction per handler, which is one step.
- *Frontend, userscript, deployment*: clients and configuration.

## 7. Running it

In this directory:

    tlc -workers 2 -config PasswordLogin_three.cfg MCPasswordLogin.tla
    tlc -workers 2 -config MCTables.cfg MCTables.tla
    tlapm AdminLogin_proofs.tla

`PROJECT.json` gives the module and the configuration of every run, the wrong
variant for every property, the lines each definition translates, the theorems and
the hazards. The longest run, `pipeline`, takes about two minutes with two workers;
each proof module takes less than two.

## 8. Plan

The modules were written in the order of the table at the top. What would come next:

1. `BrowserLogin` as an implementation of what `PasswordLogin` assumes of its thread:
   constructed, in the browser, inner and outer clause, with `slot` mapped to the
   table; then the theorem that each of its steps is one of the thread or a stutter.
2. An abstract specification of the queue that `MessagePipeline` promises its callers
   (a bag of unfinished messages with enqueue, take, finish), and the step-by-step
   refinement, on top of `HandsMatch` and `JoinWaitsForTheRest`.
3. `run()` of the slider as a second caller of `SliderSolve`'s steps, and the captcha
   bridge and item search as further owners in `SliderSlots`.
4. The parsing and routing of `MessagePipeline`, which decides id and priority of a
   message, as operators.
