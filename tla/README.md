# Market Trace: TLA+ models and proofs

Market Trace is a stock-watching and trading program: a Go service (`cmd/mt6`, `internal/`) that
keeps accounts, a watch list and a paper or real brokerage account, with a custody engine that
trades on its own, and an older Python system (`agents/`, `core/`, `backtest/`, `services/`) of
agents that talk over Redis. This directory holds TLA+ models of the parts where state, failure and
concurrency meet, TLC configurations for them, and proofs that TLAPS checks.

## 1. The system

| Component | State | Operations | Interacts with |
|---|---|---|---|
| Paper broker `internal/trading/paper.go` | cash, holdings, orders (in the store) | PlaceOrder, CancelOrder, ProcessPending, Account | store, quote source |
| Store `internal/store/store.go` | users, sessions, watch list, trading state, audits; one JSON file | one locked section per operation; every change rewrites the file | everybody |
| Trading manager and custody `internal/trading/manager.go` | the chosen broker, `custodyMu`, the settings (in the store) | UpdateCustody, RunCustodyOnce, StartCustodyLoop | brokers, analysis, store |
| Gateway client `internal/trading/remote.go` | none; the book is at the broker's | PlaceOrder, CancelOrder, Orders, Account | signed HTTP |
| Device sign-in `internal/auth/deviceqr.go` | requests by id: pending, approved, expired, consumed | Create, Approve, Reject, Poll | server handlers, store |
| Sessions, limits `internal/auth` | token hashes, attempt buckets | start, look up, end; Allow, Reset | server |
| Market data `internal/market` | quote cache, snapshot and k-line caches | Quote, Quotes, Analyze | providers with fallback |
| Circuit breaker `core/circuit_breaker.py` | state, counters, time of the last failure | call | every Python client |
| Chain of language models `core/llm_factory.py` | a breaker for each provider, the opinions of an analysis | invoke | chief analyst, web API |
| Agents `agents/`, bus `core/bus.py` | heartbeats, reports, overrides | handlers, awaits between them | Redis channels |
| Chief analyst `agents/chief_analyst.py` | collected reports, risk state | collect, decide, publish, clean up | the agents |
| Risk agent `agents/risk_agent.py` | the newest report of each agent | checks on every report; override or all-clear | risk manager, chief analyst |
| Risk manager `core/risk_manager.py` | level, counters and history in Redis | record an override, heal, daily reset, suggest a position | risk agent, API |
| Signal, trace and macro agent `agents/` | none beside Redis | read K-lines or macro data, report, cache | providers, chief analyst, API |
| Data providers `data_provider/` | entries in Redis, a breaker | K-lines and macro data, with fallbacks | prefetch, analysis, agents |
| Services `services/` | names, the list of stocks, what is known to be cached | preload, refresh, scan, analyse | providers, API |
| API `api/` | token buckets, the watch list in the database | requests | all of them |
| Python paper trader `core/paper_trader.py` | an account, a JSON file | follow a decision, value, save, load | API |
| Strategies and backtests `backtest/`, `core/strategies.py` | failures in a row in Redis, a runner, one replayer | backtest, evaluate, replay | API, schedule |

`PROJECT.json` lists every component with the files it is made of, those that are left out as well.

What is hard about them:

* **The store's lock is held for one operation at a time.** PlaceOrder looks up a client order id,
  asks for a quote and inserts the order; ProcessPending copies the pending orders, asks for quotes
  and settles; UpdateCustody reads, checks and writes. Other goroutines run in between.
* **Memory first, then the file.** An operation changes the memory and then replaces the file. If
  that fails its caller gets an error, but the change stays, and the next save of anything else
  writes it. A restart goes back to the file.
* **The custody engine acts on what it has read.** Orders are read once per run and only the newest
  200; the gateway's answers can be lost; runs are started by a ticker and by administrators.
* **Awaits.** In the Python service every `await` lets other handlers run, and what is shared is in
  Redis: it is read, changed and written back with nothing to lock it.
* **Layers of caches.** K-lines and lists of stocks are kept by a process and in Redis, under several
  times to live, and one layer is filled from another.

Nothing matches pending paper orders in the background: ProcessPending runs when an account is read
(the account and dashboard pages, and custody at the start of a run and after each order).

## 2. The modules

| Module | Models |
|---|---|
| `PaperLedger` | pure operators of `paper.go`: validation, marketability, fees, what a fill does |
| `AtomicBroker` | the abstract promise of a broker: orders enter, are filled and are closed in one instant each; EXTENDS `PaperLedger` |
| `PaperBroker` | the broker over the store with concurrent callers, failed saves and restarts; EXTENDS `PaperLedger`, implements `AtomicBroker` |
| `PaperBroker_proofs` | the theorems about `PaperBroker` |
| `Custody` | settings, runs and the two kinds of broker as custody meets them |
| `OneTimeTickets` | the abstract promise of a ticket: drawn, approved, taken and turned into one session, or lost |
| `SignIn` | accounts, sessions, QR and WeChat tickets, attempt limits and the handlers over them; implements `OneTimeTickets` |
| `Market` | the caches of market data, the calls that read through them, the journal of analyses |
| `Custody_proofs`, `SignIn_proofs`, `Market_proofs` | the theorems about these three |
| `CircuitBreaker` | the breaker as a record, its methods as operators |
| `LLMChain` | analyses that ask the providers in turn, each behind its breaker; EXTENDS `CircuitBreaker` |
| `ChiefAnalyst` | messages, `_decide_lock`, decisions and their clean-up |
| `ChiefAnalyst_proofs` | the theorems about `ChiefAnalyst` |
| `RiskManager` | the state and the history of overrides in Redis, recorded and healed by several tasks |
| `RiskAgent` | the newest reports, the checks on them and the awaits in between |
| `Heartbeats` | the tasks of an agent, heartbeats that expire, and watchers that report them |
| `Reports` | from K-lines in the cache to the reports of the signal and the trace agent |
| `Macro` | the rounds of the macro agent and the entry they leave for the time between them |
| `Detectors` | what is read from K-lines: anomalies (twice, as in the code) and strategies |
| `Decisions` | index, check of risk, rules, and the decision made of them, by the agents and by the API |
| `BoundedCache` | the abstract promise of a cache: nothing in it is older than a bound |
| `Klines` | preloading, refreshing and analysing over K-lines in Redis; implements `BoundedCache` |
| `Scanner` | the list of all stocks in two layers; implements `BoundedCache` |
| `PaperAccounts` | the paper account of the Python service, its file, restarts |
| `Backtest` | the runner of a backtest bar by bar, plain, optimized and over rolling windows |
| `Strategies` | the failures in a row of a strategy, read and written field by field |
| `Replay` | replays of bars that share one replayer |
| `RateLimits` | the two token buckets of a client |
| `Sizing` | the suggestion of a position by Kelly or equal weights, cut by the level of risk |
| `Watchlist` | requests to add and remove stocks, rows and their ids, names in three places |
| `MCPaperBroker`, `MCCustody`, `MCSignIn`, `MCMarket`, `MCServices`, `MCBackground` | the values of the constants for TLC |
| `Background` | `RiskManager`, `Heartbeats`, `Klines` and `Custody` side by side, with fairness and the constants of all |
| `Background_proofs` | the theorems about the modules in `Background`; those of custody it takes from `Custody_proofs` |
| `Services` | fifteen modules of the Python service side by side, with the constants of all |
| `Services_proofs` | the theorems about the modules in `Services` |
| `Sums`, `Sums_proofs` | the sum of the first values of a function, and lemmas about it |

`Background` and `Services` put several modules into one specification, which one run checks. The modules in them share no state
that is modelled: the code connects them by a message that one sends and another receives, and the
receiving module takes every message as possible. So their product would add nothing, and a variable
`part` says which of them moves; the others stay as they started. Each part is thereby checked in all
its own interleavings, and a property of a part is `part = name => P`.

### PaperBroker

`mem` is `Store.state.Trading` without the custody settings, `disk` what the state file says of it.
Each caller has a record `task[c]`: `pc` says between which two locked sections it stands and the
other fields are its local variables. One locked section is one action:

* PlaceOrder: `Refuse` (validation), `Submit` (validation and the client id lookup), `QuoteOrder` or
  `QuoteFails`, then `FillNow`, `FillRefused` or `Rest` (the `UpdateTrading` callback), and `Audit`
  (RecordAudit, which saves the whole state once more and ignores a failure). `Repeat` is the call
  whose client id is in the book: it is answered at once, without an error, with what the memory says
  of the newest such order (`paper.go:86`), whether or not that was ever saved.
* CancelOrder: `Cancel`, then `Audit`.
* ProcessPending: `StartMatching` (the copy), per order `QuoteMatch` or `SkipMatch`, and `Settle`.
* `Restart`: Open reads the file; calls under way are gone.

Every action that saves takes `ok`, the outcome of the save. Two variables are history, the (order,
status) pairs that callers have been answered with: `acked` those that the file had when they were told,
or got later, and `seen` those that a `Repeat` has told from memory while the file does not have them
yet. A successful save writes the whole memory, so it moves `seen` into `acked`; a restart empties
`seen`, and that is all it takes back. So the properties say of `seen` that the memory does
not contradict it, and of `acked` that neither memory nor file does, for good. The code does take back what is in
`seen`, in two ways: an order enters and its save fails, the caller retries with the same id and is told
of it, and after a restart there is no such order; or a pass fills a saved order and its save fails, a
repeat is told FILLED, and after a restart the order is pending and can be canceled. No line of
the repository promises otherwise, so no run expects a violation here. What `Orders` and `Account` show is read
from memory too, is not an answer to a call that places or cancels, and is not in the history.

Data: prices are whole fen. The fee rates are 3 and 5 per 10000, so in units of 1/10000 fen, which is
also the code's tolerance of 0.000001 yuan, every amount is an integer; rounding of the code's floats
is not modelled. Average cost and market value of a holding are left out: no decision reads them.
`pos[s] = 0` is a holding that the code deletes. A random id is the number `nextId`; it never repeats.

`AtomicBroker` is what this amounts to for a caller who knows nothing of quotes, copies and locks:
`Promised == INSTANCE AtomicBroker` maps its `book` to `mem`, its `saved` to `disk`, its `told` to
`acked` and its `heard` to `seen`; `task` and `nextId` are hidden. There an order is accepted (`Accept`, pending or filled at once),
a pending one ends on the terms it had (`Finish`), the cash and the holding move in that same step and
by that order, within its limit and what is there to pay with; the file follows or stays; callers
are told what stands in both, or hear what stands in the book (`Tell`); when the file follows, what was
heard is told for good; a crash puts the file in the book's place and what was heard is void (`Crash`).

### Custody

`book` is the broker's order list, oldest first so that an order keeps its index. In paper mode it is
part of the state file and goes back with it on a restart; behind the gateway it survives
(`live`, fixed by the environment when NewManager chooses). `run[r]` is where the run started by
the ticker or by an administrator stands, `lock` is `custodyMu`.

* UpdateCustody is two steps: `CheckUpdate` reads the current settings without a lock and checks the
  request against them, `WriteUpdate` overwrites the settings under the store's lock.
* A run: `Wake` (the loop's own checks) or `RunNow`; `Start` or `Decline` with the mutex; `ReadOrders`
  or `ReadFails`; for each stock `PassOver` or `Place`; `Finish` writes time and result.
* Around it: `ManualOrder` and `Progress` (orders of traders, and a working order that is executed,
  canceled or rejected, which in the paper broker is what ProcessPending and CancelOrder do),
  `Flush` (another operation saves the state), `Tick` and `Restart`.

`Place` stands for a placed order whatever its caller hears: when the save failed or the gateway's
answer was lost the run notes a failure and goes on with the next stock in the same way. An order
that never arrives is `PassOver`. A gateway is taken to have accepted or dropped a request before it
answers the next one.

Quantities, cash, confidence and the analysis are left open: they decide that a stock is passed over
or an order refused, which may happen anyway. Times are minutes since a Monday, 00:00.

### SignIn

A client is a browser with one request under way; `task[c]` says between which two locked sections of
which handler it stands. A ticket is what may be turned into a session once: a QR request, or the
`state` of a WeChat login.

* Registration: `BeginRegister` (apiRegister up to the password hash), `CreateUser` or `CreateRefused`
  under the store's lock, `StartSession` or `SessionFails`.
* Password login: `Login` merges the limiter, the password check and the limiter's Reset; then
  `MarkUserLogin` and `StartSession`.
* QR: `QRStart`; `BeginApprove` (currentUser in withAuth), then `Approve`, `ApproveRefused` or
  `ApproveNotFound`; `Poll`, which consumes the approval, then `StartSession` or `SessionFails`.
* WeChat: `WeChatStart`; `Exchange`, which uses the state up and learns who came or fails;
  `Identified`, which goes on to `MarkUserLogin` or `CreateUser`.
* `EndSession` is logout, or a visit with an expired session. `Flush` is any other change that saves
  the store. `Restart` goes back to the file and forgets everything else.

`users` and `saved` are the accounts in memory and in the file. `registered`, `approvals` and `grants`
are history: confirmed registrations, confirmed approvals, and which ticket opened which session.
Tokens are numbers that never repeat; a caller names the ticket it holds, so wrong tokens, which
change nothing, are no action.

`OneTimeTickets` leaves out browsers, handlers and the clock. Its tickets are numbers: once drawn, one waits for an
approval (`pending`) or is `ready`, is `taken` by a handler and ends in `grants`; in any of these it may be lost
until then. `TicketsAreOneTime` is its specification under this mapping: `Pending` and `Ready` are the
requests that are neither consumed nor out of time, without and with an approval, and the states that WeChat may come
back with; `InHand` are the tickets in the locals of handlers; all numbers below `nextId` are drawn. It implies
`OneSessionPerTicket`, which no run checks beside it and which is proved on its own. What it adds is the order: nothing is taken that is not ready, a request of a device is ready only after
an approval that was confirmed, and no approval, poll or clean-up brings back what was used or has expired.

### Market

`caches` holds a line for the quotes, one for the indices and one for the bars of each stock, each
with its stamp. A call is Quotes and IndexQuotes for the dashboard, Quotes for the Quote by which
orders are filled, or bars, Quotes and RecordAnalysis for Analyze; `task[c]` is where it stands.
`Look` is the locked look into the cache, `Ask` and `AskFails` are the provider, `Keep` puts the answer
into the cache under the lock, `Record` is RecordAnalysis and its save. A datum is the time at which
the provider saw it, whether it has a price, and `Quote.Stale`; prices and scores are not modelled.
`Flush`, `Tick` and `Restart` are as in the other models.

### CircuitBreaker and LLMChain

A breaker's method runs up to the next `await` in one step, so it is an operator on the breaker:
`TryReset`, `Admits` and `Admitted` before the function is awaited, `OnSuccess` or `OnFailure` after it,
in whatever state the breaker is by then. `age` stands for the time since `last_failure_time` and stops
at `Recovery`, beyond which the code does not tell times apart. `LLMChain` has one action for each
half of a call, `Send` or `Refused`, then `Answered` or `Failed`; `Advance` is the loop of the chain
and `Settled` its way out. `trial` is history: whether a request belongs to the current half-open
phase of its breaker. Providers are numbered in the order in which they are asked.

### The Python service

**RiskManager.** A recorder is a task of the risk agent inside `record_override`: `Record` (up to the
read of the history), `SaveHistory`, `LoadState` (the state as it is then, with the override counted
in the copy), `SaveState`. Each may fail instead, and the agent swallows the error. A healer is
the hourly loop or a request for the status: `LoadToHeal` and `SaveHealed`. Times are ages in steps,
`Old` standing for everything beyond a day. Two variables are history: `alone`, the overrides recorded with
nobody else writing, and `crisis`, the age of the newest critical override that was saved while
nobody else held a copy of the state (`Unraced`). The state is read and written back without a lock, so a
recorder or healer that loaded it before a critical override was saved, and saves after it, overwrites the level and the
override together: two overrides at once, a critical one and a warning, may leave the level normal. That is what the code
does. `CriticalIsHeeded` says that there is no other way to lose one: once it was saved without such a race, no number of later
overrides, healings and races among them brings the level to normal within a day. Nor does the level fall below critical within the
cooldown, except that the third warning of a day makes it elevated (`risk_manager.py:228` is asked before the cooldown).

A call of `clear_daily_counters` that finds nothing to heal saves nothing, so it is no action.

**RiskAgent.** `Receive` runs up to the first await, so the two checks that need no K-lines are in it;
`KlinesCome` is the answer to each of the three that do. What K-lines say is nondeterministic. `seen`
is the reports a task has judged, and `flagged` says that what the newest reports call for was published.

**Heartbeats.** An agent has three tasks. An error of Redis ends the watching task and with it
`start()` (`Fails`); in the message loop it only ends the loop (`Deafen`), and the agent goes on
beating without listening, which nobody notices: its heartbeats stay.

**Reports, Macro, Detectors, Decisions.** A report carries the version of the K-lines it rests on.
`Macro` has the double write of the entry, short and then long, and what a round does when the breaker
refuses it. `Detectors` holds the arithmetic over bars as fractions, with no state but the bars; the
trace agent and the API have each their own copy, as in the code. `Decisions` takes every report that the
detectors may produce, and computes index, risk, score and decision in whole numbers.

**Klines.** A fetch waits for a slot, asks a source, and the entry is then written twice: by the provider
for five minutes, with the symbol in each row, and by its caller for one or two hours, without. With an
open breaker the provider reads the cache instead, and only rows with a symbol can be read. `age` is the time
since a source gave the K-lines, whoever has written them since.

**Scanner.** `list` is the cache of the process, `stored` that in Redis. A list loaded from Redis gets the
stamp of the loading, so the times to live add up. Prices that nobody could fill in are zero; such a list
is kept as well.

**PaperAccounts.** `account` is in memory, `file` what was saved last. `Follow` is an order, or the note that
HOLD leaves; a failed save changes nothing but the file's age. Money is in units of 1/10000.

**Backtest, Strategies, Replay.** `Bar` is a whole bar: step, exits, signal. `NextBacktest` is the reset
between the backtests of a grid and of rolling windows. `Strategies` has the state of one strategy: `Judge` reads it,
then `ReadState` and `WriteState` once for each field. `Replay` has the one flag that all replays share.

**RateLimits, Sizing, Watchlist.** A minute has a few steps, and a token as many parts. `Sizing` is
a function of a question and a level. In `Watchlist` a request reads a row in one step and writes it by its
id in another, and `NewId` is the id SQLite gives: one more than the largest there is.

### ChiefAnalyst

Messages are numbered in the order in which they are handled; `reports[a]` and `override` hold the number
of the message that set them. `job` is the decision of the task that holds `_decide_lock`, with the
copies that the task works on; `waiting` counts the tasks queued for the lock, which asyncio
serves in their order. Handlers up to their first `await` are `Report`, `RiskOverride` and `RiskSafe`,
the decision is `Acquire`, `Answer`, `Publish` or `PublishFails`, `CleanUp`. `received` and `decisions`
are history. A new process begins from nothing, so `Restart` is `Init` once more.

## 3. What the runs show

| Run | Instance | Shows |
|---|---|---|
| `paper` | 2 callers, 1 stock, 5 requests, 3 orders, prices 0, 1.00, 1.10 | the calls implement `AtomicBroker`, so each takes effect at once; the books balance, holdings never negative, answers final (those from memory until a restart or the next save, from then on for good), one fill at a time, repeats of a client id only from races |
| `paper_answers` | 2 callers, 2 requests, 3 orders, book of 2, fairness | answered orders are only lost to newer ones (those told from memory also to a restart before the next save); every call returns |
| `custody` | ticker, 1 administrator, 1 trader, 3 orders (1 of the trader), 2 days, window 1 | at most one custody order a day per stock and side |
| `signin` | 2 browsers, 2 names, one of them WeChat's, 1 tick, 6 ids, closed registration | sign-in by ticket implements `OneTimeTickets`, so a ticket opens one session; accounts unique; a confirmed registration kept; lockouts end |
| `market` | 2 calls, 2 stocks, 3 calls in all, 1 tick, TTLs of 1, journal of 1 | old prices are marked or not shown; analyses are recent; a confirmed one is kept |
| `background` | 4 parts with fairness, see below | levels heal, watchers come to be right, every stock is tried, runs of custody end and undo no change; cached K-lines are bounded in age |
| `services` | 15 parts, see below | the safety properties of the Python service |
| `chief` | 3 tasks, 5 messages, fairness | nothing is used twice; reports are lost in one way only; every decision ends |
| `custody_statuses` | all gateway statuses | violated: a SUBMITTED order does not count as today's order |
| `custody_consent` | two administrators | violated: custody is on again without a confirmation |
| `chief_vetoes` | 3 tasks, 5 messages | violated: an override that arrives during a decision is erased by its clean-up |
| `chief_grounds` | 3 tasks, 5 messages | violated: a task that waited for the lock decides on nothing |

Why the bounds are enough:

* Two callers are all that a race on one order needs: the properties compare a caller with the book,
  or two callers with each other. A third adds no kind of interleaving, only another copy of one.
* Three orders let an order be placed, a second one race with it, and a sale follow. In
  `paper_answers` they overflow a book of two, as 2001 orders overflow the code's 2000.
* The cash buys two lots at the lower price and not at the higher one together with the fees, so funds
  checks pass and fail; one request sells a single share, whose fee is more than its price.
* In custody, `Window = 1` stands for the 200 orders that are read back. Three orders are a custody
  order, one that pushes it out, and another custody order, so that the property's bound is tight.
  A trader's orders come at any time and so multiply the states; one is enough to push another out.
  The pass run restricts the gateway to PENDING and CANCELED: `custody_statuses` shows why.
* In `signin` every time to live is 0, so that one tick expires everything that was made before it
  and nothing that was made after it; QR requests are limited to one a minute. Registration is closed, so only races on the first account let
  a second one in. `MaxIds` and `MaxClock` cut the behaviours: five accounts, tickets and sessions together, enough
  for two accounts, a ticket and two sessions of it.
* In `market` a line is as old as its time to live after one tick, so one tick separates what is fresh
  from what is not. The watch list may be any set of stocks, so that one call can need what another
  has left out of the cache. `MaxCalls` and `MaxClock` cut the behaviours: two calls that
  overlap and one that meets what they left. A journal of one decision overflows with the second.
* The chain of models in `services` has no cut: its states are all there are. Three analyses are one more than there may be
  trials, so the limit is reached. With two providers the chain's third opinion
  is out of reach; it ends an analysis as two that agree do, and no property tells them apart.
* In `background`: custody of one stock with an administrator, one order, settings that switch it
  off or name a stock twice, a time inside the session and one outside, and a gateway that custody may
  not use; two overrides and one healer, a day of two steps and a cooldown of one; one agent that watches another, with the times of the code (3 rounds, expiry after 3 steps); one hot and one
  warm stock, two fetches and a single slot to wait for.
* In `services` each part has what its property needs to fail. Three overrides reach both thresholds; six
  reports let each agent change its mind while a check waits; three analyses are more than there may be trials;
  two scans and times to live of 2 and 3 let a list age through both layers; three orders overflow a
  file of two, and one stock is too dear for a lot; four bars at three prices make stops, trailing stops and
  series of wins; four evaluations, two replays, two removals and additions overlap; three additions use an id
  again; eight or twenty-one quiet bars put the last ones in reach of the short checks or of all of them;
  signals lie on both sides of every threshold of the rules.
* `TypeOK` of `background` includes that no more fetches run than there are slots. The types of `RiskManager` are checked in `services`.
* In `chief` five messages are three reports, which start a decision, and two more during it or
  after it: a newer report and one that queues up, or an override. Three tasks are one that decides and
  two that wait.
* In the paper and custody models `MaxOrders` is the only cut of the behaviours, in custody beside
  `MaxManual`. They stop new orders and nothing else.

Fairness. `PaperBroker!FairSpec` has weak fairness of each caller's own steps: a goroutine that is
ready runs, a quote returns or times out, a save succeeds or fails. Nothing makes a caller begin.
`Custody!FairSpec` has strong fairness of each runner: whoever waits for `custodyMu` gets it, because
a Go mutex hands itself over to a goroutine that has waited for more than a millisecond
(its starvation mode). `Restart` is never assumed to stop; it ends calls, so it helps no property
that the calls would not fulfil alone.

`ChiefAnalyst!FairSpec` has weak fairness of `Decide`: asyncio runs every task that is ready, requests
to models have timeouts, and Redis answers or raises an error.

`Background!Fairness` is that of each part while it moves. The hourly loop goes on, and a save to Redis that is
tried for ever works sometime (strong fairness of `SaveHealed`; `HealFails` is possible every time).
A watcher's loop and the clock go on; nothing makes an agent beat, and `ReportsConverge` speaks of agents
whose heartbeat stays or stays away. A request to a source is answered or times out, and asyncio's semaphores
serve in order, so a fetch gets its slot and the preloading its turn beside others. No source and no
save of K-lines is assumed to work. Custody is as above.

Deadlock is checked in every run but `services`, some of whose parts come to an end (a backtest has its
result, a decision is made). In the others the system can always go on, by a restart if nothing else.

### The abstract cache

`BoundedCache` says what a reader relies on: under a key there is nothing, or something of an age of at most
`MaxAge`, and it gets older until it is replaced or dropped. `Klines!KlinesAreBounded` and
`Scanner!ListIsBounded` are that specification under a refinement mapping (the age of the entry; the ages of the
process's list and of the list a scan has just used), so that each step of the layers is a step of the
abstract cache or none. The bound is the sum of two times to live, in both cases, and not one of them:
a provider behind an open breaker passes K-lines from the cache off as new ones (but only those of the short
entry, because it cannot read the form of the long one: the mutant of `Readable` shows that they would otherwise go
round for ever), and a list from Redis is stamped anew.

### Where the code and its documents disagree

Four runs expect a violation, and `PROJECT.json` quotes the line each of them contradicts. Other disagreements
were met while modelling; the models follow the code:

* `agents/signal_agent.py:71` wants 60 bars, as many as its longest mean (`config/settings.yaml:132`). Preloading
  and analysis fetch 60 calendar days, which are about 40 bars, so no report of the signal agent gets into the
  cache; then `services/analyzer.py:313` computes `min(1.0, None)`, the error is logged for debugging and the
  analysis has no decision.
* `core/chief_decision.py:85` says that the API and the agents apply the same standards of risk. The
  warnings need `risk_appetite_index`, which `market:macro` never contains, so they are never given on the API's
  path. `build_chief_decision` says that a warning forces HOLD; it lowers the confidence and keeps the action.
* `core/risk_manager.py:159` says that `clear_daily_counters` resets the counters every day, and
  `tests/test_risk_manager.py:125` expects a count of 0 after it. The code clears a copy and saves it only when it heals, after 24 hours
  without an override; the test passes because its bus (lines 22-37) hands out the stored dictionary itself, which Redis does
  not. So "daily" counts everything since the last day of silence.
* The fallback of macro data reads `market:realtime`, which nobody writes, though its comment says that it reads
  the related cache. Degraded macro data (no index could be had) replaces good data for 20 minutes.
* `get_stock_name` is documented to ask Redis before the process's own names; it asks them the other way round, and the
  process never forgets a name.
* `_cached_symbols` never forgets a stock either: when the entry in Redis has expired, `ensure_symbol_cached` says
  that it is there.
* The message loop of an agent ends at the first error of Redis and is not started again; the agent goes on beating.
* With the optimization of a backtest the minimum number of trades is not asked for, and a rolling
  backtest fails when a window had no Sharpe ratio (`backtest/strategy_backtest.py:363`).

## 4. What is proved

### PaperBroker

`PaperBroker_proofs` proves for every set of callers, stocks, requests and prices, every history
length and bound:

* `TypeCorrect == Spec => []TypeOK`
* `AnswersAreFinal == Spec => []AckedIsFinal`: a caller that was told of a filled or canceled order
  is never contradicted, in memory or in the file; one that was told from memory only is not contradicted
  by the memory before a restart, and by neither once a save has succeeded.
* `CallsTakeEffectAtOnce == Spec => CallsAreAtomic`: the broker implements `AtomicBroker`.
* `SavedOrdersAreFinal == Spec => SavedIsFinal`: what the file says of an order that has ended is
  never taken back. No run checks it, since `AtomicBroker` allows no step that would.
* `AnswersStay == Spec => []AckedIsKept`: an order that a caller was told of stays in both books
  until newer ones have filled them; one told from memory only stays in memory until a restart, and in both
  once a save has succeeded.
* `RepeatsBounded == Spec => []RepeatsAreRaces`: no more orders of a client id than callers.
* `OneFill == Spec => OneFillAtATime`: cash and holdings move with one order becoming FILLED, by what
  the book says of it.
* `StaysSolvent == Spec => []Solvent`: nothing sold short, cash bounded below.
* `BooksAddUp == Spec => []BooksBalance`: cash and holdings are what the filled orders add up to.

The assumptions are `LedgerAssumption` and `BrokerAssumption`: the types of the constants, a first
cash that is not negative, finitely many callers, a history length of at least 1, and client ids
that are no order numbers.

The argument. Neither property is inductive: a failed save leaves the file behind the memory, and a
restart puts the file in the memory's place. The inductive invariant `IInv` adds to `TypeOK`: ids are
unique in both books and below `nextId` (else a settlement could change two orders or a new one
bear an old id); `Agree(disk, mem)`, an order that has ended in the file is the same order in memory,
if it is there (so a restart takes nothing back, and a save writes over an ended order only
itself); and `AnswersHold`, an answered order that is in either book has the answered status, where an answer
in `seen` is compared with the memory only. A save makes the file a copy of the memory, which is why it may move `seen` into `acked`.
Every action but Restart is shown to be a step of one relation, `Evolves`: ids stay unique, orders
that have ended stay as they are, new orders have new ids. The invariant is proved from that
relation, once, and Restart apart. `BookOrders` and `FunctionIsSeq` relate the sequences and
the functions that `Prepend` and `Mark` build them from.

The others rest on `BooksInv` beside it. For them the actions are sorted once more (`StepKinds`): a
step is a restart, or `Quiet` (no book changes), or an `Effect`: an order enters, a pending one is
canceled or rejected, or a pass fills one. `BooksInv` says, for both books where it matters:

* `KeptInv`: orders that callers were told of, or are about to be, are there, or the book is full.
* `RaceInv`: the orders of a client id and the calls under way with it are together no more than the
  callers. The bound on the orders alone is not inductive: the calls that passed the look-up and
  have not inserted yet must be counted with them. Each insertion turns one of these calls into an order.
* `CopiesInv`: the copies that a matching pass works on have the symbol, side and quantity of the
  order of that id, if it is still in the book. So what `Settle` pays for the copy is what the order is worth.
* `RestsInv`: orders wait at a limit above zero, and a pass settles at a price the limit allows; a price
  to commit at is above zero. Without it a sale could lose more than its minimum commission.
* `LongOnly`: no holding is below zero.
* `FundedInv`: the cash is at least minus the tolerance and one minimum commission for each sale in the
  book; and a book is shorter than the next order number, so it is not full while `Solvent` speaks of it.
  Sales are counted with the library's theorems on cardinality; a new order is put in
  front of the others, so the places of the sales map one to one to new ones.

* `BooksBalance`: the sums. `Total(f, n)` of `Sums` is a recursive function, and `Sums_proofs` proves by induction over
  a set of numbers (`NatLessThanWellFounded` of the library, and a least element of the set where a claim fails) that it
  has its recursion (`TotalSteps`), that it does not change if no summand does (`TotalSame`), changes by
  what one summand does (`TotalChange`), and by a new first summand (`TotalPrepend`). These are the three kinds of steps
  of a book: an order that ends without a fill, one that is filled, a new one in front of the others. A fill of an
  order that had been filled before would change the cash and no summand; `TradedPlace` finds it pending instead.

TLC checked each part of `BooksInv` on the instance of the run `paper` before it was proved.

* `CallsAreAtomic` needs them all. A restart is a `Crash` and a quiet step a `Tell` or a stutter, whose answers
  stand in both books, or those of a repeat in the memory's, by `AckedIsFinal` and `AckedIsKept`. An order that enters is `Accept`; that nobody has heard of its number
  comes from the bound of the ids by `nextId`, that the last order is dropped only from a full book from
  `Prepend`. An order that ends is `Finish`: the pass pays for a copy, and by `CopiesInv` and the uniqueness of ids that
  is the order at its place in the book; by `RestsInv` the price is within its limit. So the `Effect` of a step, which
  had been stated for the sums, also says that the order is marketable and that no answer changes with it.

### Custody

`Custody_proofs` proves for any stocks, administrators, runners, orders of traders, times and window:

* `TypeCorrect == Spec => []TypeOK`
* `OnceADay == Spec /\ (live => ReadableStatuses) => []OncePerDay`
* `SettingsStay == Spec => RunsKeepSettings`: a run never undoes a change of the settings.

`CustodyAssumption` adds to the types that the instants get later, and that "nobody" is no runner's
name. `OnceADay` has one hypothesis: a gateway, when it is used, reports only
PENDING, FILLED, CANCELED or REJECTED. It is the hypothesis without which it is wrong, as the run
`custody_statuses` shows: `hasOrderToday` takes an order that is SUBMITTED or PARTIALLY_FILLED for none.
In paper mode there is no such hypothesis, because the statuses are the program's own.

The argument. A run reads the latest `Window` orders once and then places orders from what it has read,
while traders place others and orders change. `HasRead` says what is left of that reading: it
was of the first `n` orders of a book that has grown since; whoever counts now counted then, since an order
only ends and never comes back; no custody order is in those `n` that is of a later time than the run; and of the stocks
still to do custody has placed nothing since. The last two need the mutex (`RunsInv`: who is between
`Start` and `Finish` holds the lock) and settings that name a stock once (`SettingsInv`,
`NormalizedOnce`). Then an order that is placed has, in the places that were read, no counted
custody order of its stock, side and day, and those that were not read are more than `Window` away.
A restart in paper mode takes the book back to the file and forgets the runs; so the invariant speaks of
the file's book as well. TLC checked `IInv` on the run `custody`.

### SignIn

`SignIn_proofs` proves for any browsers, names, subjects, limits and times to live:

* `TypeCorrect == Spec => []TypeOK`
* `OneSession == Spec => []OneSessionPerTicket`
* `UniqueAccounts == Spec => []AccountsAreUnique`
* `RegistrationsKept == Spec => []RegisteredIsKept`
* `LockoutsEnd == Spec => []LockoutEnds`
* `OneTime == Spec => TicketsAreOneTime`

`OneSessionPerTicket` speaks of sessions that were opened. It holds because a ticket is always in one
place (`OnePlace`: a QR request that is not consumed, the state of a WeChat login, or the locals of one
handler), because the account that approved a request stays the same until the request is used
or has expired (`ApproverStays`), and because a ticket that opened a session is in none of these places
(`Granted`). `Drawn` says that all numbers in use were drawn before, so a new one is new everywhere.
`AccountsAreUnique` is inductive with the types and `Drawn` (a new account has a new number): names are looked
up and accounts created under one lock, and `CreateUser` counts on no earlier look. `RegisteredIsKept` needs `FileLags`: the names in the file are
names in memory, and the handler that has still to confirm a registration has its name in the file already.
TLC checked `IInv` on the run `signin`.

`OneTime` is a refinement, step by step: `StartDraws`, `ApproveApproves`, `PollTakes`, `ExchangeTakes` and
`SessionGrants` map the five steps that move a ticket, and `HandlerLoses`, `RefusalLoses` and `OthersLose` the rest, to
`Lose`. That a step moves no other ticket follows from `OnePlace`, that no second account has approved from
`ApproverStays`. `Numbered` is new: no number exceeds the bound of the model, and the account that a handler is about
to approve for has a number that was drawn. Nothing in
`IInv` has to say that an expired request stays expired: the clock never goes back.

### Market

`Market_proofs` proves for any calls, stocks, times to live and length of the journal:

* `TypeCorrect == Spec => []TypeOK`
* `FreshAnswers == Spec => []AnswersAreFresh`
* `RecentAnalyses == Spec => []AnalysesAreRecent`
* `ConfirmedStays == Spec => []ConfirmedIsSaved`

`MarketAssumption` has positive times to live and a journal of at least one. A call looks into a cache, asks the provider
without a lock, and keeps the answer with the time at which it began to ask; others do the same meanwhile. The
invariant of the caches is `Stamped`: nothing in a line was seen before the stamp of the line. That of a
call is `Sound`: what it has collected is as fresh as its answer must be (`Fresh`), what it was answered
was seen after it asked, and its locals are those of its operation (`Shape`, `UnderWay`). The price of an
analysis goes by way of the bars first and then of the quotes, so `UnderWay` carries the age of the
bars along. The journal is newest first (`Orderly`), in memory and in the file, which is why a
decision that has been pushed out has only newer ones in its place (`Covers`). TLC checked `IInv` on the run `market`.

### ChiefAnalyst

`ChiefAnalyst_proofs` proves for every number of tasks and of messages, from `ChiefAssumption`:

* `TypeCorrect == Spec => []TypeOK`; it includes that no more tasks hold or await the lock than the
  semaphore lets in.
* `NothingIsUsedTwice == Spec => []UsedOnce`
* `NoReportIsLost == Spec => []ReportsAreKept`

`UsedOnce` speaks of decisions that have been published. That the next one shares nothing with them
needs two more facts: `Issued`, the numbers in all places are those of messages that were received,
so a new message has a new number; and `Fresh`, what is at hand is not behind a confirmed decision,
except for what the decision being saved has used, which its clean-up will drop. The lock matters
here: copies are only taken when no decision is being saved.

`ReportsAreKept` needs `Held`, that what is held of an agent is its newest report, both at hand and in
the copy of the decision under way, unless the report came too late for it; and `Saved`,
that a decision being saved has been published. Only then is what the clean-up drops either used or
older than a report that came too late.

### The Python service

`Background_proofs` proves of the modules in `Background`, for all values of the constants that its `ConstantsAreSound` allows:

* `Bounded == Spec => KlinesAreBounded` (`Klines`)
* `TypeCorrect == Spec => []TypeOK` (`Heartbeats`, `Klines`, `Custody`)
* `SettingsStay == Spec => RunsKeepSettings` (`Custody`)

`Services_proofs` proves of the modules in `Services`:

* `Flagged == Spec => []ConflictsAreFlagged` (`RiskAgent`)
* `ListBounded == Spec => ListIsBounded` (`Scanner`)
* `PassesBounded == Spec => []PassesAreBounded` (`RateLimits`)
* `LevelsEarned == Spec => []LevelsAreEarned` (`RiskManager`)
* `BreakersKeepRecovering == Spec => []BreakersRecover` (`LLMChain`)
* `LoneComplete == Spec => []LoneCallsAreComplete` (`RiskManager`, `Strategies`, `Replay`, `Reports`, `Watchlist`)
* `BooksKept == Spec => []BooksBalance` (`PaperAccounts`, `Backtest`)
* `PositionsSound == Spec => []PositionsAreSound` (`Backtest`, `Sizing`)
* `DecisionsGrounded == Spec => []DecisionsAreGrounded` (`Macro`, `Detectors`, `Decisions`)

* `TypesHold == Spec => []TypeOK` (all fifteen)

for all values of the constants that its `ConstantsAreSound` allows, the assumptions of the fifteen modules
together. Each part has an inductive invariant of its own, and the lemma `Parts` says that a step of the
whole is a step of the part or leaves it alone. TLC checked the invariants on small instances before they were proved.

* Caches (`Klines`, `Scanner`). That the age stays below the bound is not inductive. What is: as time passes, age and time
  to live that is left of an entry have the same sum. It is `ProviderTTL` for an entry of a provider, which is
  new when it is written; K-lines that a fallback reads are therefore no older than that, and neither is what
  a caller writes, which adds at most `PrefetchTTL`. An entry of a caller is not readable to the fallback, or the
  sum would grow at each round. In the scanner the entry in Redis has such a sum, and the age of the process's
  list exceeds its stamp by no more than `RedisTTL`. With these, each step maps to `Store`, `Pass` or a stutter.
* `Klines`, slots. `SlotsInv`: no more fetches run than there are slots. The set of those that run, which need not be a subset
  of a finite set, is shown to be finite with it. A fetch enters the set in `Ask` only, which finds a slot free
  (`OneMoreSlot`); a fetch that has one keeps its kind until it ends (`OneFetchMoves`).
* `Custody`, beside the others. `Background_proofs` instantiates `Custody_proofs` and cites the lemmas of its theorems,
  after showing that both instances have the same initial states, steps and types; `SameConstants` discharges the assumption
  that those lemmas rest on.
* `RiskAgent`. The property is inductive once the types of the two functions are added, and that is the
  point: the task that receives a report checks all reports before it awaits anything, so no other task can come between.
* `RateLimits`. The bound on what passes in a minute says nothing of a bucket. `LimitsInv` does: for each number
  n of steps back, what passed in them and what is left now are no more than the full bucket and n - 1 refills.
* `RiskManager`, levels. What is saved next is a copy that somebody loaded earlier, so the copies have to carry the
  promise. `LevelInv` says of the saved state, and of every copy that a recorder or a healer still holds, that its
  level fits its own record: normal only without a critical override on record or a day after the last override, critical
  while a critical one is fresh and the count does not give the level, and `last <= crit`, the latest override is no
  older than the latest critical one. That alone would allow a copy which has not heard of a critical override.
  `CrisisInv` adds that the saved state and every copy about to be saved have one on record that is at
  least as new as `crisis`: what was saved without a race is in every copy loaded since, and there were no others.
* `RiskManager`, losses. `RaceInv`: a recorder that has been alone so far is the only one to hold anything;
  every saved or held total is at least the number of overrides recorded alone; histories are in the order of the ids and
  hold each of these ids, unless they are full of newer ones.
* `LLMChain`. Why is a half-open breaker never stuck? `PhaseInv`: a request that was counted in this phase is still
  under way, or is among the successes, and those are fewer than `Trials`. So if all `Trials` requests
  have been let in, one is under way. Answers to older requests add successes, which only helps.
* `Strategies`. `StratInv`: without a race one evaluation is under way, and it is `OnTrack`: what it
  has read of the fields and what it will write fit the failures in a row.
* `Replay`. `PlayInv`: a replay that shared the replayer with no other has the flag to itself.
* `Reports`. `Current` follows one report through its handler: while no two handlers are on the same agent and stock,
  what the handler has read is the version of the K-lines that is there once no event is left.
* `Watchlist`. `WatchedInv`: as long as a removal is under way, every addition knows it is `beside`
  one, and the row that an addition without a removal beside it counts on is there. A new row has a
  new id, which needs the greatest id of a finite set of rows.
* `PaperAccounts`. `AccountsInv`: while the file has lost no order, the account in memory is `Explained`, that is, capital,
  quantities and bases are sums over its orders; the saved one is so as long as it is short of the orders that are
  kept. One order more is one summand more (`TotalAppend` of `Sums_proofs`), but a sale takes the bases of
  all purchases before it away, so `EntryExplained` follows which purchases still stand.
* `Backtest`. `RunnerInv`: the books close, the series that are running and the longest ones are those of the list of
  sales (a longest series is the longest there was or the one that the last sale has ended), and what a position has cost
  is within its part of the capital. `StopInv`: an open position knows the highest price of the bars since it was
  bought, and none of them went below the stop as it was then; so `since`, which the property looks through
  bar by bar, may grow.
* `Sizing`. Nothing is inductive here but the question; the work is in division: rounding down keeps a suggestion
  within its share and never turns the order of two shares round, and an edge above zero after rounding is one before it.
* `Macro`. `RoundInv`: without a failure the entry is one written for long, except between the two writes, and its
  age is at most what the round before, the sleep and the round so far have taken. `MacroAssumption` bounds what counts as
  a round in time, a bound of the property and not of the code, by the times to live and the interval; with
  the code's 300, 600 and 1200 seconds every bound below 300 will do.
* `Detectors`. `SignInv` is small: there is a last bar, and each close lies between its low and its high, also after
  a quote has replaced it. The rest is arithmetic that holds for all bars: a mean of volumes
  compares as a sum does, an index of relative strength below 30 and one above 60 exclude each other, and `Vote`
  is 0 for buying when all that was found speaks for selling.
* `Decisions`. `VerdictInv`: what was decided follows from the risk that was found, what the rules decided from the
  reports. The score is a sum of three parts, of at most 0.25, 0.25 and 0.3 of the whole, and more than 0.3 takes
  two of one sign; turned round, the reports have the same whole and the opposite score. For this the strengths are
  summed by counting them, and the bijection of signals with signals turned round keeps the counts.
* `TypeOK`. Where a type says more than the shape of a value it takes an invariant. `CountsInv` (`RiskManager`): the
  overrides issued are at least those counted in any state that is saved or held, together with those whose recorder is still to
  count its own. `TallyInv` (`Strategies`) is the same for evaluations and losses. `ProgressInv` (`Replay`): a replay
  is among those in progress on a stock only while it goes on and is on that stock, and its bars and errors are no more than it has.
  `EntryInv` (`Macro`): the entry is absent or younger than its time to live. `SeenInv` (`Reports`): nobody has seen a version
  of the K-lines that is not there yet. `ListInv` (`Watchlist`): a stock has one row at most. `AgentTypes`, `OrdersInv`, `DaysInv`,
  `DecisionInv` and `ProgressOfTest` keep counts and places within their bounds. The types of the other parts follow from the
  invariants above.

### Only model-checked

Every invariant and every action or refinement property that a passing run checks is a theorem. The six liveness properties,
`EveryCallReturns`, `HealsInTime`, `ReportsConverge`, `EveryStockIsTried`, `EveryRunEnds` and `DecisionsEnd`, stay with
TLC: TLAPS handles neither fairness nor ENABLED. So does the reachability of what the four runs that expect a violation find.

`UpdateCustody`'s confirmation is refuted by the run
`custody_consent`, so there is nothing to prove.

## 5. Not modelled, and the plan

Left out for good: pages and styles, wire formats, signatures, hashing, parsing of provider answers,
arithmetic of indicators over floats, language-model calls, database queries.

Left out of the modelled parts: the symbol and price shown with a decision, the list of the last 100
decisions and the stocks the reports are about (the chief analyst keeps one report for each agent,
whatever stock it is about); the breakers' `reset` and registry, which nothing calls; passwords
changed by their owner; the store's watch list and settings, plain lists under its lock; a request that the
gateway accepts after the client has given up; Sharpe ratios, drawdowns and scores of a backtest; the
history of equity of the paper account; what a scan says of each stock.

Not connected to anything that runs: the fallback handler of the providers, the case memory (nothing adds a
case), self-evolution, `update_watchlist_name`, and the development server, which makes its data up.

Modelling planned: the gateway with requests in flight, under Custody; the streams of the message bus, once something
reads them.
