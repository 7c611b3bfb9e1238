# AmaExecutionCore in TLA+

AmaExecutionCore is an order-execution service for Bybit Spot: it turns signals
into orders, keeps a durable `Trade` row for each of them, arms protective
orders when a market entry fills, follows the exchange through a private
WebSocket and a REST reconciliation worker, and stops itself when losses or
failures say so.  Around it are the runners that watch candles and produce
signals, a grid trader, and the research code (backtests, gates, acceptance
scripts) that decides whether a strategy may trade at all.  The program is
asynchronous Python (`asyncio`, SQLAlchemy sessions on PostgreSQL); what makes
it hard is that several actors (WebSocket callbacks, the reconciliation worker,
close requests, the spot exit monitor, replayed requests) load the same row in
sessions of their own, await REST calls, and write back.

This directory holds a TLA+ model of that system, the TLC runs that check it
on small instances, and TLAPS proofs of its central invariants.

## The system and its parts

| Component | State it keeps | Operations | Hard behaviour | What makes it correct |
|---|---|---|---|---|
| `exchange_sync` | none of its own; writes `trades`, `daily_stats`, `safety_state` | order and execution events, three reconciliation passes, protective orders, emergency close | events lost, repeated, reordered; REST replies lost; copies outdated when written; crash between a REST call and the commit | a row says about an order only what the exchange did; an open market position has a stop; an outcome is counted once; what ended is noticed |
| `position_manager` | none; writes `trades` | close a trade, scan and close unprotected trades | unlocked read, then a REST call, then a write; decisions made on an older reading | only open trades are closed; one exit is recorded |
| `order_executor` | none; creates `trades` | guards, sizing, submission, resolution of uncertain submissions | timeout with the order accepted; row uncommitted while the order is sent | no order without a row, no second order for the same signal |
| `signal_execution` | `signal_submissions`, `signals` | execute or replay a request by fingerprint | overlapping equal requests; several commits per request | one live trade per fingerprint |
| `safety_guard` | `safety_state`, the in-memory kill flag | check, pause, expire, reset, activate, status | check-then-act; every session writes the columns it changed; which day a streak belongs to | no entry past a limit or while a pause is up; a pause ends only as it should |
| `trade_journal` | all tables | queries, transitions, counters, PnL arithmetic | read-modify-write of the day's row without a lock | counters equal what happened |
| `risk_manager` | none | position size, exchange constraints | rounding, zero | risk stays within the limit |
| `grid_engine` | `grid_sessions`, `grid_slots` | create, start, stop, pause, fills; backtest, advice | partial start, repeated or lost fill, fill after stop, no reconciliation | each slot has at most one working order; cycles are real; backtested books balance |
| `market_data` | candle windows, a bounded queue | warm-up, confirmed candle, gap recovery | two threads, unlocked refill, overlapping recoveries, full queue | windows have no long holes a refill did not cause; a gap is closed |
| `signal_loop` | cooldowns, the stop event | poll candles or take snapshots, run strategies, execute | slow ticks, cooldown read before an await, stale snapshots, safety errors end the loop | a candle is acted on once; entries are a cooldown apart; the loop ends when told |
| `strategy_engine` | none | one signal or none from a window | swings, bands and averages that coincide with the entry | stop and target on their sides, reward worth the risk |
| `backtest` | the replay's portfolio | simulate one execution, replay a history, evaluate a scenario | a result known in advance and told later; ratios of empty sums | never better than the candles allow; portfolio limits hold; a loss helps at most as one more trade |
| `scripts` | none | gates, stage scripts, sweeps | verdict and exit code computed apart; names that may be missing | the gate opens only for what was asked for and passed |
| `bybit_client` | none | REST calls | refused, timed out, accepted with the answer lost | errors are told apart |
| application wiring (`main.py`) | background tasks | start and stop the workers | what dies with the process | see fairness |
| `admin`, `frontend`, migrations | admin tables | reports, schema | none shared with trading | |

Interaction: the runners of `signal_loop` get candles from `market_data` (or
REST), ask `strategy_engine`, and call `signal_execution`, as the API does.
That calls `order_executor`, which consults `safety_guard` and `risk_manager`,
creates the row and sends the order.  From then on the row belongs to
`exchange_sync` (exchange evidence) and `position_manager` (closing); they share
it through the database only.  `exchange_sync` raises the kill switch and feeds
the daily statistics that `safety_guard` reads before the next order.
`backtest` and `scripts` use the same strategies and run offline.

## Modules

| Module | Models |
|---|---|
| `TradeLifecycle` | a submitted trade and everything that may happen to it: exchange (external), WebSocket handler, reconciliation worker, close requests, spot exit monitor, replayed requests, crash |
| `TradePromise` | abstract: what the life of a trade promises to a reader of the journal and the statistics |
| `TradeRefinement` | the mapping by which `TradeLifecycle` implements `TradePromise` |
| `SignalExecution` | from a signal request to a committed trade: replay or execution, guards, the order in all order modes, uncertain submissions, the commit points, the lock on the statistics row, the kill switch, crash |
| `SafetyGuard` | outcomes added to the day's statistics, the entry checks, pauses, expiry, reset, kill switch, over sessions that interleave |
| `GridEngine` | a grid session: start, stop, pause and fill handlers, the orders of its levels, crash |
| `MarketFeed` | the candle feed of a symbol with its two threads, and the runner that trades on it |
| `SignalLoop` | the polling runner |
| `Strategies` | the signal of each strategy for a window of candles |
| `Simulation` | the simulated execution of one signal |
| `Replay` | the replay of a history with the limits of a portfolio |
| `Gate` | the metrics of a scenario, its profile, and the gate over a manifest's suite |
| `StageChecks` | the three acceptance scripts: verdicts and exit codes |
| `GridResearch` | the grid backtester with its metrics, the advisor, the parameter sweep |
| `MC...` | instances for TLC: report sets, symmetries, and the sums `MCMarketFeed` and `MCResearch` |
| `...Proofs` | inductive invariants and theorems |

`SignalExecution` ends where `TradeLifecycle` begins: the trades it commits
are the initial states of the latter (`Handover`), and what `TradeLifecycle`
does to them is one coarse action of the former (`Sync`).  `SafetyGuard`
refines the guard that `SignalExecution` takes as a free refusal.  `GridEngine`
shares only the exchange account with them.  `MarketFeed` and `SignalLoop` are
two runners that the application never lets trade the same symbol
(`_validate_runner_configuration`) and that share no state, so `MCMarketFeed`
explores one or the other in a behaviour.  The research modules are functions
of their input, except `Replay`; `MCResearch` explores one of them at a time.

Every definition that stands for code is listed in `PROJECT.json` with the file
and lines it models, and keeps the code's name where it has one.

### TradeLifecycle

State.  `row[t]` is the committed `trades` row, reduced to the columns a
decision depends on: status, order type, whether a fill was recorded, and the
stop, take-profit and close link ids.  `ord[o]` is the exchange's view of the
order with link id `o`: what it is for, whose it is and the set of statuses it
has reported.  `rec` is the reconciliation worker: the pass it is in, the
trades left, the copies it loaded and the answers it got.  `closing`, `decided`
and `replay` are close requests, the monitor's decisions and a replayed
request in flight.  `outcomes` is what the transactions write beside the row.
`raised`, `stale` and `faults` are history variables: one of these transactions
raised the kill switch; a session wrote a trade from an outdated copy; how many
faults there were.  Nothing here reads the kill switch, and the operator may
reset it at any time, also while a row names a close that was never sent: what
is stated is that it was raised, and whether it is up is the business of
`SafetyGuard`, which has the reset.

Sessions.  The WebSocket handler locks the row and reads it afresh
(`WsOrder`).  The others load a copy (`RecList`, `CloseRead`, `ReplayRead`),
await a REST call, and write only the columns they changed over whatever is
committed by then: `Flush` is that UPDATE.  The protection pass does lock the
row, but the object is already in the session and is not refreshed, so it also
works on its copy (`RecProtect`).  From the first UPDATE to the commit the row
is locked, so this part is one step.  A reconciliation pass commits once, at
its end; its effect on each trade is placed at the point where the row is
locked, which other sessions cannot tell apart from the commit except by
reading the older row, and that reading is the order in which they came first.

Calls.  `place_order` is accepted, refused, or accepted with the answer lost
(the caller sees an exception).  `RollBack` is a transaction that fails, or a
process that dies, after its REST calls.  `Crash` loses everything in flight.
A WebSocket event is any status an order has ever reported, delivered at any
time, any number of times or never: loss, repetition, delay and reordering in
one.

Left out: prices, quantities, fees, exit reasons, timestamps; a missing
`target_price` (its effect is the one of a refused take-profit); a missing
quantity or stop price; the shadow mode.

### TradePromise and its refinement

The promise has four functions of the trade: `book` (what the row shows: an
entry, a partial fill, a position, a recorded exit), `exited` (the exchange has
filled an exit), `counted` (how often the outcome is in the statistics) and
`torn`.  A position stays in the books until its exit is recorded, an exit is
recorded only after it was filled and is counted in the step that records it.
A torn trade, one whose row was written from an outdated copy, keeps the last
clause only.

`TradeRefinement` maps statuses to books, the exchange's exit orders to
`exited`, `outcomes` to `counted` and `stale` to `torn`.  `PromiseKept` is the
abstract specification as a property: `lifecycle_exits` checks it and
`TradeRefinementProofs` proves it.  The state "partial" is there because of the
code: a partially filled close order sets the row to ORDER_PARTIALLY_FILLED,
and from there a late report of the cancelled entry sets it to ORDER_CANCELLED.
Writing the promise without it is how that path was noticed.

### SignalExecution

State.  `sub` is the `signal_submissions` table by fingerprint, `trade` the
committed trades, `ord` the exchange's entry orders by signal and attempt (the
second is the market order that follows a post-only refusal).  A request in
flight (`req`) carries what its session holds and nobody else sees: the
submission it loaded, its signal, and the status, type and link of a trade
that is flushed and not committed.  `holder`, `today`, `total` and `closed` are
the row of `daily_stats`: who holds its lock, whether it is committed, how many
trades it counts and how many of them won and lost.  `closer` are sessions that
record an outcome.  `overlap`, `revived`, `entered`, `lost` and `faults` are
history: fingerprints whose requests overlapped, trades that lived again after
they had ended, trades committed on the day, counts of these that were written
over, faults.

Steps.  The actions follow `execute_signal` and `execute`, cut where a
transaction commits or a call leaves the process: `Begin` (look-up and the
decision to replay), `Recheck` (resolution of an uncertain trade on replay),
`Register` (everything up to the commit inside `kill_switch.guard`), `CheckLimits`
(the circuit breaker), `CheckExposure`, `Create` (trade flushed and counted),
`SubmitAccepted` / `SubmitRefused` / `PostOnlyRefused` / `SubmitLost`, `Resolve`
/ `ResolveFails`, `Commit`, `Link`; `Refuse` leaves from any guard.  `Crash`
forgets all requests and outcomes and rolls back what was not committed.

The later life of a trade.  An order fills, is cancelled, or is rejected after
it was acknowledged (`Exchange`).  `Sync` commits what the exchange said: an
entry that ended unfilled ends its row, as ORDER_CANCELLED or ORDER_REJECTED.
The row of a filled one takes the statuses of a position in any order, as
`close_trade` retries a failed close: POSITION_CLOSE_FAILED, which is terminal
for `is_trade_terminal`, becomes POSITION_CLOSE_PENDING, which is not.  The trade
lives again (`revived`), and if a newer signal of its fingerprint was executed
meanwhile, the submission no longer leads to it (`Superseded`): two live trades
of one fingerprint, without overlap and without a fault.  `LiveTradeIsFound` and
`OneLiveOrder` except these trades by name and hold of all others.

An outcome is recorded in two steps (`BeginOutcome`, `EndOutcome`):
`apply_trade_outcome_analytics` reads the row of the day without a lock, and
later writes what it made of it.  `total_trades` is among its columns: it is
raised when more trades have closed than were entered that day, which is the
case for positions of an earlier day, and the value written is absolute, so
trades that were counted in between are lost to the daily cap (`lost`).

The lock.  `get_or_create_daily_stat` inserts the day's row if there is none,
and the insert keeps every other session waiting until its commit; later
requests wait only at the increment in `Create`.  `DayRowReadable` and `holder`
are this difference: the first request of a day runs alone from `CheckLimits`
on, later ones overlap up to `Create`.  An outcome takes part in it: it inserts
the row or waits for it like a request.  This is why the daily cap can be overrun,
and by how much: by the requests that were in between, less one, and by what an
outcome wrote over.

Left out: sizing and balances (a free refusal), partial fills at submission,
the shadow mode.

### SafetyGuard

State.  `stat[d]` is the `daily_stats` row of a day, `safety` the one
`safety_state` row (the in-memory kill flag follows it), `trade[t]` a position
that will be closed and the session that applies its outcome, `req[c]` an entry
and the session that checks it: its copies of both rows, and what it may be
held to (`blocked`, `until`, `over`, `hard`: which limits were up when it came).
`raced`, `stale`, `cools` and `run` are history variables.

Steps.  An outcome is read (`ReadStat`), applied and committed, or rolled back
(`apply_trade_outcome_analytics`).  A request passes the guard
(`KillSwitch.guard`), loads the rows, and is admitted, refused or pauses trading
(`CircuitBreaker.check`).  The operator presses the kill switch, resets, or asks
for the status, which also clears an expired cooldown.  Each session writes the
columns that differ from the copy it loaded, so a write may land on a newer
row; `raced` and `stale` record that it did.

Simplifications: guard, status, reset and activation are one step each, the
check is two; the flush and the commit of an outcome are one step; an outcome is
a loss or a win of 1; PnL, fees and per-symbol columns, which are written the
same way and limit nothing, and audit events are left out.

### GridEngine

State.  The session's `status`, the slots (`slot`: status, the two order ids,
cycles), the exchange's orders with the level and side they were placed for,
and the coroutines in flight (`task`).

Steps.  `start`, `stop` and `handle_order_fill` run on one event loop and their
REST calls are synchronous, so each is cut only where it awaits the database:
load, act, commit.  Between load and commit other coroutines run, and the commit
writes the columns changed (`Flush`) over rows that may have moved on.  A fill
event is any order that is filled, delivered at any time, any number of times
or never.  Placing an order may fail, with or without the exchange having
taken it.

`tainted` is a history variable: levels that two starts, or two handlers of
the same fill, worked on at once, and levels whose order was placed and never
recorded.  The code has nothing against either (no lock, no client order id),
so the properties about orders except these levels; everything else that may
overlap (a start with a stop, a fill with a start or a stop, late and repeated
fills, pauses, restarts) is included.  `CyclesAreReal` has no exception.

### MarketFeed and SignalLoop

`MarketFeed`: time is counted in intervals, a candle is its number and whether
it had closed when it was read.  The WebSocket thread compares a confirmed
candle with the last of `window` (`NoticeGap` starts a recovery, `CheckCandle`
goes on), appends it (`AppendCandle`), copies the window and queues the copy;
`recovery[r]` asks REST, clears the window and refills it candle by candle,
without the lock the thread holds, so the two interleave between check and
append and at every append.  A candle whose window was refilled after its check
lands behind any hole: it is marked `unchecked`, as history.  A snapshot that
finds the queue full is dropped.  The runner takes snapshots, skips stale,
recovered and short ones and those in a cooldown, and executes.  `torn` marks,
as history, a copy made during a refill.

`SignalLoop`: `run_forever` with its ticks and sleeps, `_evaluate_symbol` for
each symbol under the semaphore, cut at the awaited candles and the awaited
execution, the cooldown, the stop event and the refusal of the safety guard.
A tick takes as long as it likes.  `ticks`, `gap` and `late` are history.

### Research

`Strategies` computes averages, ranges and oscillators exactly, as ratios, over
windows of integer candles; each strategy is an operator that returns its
signal, if any.  Six strategies that look for a long signal first never have
both; `rsi_divergence` may (`_check_divergence` of either sign), takes the
bullish one and hides the bearish one.  Periods and multiples are scaled down
and shared; realised volatility and the volume against its median are inputs
(`calm`, `volume_confirms`), at most one of the three filters refusing at a
time.  `Simulation` follows `SimulationExecutionService` for one signal, with
spread and slippage in ticks.  `Replay` is a state machine, one step a candle,
with closures scheduled by the look-ahead of the simulation (`closures`: the
list of each step, in the order it was appended to).  `Gate` computes the
metrics of a scenario and the choice of the suite; `StageChecks` computes, for
each of the three scripts, both the printed verdict and the exit code, which the
scripts compute in different places.  `GridResearch` is the grid backtester
candle by candle, with or without lots, the advisor and the ranking of the
sweep; the windows of the walk-forward are cut from the whole history, of which
the backtest may have run a prefix (`later`: the candles beyond `max_candles`).

## Runs

One run per question.  Deadlock is not checked: with every bound used up the
models may stop, and a service without work does stop.

| Run | Properties | Instance | Shows |
|---|---|---|---|
| `lifecycle_entries` | `TypeOK`, `OpenPositionIsProtected`, `UnsentCloseStopsTrading`, `NoStrayProtection`, `ExposureNotDropped` | 1 trade, 4 orders, 1 fault, 1 client, all reports of entry orders | an open position is protected, one without an exit stops trading, none is forgotten, with lost replies, rollbacks and crashes |
| `lifecycle_exits` | `RecordedExitWasFilled`, `OutcomeCountedOnce`, `PromiseKept` | 1 trade, 4 orders, 1 client, fills and partial fills of exit orders | exits are recorded once and only if filled, whatever the order of events; every step is one of `TradePromise` |
| `lifecycle_converges` | `EntryConverges`, `CloseConverges`, `StopEventuallyArmed` | 1 trade, 8 orders of which 4 reserved for the worker, `FairSpec` | the worker alone notices ended entries and closes and arms missing stops |
| `signal_sequence` | `TypeOK`, `LiveTradeIsFound`, `OneLiveOrder`, `RowAgreesWithExchange`, `NoStrandedOrder` | 2 callers, 2 signals of one body, orders that fill, are cancelled or rejected later, 1 outcome, 2 faults, `maker_preferred` | a repeated request finds the live trade of the earlier one and sends no second order, whatever commit a crash came after, unless that trade had ended and lives again; rows agree with the exchange, no order is left without a row |
| `signal_overlap` | `CapOverrunBounded`, `EveryRequestEnds` | 2 callers of one body, 3 signals, cap 1, 1 outcome, 1 fault, `FairSpec` | the cap is overrun by one at most and by what an outcome writes over; nobody waits for ever for the statistics row |
| `safety_limits` | `StatsAddUp`, `NoEntryPastDailyLimit`, `NoEntryWhilePaused`, `CooldownsPaidByLosses`, `ManualPauseKept` | 3 trades, 1 request, 2 days of 2 steps, cooldown 1, limits of 3 losses a day and a week, streaks 1 and 2, cap 4 | statistics add up, limits and pauses stop entries, pauses end only as they should |
| `grid_fills` | `OneWorkingOrder`, `SellsAreCovered`, `CyclesAreReal` | 2 levels, 2 coroutines, 4 orders | one working order per level, sales covered by purchases, cycles real |
| `market_feed` | `HolesAreShort`, `EntriesSeeClosedCandles`, `OneEntryPerCandle`, `GapsAreClosed`; `OneTickPerCandle`, `EntriesApart`, `LoopEnds` | 7 candles, window 4, queue 2, 2 recoveries, 2 lost candles, 1 failed call; 2 symbols, 1 permit, 8 steps | the feed and the two runners under every interleaving of threads, refills, slow ticks and the stop event |
| `research` | `BacktestIsNotOptimistic`, `PortfolioLimitsHold`, `LossHelpsOnlyTheCount`, `GateCoversSuite`, `GridResearchAddsUp`, `SignalsAreTradable`, `VerdictsAgree` | prices 1..4, 6 candles, 2 symbols, windows of 5 and 9 candles | the code that judges a strategy agrees with itself and with reference definitions |
| `lifecycle_late_close`, `lifecycle_missed_exit`, `signal_double_order` | one each | 1 trade; 2 callers | three statements of the documentation or tests that the code does not keep (below) |

`TradeLifecycle`.  `RecordedExitWasFilled`, `OpenPositionIsProtected` and
`UnsentCloseStopsTrading` hold in every interleaving.  `OutcomeCountedOnce`,
`NoStrayProtection` and `ExposureNotDropped` hold as long as no session writes
from an outdated copy (`stale`), `NoStrayProtection` also only without faults;
`lifecycle_late_close` shows that such writes happen.  They say that nothing but
the known causes breaks what they promise, and do not catch these causes: a
crash after a protective order was placed, a copy that moved on, the demotion
of a position by a partial fill, which `ExposureNotDropped` excepts.

`SignalExecution`.  `RowAgreesWithExchange` and `CapOverrunBounded` hold in
every interleaving, `NoStrandedOrder` as long as there was no fault (a crash
after the order was sent does strand it), `LiveTradeIsFound` as long as requests
of the same body do not overlap (`overlap`; `signal_double_order` shows what
happens if they do), and `OneLiveOrder` under both conditions.  The last two
except trades that live again after a newer signal (`Superseded`).
`RowAgreesWithExchange` allows ORDER_REJECTED beside an order that was taken and
rejected later, and beside none that is working, filled or cancelled.

`GridEngine`.  `OneWorkingOrder` and `SellsAreCovered` except tainted levels
from the moment they are tainted: they bound what a partial start and
overlapping handlers do, and do not catch it.

`SafetyGuard`.  The first half of `StatsAddUp`, that a row never counts what did
not happen, holds in every interleaving; that it counts all of it holds unless
two sessions wrote over each other (`raced`).  The statements about pauses
except rows written from outdated copies (`stale`).

`MarketFeed`.  `HolesAreShort` holds of torn copies too.  It excepts the hole
before a candle that was checked against a window which a refill then replaced
(`unchecked`): such a candle is appended behind whatever the refill ended with,
and with a window of four TLC finds holes of more than one candle there.  It
depends on `MaxLag`: a closed candle may be in flight for at most one interval.
The other safety properties except torn copies.  `GapsAreClosed` excepts a
failed REST call, which the code only logs.

`research`.  Each of its properties is a conjunction named for what one part
owes its user: the simulated execution (`ExitsArePossible`, `LossIsBounded`,
`TargetPays`), the replay (`TradesKeepTheirDistance`, `DayLimitIsClose`,
`OpenTradesWillClose`, `NoEntryAfterStreak`), the gate, the grid books, the
signals, the scripts.  `LossHelpsOnlyTheCount` names the one way in which a loss
turns a refusal into a pass: it makes up the number of closed trades that the
profile asks for (`min_closed_trades`), everything else being met without it.
`SignalsAreTradable` says that no strategy has a long and a short signal at once
but `rsi_divergence`, which then keeps the long one; within the three closes
(`SwingCloses`) of the run that case does not arise, as it takes five different
prices, and the theorem covers it.  `VerdictsAgree` excepts one case of stage A,
spelled out in `OnlySkipped`: a history of skipped trades alone prints PASS and
exits with an error.  The drawdown, the growth of a grid's books and the
walk-forward choice are compared with definitions that do not follow the code's
loops.

Type invariants are defined for every state machine.  The runs check two of
them and five are proved (`TradeLifecycle`, `SignalExecution`, `GridEngine`,
`SafetyGuard`, `MarketFeed`); `LoopTypeOK`, `SimTypeOK` and `ReplayTypeOK` hold
in the instances of `market_feed` and `research` and are not among the runs'
properties.

Bounds.  In `TradeLifecycle` four orders are the entry, its stop, its
take-profit or an emergency close, and one close request: every role once, and
the first order placed twice.  One fault is enough for each single failure; two
are not explored.  Rows of different trades interact through nothing else than
the worker's pass, and the theorems hold for any number of trades.  The runs
divide the reports by order kind (`CanReport`) because all of them together
exceed what TLC explores in minutes.  `Reserve` keeps close requests from using
up the ids the worker needs in the liveness run.  In `SignalExecution` two
signals are a request and its repetition after the first trade ended, which may
then live again; three, in `signal_overlap`, two that overlap and one after
them; two callers are the smallest overlap, one outcome is enough to write over
a count, and the theorems cover more.  `signal_overlap` lets orders be cancelled
only (`Endings`): what becomes of a filled one is the other run's.  In
`SafetyGuard` three outcomes reach the daily limit, and the weekly one over two
days; two reach the hard streak, one the cooldown, so every verdict of the check
is given; at most one outcome is a win, and behaviours are not followed past
both a lost outcome and an outdated write (`Explored`; the theorems have no such
bound); two days give a midnight between a loss and what follows; one request is
enough because requests meet through the two rows, which outcomes, the operator
and the next request of the same caller change as well, and the theorems hold
for any number.  `WeekDays` is 2 instead of 7, so that the earlier day counts
for the week.  In `GridEngine` two levels are a level on each side of the price,
four orders are one level's buy, sell and next buy and one order of the other
level (or two rounds cut short), two coroutines every pair of handlers.  In
`MarketFeed` seven candles are a full window of four, a gap of two lost candles
and what follows it; two recoveries overlap.  In `SignalLoop` one permit for two
symbols makes each wait for the other, and eight steps are four intervals.  The
research instances are the smallest in which each branch of the code is taken: a
window as long as its indicators need, prices that let a candle touch stop and
target, six candles with two days, a suite with an unknown name.

Fairness.  `TradeLifecycle!FairSpec` assumes that the worker goes on (its loop
catches every exception and sleeps a fixed interval), that a pass that has begun
handles its trades, and that a REST query repeated for ever is answered now and
then (strong fairness of `RecApply`:  `RecSkip` is the unanswered query).
Nothing is assumed of the WebSocket, the exchange, clients or the monitor.
`SignalExecution!FairSpec` assumes that a request or an outcome that has begun
goes on (REST calls have timeouts), strongly where it waits for the statistics
row: the database grants row locks in the order of waiting.  `FeedFairness`
assumes that a REST call returns or fails and that the event loop runs a refill
that is ready, and nothing of the WebSocket thread or the runner.
`LoopFairness` assumes the same of the calls of a tick, and that a loop that is
told to stop while it sleeps wakes up for it: the sleep is a wait for the stop
event with a timeout.  Nothing makes the stop event or the next candle come.
`GridEngine`, `SafetyGuard` and the research modules are checked for safety
only.

### Where code and documentation disagree

Shown by a run:

* `lifecycle_late_close`: the worker decides on its outdated copy, so a
  cancelled close order turns a trade already PNL_RECORDED into
  POSITION_CLOSE_FAILED, although stale close updates are meant to be ignored.
* `lifecycle_missed_exit`: POSITION_OPEN is not polled; a missed stop fill is
  never made up for, although architecture.md promises convergence.
* `signal_double_order`: two equal requests that overlap both execute; each gets
  a live trade, although api.md promises a replay.  (Without overlap it takes a
  close that failed, a repeated request and a retry of that close.)

Stated in the modules, violated in the instances named, and not among the runs:

* `SentTypeIsRecorded` (`SignalExecution`, as in `signal_sequence`): a market
  order whose answer is lost is recorded as a limit order, and its fill opens a
  position without a stop.
* `StartPlacesBuyOrders` (`GridEngine`, as in `grid_fills`): `stop` cancels the
  orders and keeps their ids on the slots, so a restarted grid places no buy
  orders.
* `HardStreakStops` (`SafetyGuard`, as in `safety_limits`): the end of a cooldown
  forgives the whole streak of its day, also the losses of positions that were
  still open and closed during the cooldown, so losses in a row that reach
  `hard_pause_consecutive_losses` need not end in the manual pause the docstring
  of the circuit breaker describes.
* `OnlyFullWindows` (`MarketFeed`, as in `market_feed`): a copy made during a
  refill is short and is delivered.

Known limits of the code that the models contain and no run is spent on: a
partially filled close order makes the trade closable again, and a second close
order joins the first; an entry partially filled and then cancelled ends as
ORDER_CANCELLED; the monitor closes a trade that was protected after its
decision; the trade is sent before its row is committed; orders that rest do
not count towards `max_open_positions`; POSITION_CLOSE_FAILED counts as
terminal, so the same signal is executed again on top of the position, which a
retry of its close makes a second live trade; a recorded outcome may write over
the day's number of trades; a crash between the order and the commit leaves an
order without a row, and the retry sends another; a request
that passed the guard sends its order after the kill switch went up; levels at
or above the price when a grid starts wait to sell without a sell order; a
snapshot dropped from a full queue is an opportunity missed; an outcome lost to
a concurrent write is not made up for.

## Proofs

Each theorem holds for every value of the constants that the named assumption of
its module admits; the assumptions only give the constants their types (a limit
is a positive number, a set of requests is finite, `None` is no other value) and,
for the strategies, windows that are as long as their indicators need and positive
multiples, as the defaults of the code are.

| Theorem | States |
|---|---|
| `TradeLifecycleProofs!Inductive`, `TypeCorrect`, `ExitsAreReal`, `OpenPositionsAreProtected` | `[]IndInv`, `[]TypeOK`, `[]RecordedExitWasFilled`, `[]OpenPositionIsProtected` |
| `TradeRefinementProofs!PromiseIsKept` | `TradeLifecycle!Spec => PromiseKept`: the refinement |
| `TradeRefinementProofs!OutcomeIsCountedOnce` | `[]OutcomeCountedOnce` |
| `SignalExecutionProofs!Inductive`, `TypeCorrect`, `CapOverrun` | `[]IndInv`, `[]TypeOK`, `[]CapOverrunBounded` |
| `SafetyGuardProofs!TypeCorrect`, `PauseHolds`, `ManualPauseEndsByReset` | `[]TypeOK`, `[]NoEntryWhilePaused`, `ManualPauseKept` |
| `SafetyGuardProofs!StatsCount`, `DailyLimitHolds` | `[]StatsAddUp`, `[]NoEntryPastDailyLimit` |
| `SignalLoopProofs!CandleEvaluatedOnce`, `EntriesAreApart` | `[]OneTickPerCandle`, `[]EntriesApart` |
| `GridEngineProofs!TypeCorrect`, `CyclesHappened` | `[]TypeOK`, `[]CyclesAreReal` |
| `SignalExecutionProofs!TablesInductive`, `RowAgrees`, `NothingStranded` | `[]TableInv`, `[]RowAgreesWithExchange`, `[]NoStrandedOrder` |
| `SignalExecutionProofs!LiveTradeFound`, `AtMostOneLiveOrder` | `[]LiveTradeIsFound`, `[]OneLiveOrder` |
| `TradeLifecycleProofs!CareInductive`, `UnsentCloses`, `ProtectionOnRow`, `ExposureKept` | `[]CareInv`, `[]UnsentCloseStopsTrading`, `[]NoStrayProtection`, `ExposureNotDropped` (an action property) |
| `SafetyGuardProofs!CooldownsPaid` | `[]CooldownsPaidByLosses` |
| `GridEngineProofs!GridInductive`, `OneWorking`, `SellsCovered` | the invariant of the levels, `[]OneWorkingOrder`, `[]SellsAreCovered` |
| `MarketFeedProofs!FeedTypes`, `HolesBounded`, `ShortHoles` | `[]FeedTypeOK`, `[]HoleInv`, and `[]HolesAreShort` where `MaxLag <= 1` |
| `MarketFeedProofs!TradesInductive`, `EntriesClosed`, `CandlesTradedOnce` | `[]TradeInv`, `[]EntriesSeeClosedCandles`, `[]OneEntryPerCandle` |
| `ResearchProofs!BacktestIsPossible` | `SimInit => BacktestIsNotOptimistic`, for all candles, prices and settings |
| `ResearchProofs!ReplayInductive`, `ReplayKeepsLimits` | `[]ReplayInv`, `[]PortfolioLimitsHold` |
| `ResearchProofs!GateOpensForMeantSuite` | `ManifestInit => GateCoversSuite`, for every manifest |
| `ResearchProofs!StagesAgree` | `StageInit => VerdictsAgree`, for every history, fee and result |
| `ResearchProofs!GridsAddUp` | `GridResearchInit => GridResearchAddsUp`, for all candles, fees and results of a sweep |
| `ResearchProofs!SignalsTradable` | `StrategyInit => SignalsAreTradable`, for all windows, periods and multiples |
| `ResearchProofs!LossesOnlyCount` | `TrialInit => LossHelpsOnlyTheCount`, for all executions, fees and months |

`TradeLifecycleProofs`.  `RecordedExitWasFilled` is not inductive: the worker may
write from a copy that is arbitrarily old, so one has to know what any copy may
contain.  `IndInv` adds three parts.  `OrdersInv`: link ids are given out in
order, trade `t`'s entry is order `t`, and an unknown order has reported
nothing.  `LinksInv`: the links of every row *and of every copy* name orders of
that trade of the right kind, and a pending close has a link.  `CopiesInv`: a
copy agrees with its row on the type, knows no stop that the row does not have
(stop links are never taken back), and the answer it carries was given by the
order it tracks.  From these, an update that `apply_order_update` treats as an
exit fill concerns an exit order of this trade that is filled, and a row that
becomes POSITION_OPEN has a stop even if the copy it was written from is old.
The proof has one lemma for what each operator returns (typing, links, what it
may have placed), one for `Commit` and `RollBack`, and one step per action.

The second part adds `CareInv`: a row that no outdated copy was written over has
a stop wherever it has a take-profit, a close that was not sent has raised the
kill switch and left its row halted, and a pass that protects trades has only
listed trades that miss a protection (`ListedInv`).  `UnsentCloseStopsTrading`
and `NoStrayProtection` are parts of it; `ExposureNotDropped` is proved of each
action from it.

`TradeRefinementProofs`.  `RefInv` is `IndInv` and `LoadedStatuses` (what
statuses a pass, a close request or a replay may hold in its copy).  `UpdateMoves`
says where an update may take a status; `CommitPromise` turns a commit into one
of `Follow`, `Record` and `Tear`, whichever the books and the copy make of it;
there is one lemma for each group of actions.  `OutcomeIsCountedOnce` then never
looks at the code again: it follows from the promise by the invariant
`CountedIsRecorded`.

`SignalExecutionProofs`.  `CountsInv` adds that the signals given out plus the
requests that will still take one stay within the bound (without it a signal id
may leave its type), that the trades entered are counted in `total` or written
over (`lost`), and that the trades entered plus the requests that passed the cap
and have not counted theirs (`Uncounted`) stay within the cap plus the number of
requests less one, plus `lost`.  A request joins `Uncounted` only while the cap
is not reached, when at most all the others are in it; it leaves when it counts
its trade or is refused; an outcome that lowers `total` raises `lost` by as
much.  The proof reduces each action to how it changes these two sets and uses
the library's facts on cardinality.

The other theorems follow one submission through the tables (`TableInv`).
`OrderInv` relates, for every signal, the trade's row, what is committed of it,
the order the exchange took and what the request in flight holds in its hand:
from it come `RowAgreesWithExchange` and `NoStrandedOrder`.  `OwnerInv` says that
a signal belongs to one request at most, and that the trade a submission names
is committed.  `FingerInv` holds of fingerprints whose requests never overlapped:
at most one request serves the fingerprint, and a live trade of it can be found
again, through the submission or, after a crash between the commits, through
the trade itself, unless it is one that lives again (`Finds`, `Over`).  A second
order would need a request that looked and did not find.  `CloserInv` keeps an
outcome being recorded at a committed trade whose entry is filled, whatever else
happens to that trade meanwhile (`FilledStays`).

`SafetyGuardProofs`.  For the pauses, `PauseInv` says what a request in flight
knows: unless a row was written from an outdated copy, a request that met a
manual pause or a running cooldown still sees it, in the row or in its own copy
(`Knows`), and a request that will clear a pause clears an expired one
(`ClearsExpired`).  `PauseChanges` lists how a step may change the safety row.
For the statistics, `CountInv` holds of the rows and of every copy a session has
read: each counts no more than the closed trades of its day (`Within`), and the
row of a day nobody has written over counts exactly these (`Exact`); a write
over a newer row flushes columns that are all within.  For the daily limit,
`LimitKnown` carries the losses that a request found at its guard to the copy it
decides on: closed trades stay closed, so the losses of a day only grow.  For
the cooldowns, `Paid` counts in losses: either the cooldowns of a day times
`MaxStreak` plus the running streak are within the day's losses, or a cooldown
is up (or a later day has begun) whose streak will be forgiven when it ends;
`DatesInv` keeps sessions from writing to a day that has not come.

`SignalLoopProofs`.  The invariant relates three clocks: a loop that sleeps wakes
up in a later candle than its last tick (`SleepsPastCandle`), an evaluation that
has begun found the symbol cooled down and no other entry of it comes in between
(`CooledDown`), and an entry after the stop event belongs to the tick that was
under way (`LateIsLast`).

`GridEngineProofs`.  A count of cycles may be written by a handler whose copy is
old, and a slot's sell order may be overwritten by another.  `CountsInv` leaves
the sale that a row still names out of its count: the cycles of a slot, and of
every copy of it, are at most the filled sell orders of its level (`Done`) without
the one the row names, so that counting that one and dropping its id keeps the
bound, however old the copy.  A sell order that a coroutine has placed and not
yet written (`Pending`) is in nobody's `Done`, no row or copy names it, and one
coroutine alone will write it (`WritesInv`); when it does, the order becomes the
one the row names.  `Links` says that the ids of rows and copies are orders of the
right side and level.  `TypeCorrect` includes that no count exceeds the number
of orders.

For the working orders, `RowInv` holds of a level that is not tainted, i.e. where
no two starts or handlers overlapped and no order was placed and not recorded:
its row names at most one order, a coroutine that handles the level has the row
as it is, and there is one such coroutine.  `MarketInv` then compares the exchange
with the row: a live order of the level is the one the row names or the one a
coroutine has in its hand, and the sells placed are covered by buys filled that
were not yet turned into a sell (`Unturned`).  `ShapeInv` says of every level what
its slot and the coroutines at work on it may look like.

`MarketFeedProofs`.  That neighbours of a window are close is not inductive: a
refill appends its candles one by one while the thread appends its own.
`KlinesInv` and `FillInv` say what a recovery still has to append, that one
recovery at a time refills, and that the first candle to come is close to the
last one there.  `CheckInv` carries what the check of a candle found to its
append, unless a refill came in between.  The proof bounds holes, but before an
unchecked candle, by `Hole`, which is 2 for `MaxLag <= 1` and `MaxLag + 1`
otherwise, so that `HolesAreShort` is a theorem under the condition `MaxLag <=
1`: a closed candle is received before the next one closes.  The condition is
needed, and `market_feed` is run with it: with `MaxLag = 2` and eight candles
TLC finds a window that skips two candles, as a late one lands in the middle of
a refill.  `TradeInv` follows the copies: what the thread is about to copy
(`WarmInv`, `CopyInv`), what waits in the queue (`QueueInv`: whole, in order),
what the runner has taken (`RunnerInv`), and what it traded on (`EntriesInv`).

`ResearchProofs`.  `ReplayInv` says that the portfolio is what the log of trades
implies.  `Book`: the open trades and the last entries are those of the log
whose closure has not been told.  `Ledger` and `Breaker`: the trades of the day,
the losses in a row and the day's stop are those of the closures told, in the
order the code tells them.  `ScheduleInv`: the closures still due at a step are
the trades of the log that close there.  `Guarded` is what the settings ask of
each trade at the step it was entered, and `PortfolioLimitsHold` follows from it
for the whole log.  The simulation, the gate, the stage scripts and the research
on grids are single computations: their theorems have the initial predicate as
the hypothesis and no next step.

The grid backtest is a fold over candles, and its books are an invariant of that
fold: after each candle gross profit and fees are the sums over the levels of
what their cycles and bought coins amount to (`StartAccounted`,
`CandleAccounted`).  A candle may fill any set of levels at once, so the proof
needs that a sum over a set does not depend on the order (`AnyFirst`,
`SumPart`).  `PreferenceIsOrder` shows that the sweep's comparison of two
configurations is a strict order: the best one that `_run_walk_forward` picks
exists, which the choice in its definition does not say.

The signals are ratios, and the proof is about their denominators and signs:
exponential averages are ratios and Wilder's smoothing of ranges is one that is
not negative (`EmaIsRatio`, `SmoothedIsShare`), `AtDistance` puts a price at a
distance from another on the side it was meant for, and `BuiltSignal` says what
`_build_signal` lets through.  That the squeeze strategy never raises needs the
smoothing to keep its last value: the strategy asks for a close that moved, so the
last true range is positive (`RangesOfWindow`), and so is the average.
`OneDirection` finds for each of the six strategies the guard that its two
directions cannot both meet.

The operators of these modules fold over sequences and sets, and the library's
induction theorems take an operator, which none of the provers can instantiate.
`LeastNumber` (a set of numbers has a least element, from the library's
well-founded induction over a relation) takes their place: a counterexample of
least size contradicts its predecessor.  `SetRecursion` shows with it that the
function a fold chooses exists, which is what the fold's definition leaves open;
`FoldSteps` follows it from one position to the next, and `RunningTotal` (sums),
`BreakerCounts` (closures), `BacktestAccounted` (candles), `SmoothedIsShare`
(averages) and `OnlySifts` (filters) rest on it.

The metrics of the gate are sums and one fold over the results of a list.
`DrawdownIsDeepest` follows `calculate_max_drawdown` along the running totals:
the peak is the highest of them so far, and what it returns the deepest fall.
`Inserted` relates a history to the one with one more execution, and passes from
the executions to those that count (`OnlyInserted`), from these to their results
(`ValuesInserted`) and to the running totals (`RunsInserted`), which a loss
lowers from its place on; hence `Worse`, and `WorseMeetsLess` takes a profile
from the worse metrics to the better ones, given the closed trades it asks for.
Without them it is used of the profile that asks for none (`Uncounted`).
`ClassesAddUp` splits a sum by months.  The lists are filtered with a fold
(`Only`), as the provers know nothing of `SelectSeq`.

Every safety property of the passing runs is stated by a theorem; the theorem
about `HolesAreShort` has the condition `MaxLag <= 1`, without which it is false.
Only model-checked: liveness (`EntryConverges`, `CloseConverges`,
`StopEventuallyArmed`, `EveryRequestEnds`, `GapsAreClosed`, `LoopEnds`), as
fairness and ENABLED are out of the prover's reach.

## Not modelled

* Parts of modelled components.  `exchange_sync`: execution events (fees are
  added per event and executions are not remembered) and slippage.
  `position_manager`: the shadow close.  `order_executor`: balances and Decimal
  rounding, partial fills in the answer to a submission.  `trade_journal`: PnL,
  fee and per-symbol columns, journal events, read-only queries.  `grid_engine`:
  live reports; `evaluate_risk` and `handle_upside_breakout`, which the service
  never calls.  `strategy_engine`: the orchestrators, the service and the
  factory.  `backtest`: the shadow and demo runners and the data sets.
  `scripts`: downloads, printing, and the smaller scripts.
* `admin` and `frontend`: authentication and read-only reporting that share no
  state with trading.
* Migrations and Docker files: no behaviour of the service.
* Row locks of several trades within one reconciliation pass: a deadlock's
  victim is a transaction that rolls back, which the models have, but not the
  order of the locks that leads to it.
* Two gaps of the models that a reader should know of: `GridEngine` does not say
  what happens to a level whose fill event was dropped, as nothing in the code
  makes up for it, and `MarketFeed` bounds how late a candle may be (`MaxLag`),
  which the exchange does not promise.

## Plan

Done, in this order: `TradeLifecycle` and its proofs, `SignalExecution` and its
proofs, `GridEngine`; `SafetyGuard`, `MarketFeed` and `SignalLoop`, the research
modules, the refinement of `TradePromise`, and the proofs of all of these.

To come:

1. The composition of `SafetyGuard` with `SignalExecution`, where the guard is
   now a free refusal.
2. The orchestrators of the strategies and the shadow and demo runners.
