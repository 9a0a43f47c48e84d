# Verification of scalper-hft

TLA+ models of the concurrent and stateful parts of scalper-hft (a Python
research and trading system for crypto futures), the TLC runs that check them
and the TLAPS proofs about them.  `PROJECT.json` lists the components, runs,
mutants, hazards and theorems, and maps every definition to the source lines it
translates.

## 1. The system

| Component | State | Operations | What is hard |
|---|---|---|---|
| Research job queue (`research/jobs.py`, `job_worker.py`, `job_handlers.py`) | SQLite table `jobs`, directories `jobs/<id>/` | submit, claim, heartbeat, finish, request_cancel, requeue_after_cancel, reap_stale | several worker processes, each with a child process; reads and writes in different statements; killed workers; forced reruns of running jobs |
| Job housekeeping (`research/jobs.py`) | the same table and directories | prune_jobs, delete_jobs, orphan sweep | selects in one transaction, deletes in a later one |
| Live maker orders (`live/trader.py`, `trader_loop.py`, `pending_orders.py`, `reconcile.py`, `intent_store.py`) | journal of resting orders, local position, intents file | signal, submit, poll, WebSocket fill, cancel, reconcile, kill switch, restart | two threads and an exchange; lost answers, swallowed cancel errors, fills at any moment |
| Pairs engine (`live/pairs_engine.py`, `pairs_live.py`, `pairs_runner.py`) | two legs per pair, breaker, snapshots | entry, chase, exit, naked-leg repair, resume | a two-legged trade without a transaction |
| Control file (`live/control.py`) | one JSON file | load, save, from the runner, the bot and the CLI | read-modify-write by several processes |
| Risk gate (`live/risk_gate.py`) | loss counters, cooldown time, high-water mark | decide_entry, DrawdownBreaker.check | sticky flags, boundaries |
| Paper account (`live/account.py`) | cash, positions, trades | open, add, close, mark | arithmetic of partial closes |
| User stream (`live/ws_user_stream.py`) | listen key, socket | connect, keepalive, reconnect, dispatch | keepalive only between messages |
| Fill sync (`live/sync_engine.py`, `fills.py`) | watermark file, fill log | sync | log first, watermark later |
| Runners (`live/paper_runner.py`, `ts_momentum_portfolio_runner.py`) | snapshots, last bar | run_once, resume | missed bars, restart in the middle |
| Recorders (`bookticker_recorder.py`, `partition_writer.py`) | buffer, parquet parts | append, flush, roll over | crash between flushes |
| Exchange client (`data/client.py`, `weight_budget.py`) | weight window | request with retries | a budget shared by threads |
| Market data (`data/downloader.py`, `storage.py`, ...) | parquet files | paginated download, merge | page boundaries |
| Sweep store (`research/sweep_store.py`) | results table | upsert, already_done, resume | stale results of an older code version |
| API (`api/server.py`, `broadcaster.py`) | subscriber queues | subscribe, broadcast | slow subscribers |
| Backtest, features, ML, portfolio, strategies, validation, overlay | none across calls | pure computation on data frames | numerics, not control |
| CLI, dashboard, visualisation, MCP | none | calls into the above | none of its own |

How they interact.  The CLI and the dashboard submit, cancel, prune and delete
jobs through `JobStore`; worker processes started by `spawn_workers` claim them
from the same database file, run a handler in a child process and write the
results into `jobs/<id>/`.  Nothing is shared but the database and these
directories.  In live trading one thread runs `run_trader_once` per bar, the
user-stream thread calls `on_ws_order_trade`, and the two share
`PendingOrderManager` under one re-entrant lock; the Telegram bot talks to the
runners only through the control file.  Backtests and live runners share the
strategies and the cost model, but no state.

What makes each component correct, in a line: a job is run by one worker at a
time and ends in the status its run deserves; housekeeping never takes a live
job; the local position is what the exchange filled, or trading stops; both legs
of a pair are open or neither is; a pause survives every other writer of the
control file; a fill is logged and counted once; a resumed sweep or runner
continues where it stopped.

## 2. Modules

| Module | Models | State |
|---|---|---|
| `JobLifecycle` | abstract: the life cycle promised for each row | `life[i]`: status and attempt |
| `JobLifespan` | abstract: that life cycle, cut short by deletion | `life[i]`, `doomed` (the rows selected) |
| `JobQueue` | `jobs.py`, `job_worker.py` and their processes | `rows`, `nextId`, `art` (directories), `wk` (workers), `orphans`, `cancels`, `crashes` |
| `JobHousekeeping` | `prune_jobs`, `delete_jobs` on top of `JobQueue` | the above and `hk` |
| `FillLedger` | abstract: what books fills into a position | `filled`, `booked`, `position`, `restarted` |
| `LiveOrders` | the maker orders of a `LiveTrader`, its user stream, the exchange | `ord`, `exPos` (exchange); `told` (stream); `pending`, `booked`, `pos` (journal, account); `intents`; `tr` (trader thread); `tripped`, `bar`, `nextCoid`, `restarts` |
| `PairBook` | abstract: how the book of a pair may change | `held`, `book`, `saved` |
| `PairsLive` | one live pair: its runner, adapter and engine, the sync thread, the operator, the API's flatten, the exchange | `ord`, `exPos` (exchange); `pos`, `have`, `pend`, `live`, `waited`, `tripped` (engine); `rn`, `fresh` (runner); `snap`, `ctl` (files); `api`, `seenPos` (the other processes) |
| `PaperTrader` | one step of the paper runner: account, risk gate, breaker, ladder, maker orders | `candle`, `book`, `maker` |
| `ControlFile` | the writers of `control.json` | `link`, `file` (names and file objects), `writer` |
| `SyncEngine` | the thread that logs fills | `trades` (exchange), `logged`, `known`, `since` (store), `sync` (round), `drift` |
| `UserStream` | the listen key and the socket | `at`, `expired`, `mark`, `age` |
| `Klines`, `FundingHistory`, `AggTrades` | the caches of market data and their downloads | the cache, the download in progress, what the exchange has |
| `Recorder` | processes that record a stream into day files | `stamps`, `partition`, `recorder`, `held` (file locks), `gone` |
| `RestBudget` | REST retries and the pause shared through a file | `clock`, `pause`, `call` |
| `SweepStore` | a matrix sweep, its results table and trial ledger | `disk` (code), `results`, `trials`, `sweeper`, `passed` |
| `OosRegistry` | the registry of burned windows | `registry`, `burner` |
| `JobQueueProofs`, `JobHousekeepingProofs`, `LiveOrdersProofs`, `PairsLiveProofs`, `PaperTraderProofs`, `ServicesProofs`, `ComponentsProofs` | theorems about the modules of these names | |
| `KlinesProofs` | the lemmas about `Klines` that `ComponentsProofs` rests on | |
| `MCJobQueue`, `MCJobHousekeeping`, `MCLiveOrders`, `MCPairsLive`, `MCSweepStore` | constants for TLC | |
| `MCServices` | `ControlFile`, `SyncEngine`, `UserStream` side by side | theirs and `which` |
| `MCSystem` | `MCComponents`, or the `LiveOrders` of a setting without lost calls | theirs and `trading` |
| `MCComponents` | `PaperTrader`, the downloads, `Recorder`, `RestBudget`, `SweepStore`, `OosRegistry` side by side | theirs and `which` |

The components of `MCServices` and `MCComponents` share no state in the code,
so their product would only multiply states.  `which`, chosen at the start,
names the one that moves, and each state space is explored by itself in one run.
`MCSystem` does the same with `MCComponents` and the maker orders in a second
setting: without lost calls, which `LiveOrdersFaults` has.

### JobQueue

One step is one SQL statement, or one explicit transaction (`BEGIN IMMEDIATE`
in `submit`, `claim`, `requeue_after_cancel`).  What a process has read and not
yet used is in its own record, so it may be stale when the process writes:

| Action | Code |
|---|---|
| `SubmitNew`, `Resubmit`, `ForceSubmit` | `JobStore.submit` for a new, a failed or cancelled, and a forced fingerprint. A forced submit clears the directory in the same step as its update. |
| `CancelRead`, `CancelWrite` | the SELECT and the UPDATE of `request_cancel` |
| `WSelectStale`, `WReap` | the SELECT of `reap_stale` and each of its UPDATEs |
| `WClaim`, `WNothingQueued`, `WFetch` | the transaction of `claim` and the `get` after it |
| `WSpawn` | mkdir, `proc.start()` and the first heartbeat of `run_claimed_job` |
| `WPoll`, `WTerminate` | one turn of its wait loop (heartbeat, then `get`); `_terminate` |
| `WRead` | the `get` after the child's end and the decision made on it |
| `WRequeue`, `WClose` | `requeue_after_cancel`; `finish` with the attempt just read |
| `WError` | an exception in `run_claimed_job`, handled by `worker_loop` |
| `WCrash` | the worker is killed (OOM, SIGKILL) and started again |
| `ChildExit`, `OrphanExit` | a handler returns or raises; so does one whose worker is gone |
| `HeartbeatExpires` | `STALE_AFTER_SEC` pass without a heartbeat |

Abstractions.  `heartbeat_at` is one bit, `fresh`.  Rows are ordered by id where
the code orders by `created_at`, which two submits in the same instant may
invert.  `Heartbeat` and the `get` that follows it are one step, and so are
mkdir, start and first heartbeat: between them the process touches nothing that
another one reads.  Progress, pid, error text and `touch_worker` are left out.
A worker that stops because the code hash changed is one that stays idle.  A
child that survives SIGKILL is not modelled.  `run` of a worker is a history
field: the attempt under which it claimed its job.

### JobHousekeeping

`hk` is one call of `prune_jobs` or `delete_jobs` in progress: the rows it
selected and the ids it listed.  The cutoff of `prune_jobs` is a free choice
among the final rows.  Nothing else changes: every step of the queue may come
between its steps.

### JobLifecycle and JobLifespan

Insert as queued under attempt 0; claim a queued row; close a row that is not
yet final; requeue a row under the next attempt.  `JobQueue` implements it
through the mapping that keeps status and attempt (`ImplementsLifecycle`).
With the housekeeper rows are doomed, none of them running at that moment, and
those and no others go later, all at once; a row that is gone takes no step any
more and its number is never given again.  `JobHousekeeping` implements that
(`ImplementsLifespan`): an id below `nextId` whose row does not exist maps to
"gone", and the rows that a call has selected are the doomed ones until it
deletes or keeps them.  That a doomed row may be running by then is the weak
point: `RunningIsSpared`, which the docstrings promise, fails (section 3).

### LiveOrders

One trader on one symbol with `maker_execution`.  `PendingOrderManager` holds
its lock through the part of a poll that concerns one order, through one
`execute`, and through one stream event, so each of these is a step, and the
stream waits while the trader waits for an answer (`answer`).  `fetch_order` and
`fetch_positions` are called without the lock: what they return is in `tr`, and
fills, stream events and restarts may come before it is used.

| Action | Code |
|---|---|
| `StartCycle`, `PollFetch`, `PollFetchFails`, `PollApply` | `PendingOrderManager.poll` |
| `FetchPositions`, `FetchPositionsFails`, `Compare` | `reconcile_exchange_state`; a difference is `KillSwitch` |
| `Decide`, `NoDecision`, `NothingToExecute` | `execute_signal` up to the calls of `execute` |
| `Execute` | `LiveTrader.execute` and `_execute_live_maker`: cancel what is in the way, then `_submit_order` |
| `Answer` | the answer of `create_order`: register, or keep the intent |
| `StreamEvent`, `StreamLoss` | `on_ws_order_trade`; an event the connection lost |
| `Fill`, `Expire` | the exchange |
| `Restart`, `NewBar` | the process is killed and started again; the interval ends |

Abstractions.  Sizes are whole lots, an opening order has `Size` of them, and
prices, fees and equity are left out.  The signal and the gates that block
entries (control file, HMM, risk limits, breaker) are free choices.  A fill
between the two halves of a locked step is the same as one before or after it,
because the stream waits, so the cancel is in the step that decides on it.
"Late" is a free choice once the bar of an order is over.  Stream events of one
order come in order, those of different orders in any order.  The exchange
recognises every client order id it has ever accepted, as
`_recover_duplicate_intent` assumes.  Exit ladders are off, as by default (they
are in `PaperTrader`), and so is the market path, where the fill is in the
answer.  `shutdown` is left out.  No command of the repository starts a `LiveTrader` with `DRY_RUN=false`;
the model is of the class as its tests drive it.

`LiveOrders` implements `FillLedger`: the signed fills of the exchange, the
signed booked quantities and the local position (`ImplementsLedger`).  A booking
step moves the position by exactly the newly booked lots of one order, towards
what the exchange has filled.  The branches of `_book_pending_fill` that book
without moving the position are thereby shown unreachable until the process
starts again; afterwards the ledger allows a booking that leaves the position.

### PairsLive

`PairsLiveRunner` with its loop, its adapter and its engine, against an exchange
that fills and expires maker orders at any moment.  Every call to the exchange
is a step, and between any two steps the sync thread, the operator, the API, a
fill or a kill may come.  Four pairs of calls that follow each other at once are
one step: the chase and the closing of the other leg when it fails, the closing
of a leg and the cancel of the other, the two cancels of a time-out, and those
of a stop.

| Action | Code |
|---|---|
| `StartLive`, `CancelAll` | `start_live`: compare, or adopt the exchange's positions when the account is empty; cancel what rests |
| `LoadControl`, `Reconcile` | the head of a step: control file, `reconcile_runtime` |
| `PollFirst`, `PollSecond`, `PollRaises` | `_poll_leg`, once per leg: a transient error is "not filled", any other one leaves `on_bar` before the bar is counted |
| `BothFilled`, `ChaseFills`, `ChaseFails`, `UnwindLeg`, `NeitherFilled` | `_resolve_pending` by what the polls saw: book, chase the other leg with an IOC order, close the filled leg (whatever fails in that is a KillSwitch), count the bar |
| `Signal`, `BreakerHalts` | the second half of `on_bar`: quote an entry or an exit, or the breaker |
| `PlaceFirst`, `PlaceSecond`, `PlaceFails`, `PlaceRaises` | `_place_legs`, one call per leg; a lost answer is "not placed" for the adapter |
| `Persist` | the snapshot |
| `Stop`, `Shutdown`, `Crash`, `Restart`, `NewBar` | the end of the loop, SIGTERM, a kill, a new process on the last snapshot, the clock |
| `SyncFetch`, `SyncCompare` | `sync_positions` in its thread: what it compares may be old |
| `Operate`, `ApiFlatten`, `ApiCancelAll`, `ApiFetch`, `ApiClose`, `ApiDone` | buttons, and `emergency_flatten` call by call |

Abstractions.  Prices and the hedge ratio are left out: both legs have `Size`
lots.  Whether the price has run away (chase or unwind) is a free choice, and so
are the gates of `_can_open` and the drawdown.  The legging mode is the default
one, not `strict_both`.  An id of an order that is done
and that nobody tracks is used again, which bounds the orders that live at one
time and not those of a run.  `on_ws_order_trade` of the engine, which books
from the stream, is left out: the runners pass events on to it, but no code of
the repository connects a runner to a stream.  No command of the repository
starts the runner with live adapters; the model is of the class as its tests drive it.

`PairsLive` implements `PairBook`, with the legs of the local account and `have`
as the book, the exchange's positions and the book of the snapshot
(`ImplementsBook`).  A pair is opened as a whole, out of an empty book, with two
legs of `Size` lots on opposite sides, and closed as a whole and only if it is
believed in and has both legs.  A leg that is closed alone takes the belief with
it; a belief without both legs is only given up; every other position is adopted
from the exchange into an empty book or comes from the snapshot.  One promise is
weaker than one would want: an entry that is booked beside a leg nobody believes
in raises half way and leaves its first leg (`Strand`).

### PaperTrader

One step of `PaperRunner` is one call in one thread, so it is one action, and
its stages are operators on the trader's `book`, chained as the code calls them:
`Rolled` (day), `Resolved` (resting order), `Checked` (breaker), then `Hold`,
`Close` or `Open`, `Climbed` (ladder), and `Resolved` again after every
`execute`, as `execute_signal` does.  Money is counted in units of the entry fee
per lot; the limits are amounts where the code has fractions of the equity; the
ladder has two of its four rungs with the same ratios.  The signal and what else
may bar an entry (caps, weekly limit, HMM) are free choices.  A step may be
taken more than once on a candle, as `run_once` may.

### ControlFile, SyncEngine, UserStream

`ControlFile`: `save_control` writes one temporary file that all callers share
and renames it; the bot writes in place.  Names and file objects are told apart,
because a writer with an open descriptor goes on writing into a file that was
renamed meanwhile.  `SyncEngine`: the round of the sync thread, with the ids and
the watermark stored in two transactions; trades are numbered in the order of
time.  `UserStream`: `run()` with its key; a unit of time is quiet if some
receive in it timed out.

### Klines, FundingHistory, AggTrades

A bar, a rate or a trade is its number.  A download reads the cache, asks for
what is missing answer by answer, checkpoints, and saves; new data appears at
the exchange between any two steps, a fetch may fail for good and a process may
die.  `Klines` has the missing windows (prefix, holes, tail), a set whose first
member is fetched next as the code walks its sorted list, and remembers of a
cached bar whether it was fetched while open.  `FundingHistory` has the cursor
at the newest rate and the coverage check that decides about what is returned.
`AggTrades` has two workers under the file lock and the archive import, which
takes none: a flush loads the cache in one step and saves it in another, as a
download does.  `unseen` and `missed` are history fields: what the import wrote
since a worker loaded the cache, and what downloads saved since a flush did.
`missing_vision_periods` passes over days that it takes for complete (20 hours,
99 % of the ids), so which days these are is a free choice.  `Klines` and
`FundingHistory` have one download at a time, which the code does not ensure:
`_exclusive_fetch` is taken for trades only, and two downloads of the same klines
at a time would overwrite each other's save.

### Recorder, RestBudget, SweepStore, OosRegistry

`Recorder`: two recorders of one symbol, their buffers, and `append_rows` day by
day under the file's lock.  `RestBudget`: the retry loop and the shared pause,
with the file truncated before it is written.  `SweepStore`: `disk` is the
version of the strategy's code, a process has the version it loaded, and a row
keeps both (`ran` and `late` are history fields).  `strategy_code_hash` hashes
the source of the strategy's class and nothing else, so `ClassOf` says what the
class is in each version: an edit elsewhere in its module, in its base class or
in what it imports leaves the hash as it was.  The trial ledger is taken to be
configured; without a path `record_trial` does nothing.  `OosRegistry`:
`check_and_burn` with its two reads of the file.

## 3. Runs

| Run | Question | Bounds |
|---|---|---|
| `JobQueueFaults` | Does an attempt number stay a fencing token, is the force flag confined to running rows, and is the life cycle implemented, when everything fails? | 2 workers, 1 row, 2 reruns, 1 kill, stalls, errors, cancels, forces |
| `JobQueueHealthy` | Without faults, is a child always covered by its running row and a running row by its worker? | 2 workers, 2 rows, cancels, forces |
| `JobQueueLive` | Is every job settled, and does a succeeded one have its results? | 2 workers, 1 row, 1 kill, stalls, errors, cancels, no forces |
| `Housekeeping` | Does a deletion take what it selected and nothing else, does a deleted row stay deleted, and is its life before that the promised one? | 1 worker, 2 rows |
| `LiveOrdersFaults` | Is every lot booked at most once when everything fails, and is a missed fill noticed? | 2 orders of 2 lots, 2 bars, policy cancel, 1 restart; reads, cancels and submissions may fail, answers and stream events may be lost |
| `PairsLive` | Does the engine's view of a pair match its account, does it book only what the exchange confirmed, does its book change only as `PairBook` allows, and is a difference, or a resting order, resolved? | 2 orders of 1 lot at a time, 2 bars of waiting, every call may fail (lost answers, cancels, fetches, polls that fail or raise), signals 0 and 1, pause and resume, one upset (crash and restart, flatten, breaker, error, operator) |
| `Services` | Do serial updates of the control file hold and torn files heal; are fills logged, and how often; is the listen key kept? | 2 savers and the bot with 3 updates; 2 symbols, 3 trades, answers of 2, 1 crash, 1 miss; keepalive 3, life 6, 3 failures |
| `Components` | Does money balance and the breaker stay tripped; are caches complete and kept; is nothing received lost; are results and burned windows not forgotten; is the exposure at the exchange that of one order? | see below |

Two workers are enough for every race of the queue: each statement touches one
row, and a race is between the holder of a row and one other process (a second
worker, a client or the housekeeper).  Two attempts let a row be requeued,
claimed again and meet a worker of its first run.  One kill gives one orphaned
child beside one live one.  In `JobQueueHealthy` two rows make the order of the
queue and the reaper's loop matter.

Two lots make a partial fill, three orders an entry, an exit and the next entry.
Two bars let an order time out and an intent fall into another bar.
The maker orders of `Components` have 3 orders of 2 lots, 2 bars, policy wait
and the breaker, and only their reads may fail.  Lost stream events are excluded
there because a lost partial fill followed by
the event of the order's end drops the order with the fill unbooked, and an
order sent in the same cycle then exceeds the exposure.

`PairsLive` has one lot per leg: the code acts on a maker order only when it is
closed, so a part of it is the same to it as nothing, and a partial IOC fill is,
like none, "not confirmed".  The two orders of a pair trade are the most that are
tracked at a time; a stray order of a lost answer or of a chase takes an id
until it is done, so with two ids the next pair trade waits for its end.
One upset is one crash with its restart, or one intervention, or one error that
leaves `on_bar`.  Other failures of calls are not counted and may happen at every
call.  `Signals` of both signs and the button "no new" are parameters of the
model that a larger instance would turn on.

`Components`.  Paper trader: three closes that gain or lose a rung, a size of 50
(half of which is still divided by the ladder), limits that one bad trade
reaches, three candles and three steps, taker and maker, `WaitBars` 4: the
largest value for which no entry is left when the breaker is checked (an entry
is resolved twice in the step that places it, and twice in the next one before
the check).  Klines: eight
bars of which one does not exist at the exchange, answers of two, checkpoints
every second, three periods that overlap, two faults.  Funding: periods of two
and seven rates, answers of two.  Trades: two workers, two trades a day, an
import.  Recorder: two recorders, four events on two days, one mishap.  Sweep:
two processes, one cell, two edits, of which the first is outside the class, two
snags.  Registry: two processes, all
windows of two days.  Budget: two callers with three attempts.  In each of them
the mutants of `PROJECT.json` show that the bad case is within the bounds.

Fairness.  `DriftIsSettled` of `LiveOrders` assumes that the trader's loop keeps
running (weak fairness of its steps), that it is not paused for ever and that a
read that is tried again and again succeeds in the end (strong fairness of
`FetchPositions` and of each `PollFetch`).  `JobQueueLive` assumes that worker processes are
scheduled (weak fairness of a worker's own steps: `worker_loop` is an endless
loop with a short sleep), that a handler returns (weak fairness of `ChildExit`),
and that time passes for a row nobody attends (weak fairness of
`HeartbeatExpires`).  `PairsLive` assumes that the loop goes on (weak fairness of
`RunnerStep`, an endless loop with a sleep), that bars close (strong fairness
of `NewBar`, which is enabled only between two steps), and that the poll of a leg
does not raise for ever (strong fairness of `PollFirst` and `PollSecond`).  The
last is a true assumption about the exchange: while `fetch_order` keeps raising
what is not a transient error, an unknown order for instance, `on_bar` ends
before the bar is counted, the orders rest, and neither the time-out nor the
breaker is looked at.  `Services` assumes that a
writer that has begun goes on, that the sync thread and the stream's coroutine
are scheduled (weak fairness of their steps; strong fairness of the first step
of a round, which a drift disables), and that the operator settles a drift.
Nothing is assumed of clients, crashes, stalls, fills, operators' buttons and
errors.

Four runs are expected to fail.  Each checks one sentence of a comment or of
the documentation that the code does not keep; `findings` quotes it.

| Run | The code does |
|---|---|
| `PruneTakesRunning` | `prune_jobs` and `delete_jobs` delete by id, in a later transaction than the one that looked at the status: a job that was queued again and claimed in between is deleted while it runs |
| `LiveOrdersDuplicate` | a process killed while it waits for the answer keeps no intent, and the next one sends the order again |
| `SweepResume` | the hash of a result is taken from the file on disk after the cell has run, so a process with old code stores its result under the new hash, and a resume passes over it |
| `PaperMaker` | a paper maker order placed at a bar's close is resolved at the end of the same step against that bar's high and low |

### What else the models show

On the following no run is spent: no sentence of the repository denies them, or
it is one that a run above already stands for.  The properties are worded so
that they allow for them.

*Job queue.*  Two reapers read the same stale row, and the second one requeues
it after it was claimed again.  A forced rerun between the worker's read and its
`finish` is lost, because `finish` is given the attempt just read, which a force
does not change; after a stall a reaped worker closes its successor's run the
same way.  A deletion removes the directory of a job that was claimed after its SELECT,
and the sweep of orphaned directories that of a job that was submitted after it
had read the ids.  A cancel that read a queued row
and updates it after a claim is dropped.

*Maker orders.*  A fill between `fetch_order` and the cancel is not booked.  A
tripped breaker leaves a resting entry at the exchange.  An order whose cancel
fails is dropped from the journal and rests on.  A close that cancels a partially
filled entry leaves its position until the next cycle, against the comment at
`trader.py:532`.  The key of an intent holds its bar, so that no later decision
inherits an order of another size (`trader.py:632-641`).  Within one bar it may:
after a restart `_recover_duplicate_intent` registers a close of the former life
that is larger than what the new position has.  `OneFittingOrder` therefore
promises the fit until the first restart only.

*Pairs.*  The step reconciles before it resolves its own orders, so a fill of a
tracked order since the last step is a difference and a KillSwitch.  The chase
does not cancel the maker order it replaces; with a lost answer the exposure
reaches three times `Size`.  A failed chase on exit with a stray fill leaves one
leg.  `start_live` adopts whatever the exchange holds when the local account is
empty, where the module's docstring (`pairs_live.py:12`) says KillSwitch.  After
an error in `_place_legs` the engine holds an intent without orders and quotes
nothing until the breaker or a stop clears it.  Legs that the engine does not
believe in (`have = 0`) make every booking raise.  A restart forgets that the
breaker had tripped.  A paused runner leaves its orders unwatched, and so does one whose polls raise.  A step that
loaded the control file before a flatten goes on placing orders.

*Paper.*  The day rolls forward by the clock and back by the closed candle
within one step, which resets the daily anchor and the loss streak twice.  A
failed or blocked entry leaves a new ladder, and a rung is used although its
close timed out.  The fraction of a rung is taken from what is left, where
`exit_ladders.py:19` says of the initial position.  With `MAKER_FILL_WAIT_BARS`
of five or more an entry may be filled after the breaker has tripped: the counter
counts calls, not bars.

*Control file.*  Two updates at a time may undo each other.  With the shared
temporary file a rename may publish a file that another one is writing, or find
none.  The bot writes in place although its docstring says atomically.

*Services.*  The watermark of fills is one for all symbols and may pass a trade
of a symbol whose fetch failed, or that had been asked for already.  A drift
ends the round before fills are logged.  A stream that is never idle never
renews its key, and a failed refresh reconnects with the old one.

*Data.*  A merge of klines that are out of order may keep either copy of a bar.
A full answer that ends with the open bar leaves it as it was.  An interrupted
funding backfill leaves a hole behind the cursor that no later download fills;
below 90 % of coverage the period is refused for ever.  A REST download of
trades overwrites what an import wrote since it loaded the cache, and a flush of
the import what a download saved since the flush loaded it; `LostOnlyToRace` says
that nothing else is lost.  A resumed sweep passes over results of other code if
the edit was outside the strategy's class.  A row with a
timestamp that the file has already replaces it.  Two researchers at a time may
both burn a window, and the creation of the registry may cut off another's row.
A reader of a torn pause file does not pause.

## 4. Proofs

A run checks one instance; the theorems hold for every value of the constants
that the named assumptions admit, and those say little more than that counts are
natural numbers and sizes positive.  They are about the specification of each
module; `AllSpec` is that of `MCComponents`.  Where a run has several of them
side by side, the steps of each are those of its own specification.

| Module | Theorem | States | Assumes |
|---|---|---|---|
| `JobQueueProofs` | `TypeCorrect` | `Spec => []TypeOK` | `BoundsAssumption`, `NoFpAssumption` |
| | `AttemptIsFencingToken` | `Spec => []OneHolderPerAttempt` | |
| | `ForceFlagOnlyOnRunningRows` | `Spec => []ForceOnlyWhileRunning` | |
| | `RefinesLifecycle` | `Spec => ImplementsLifecycle` | |
| | `SuccessMeansResult` | `Spec => []SucceededHasResult` | no forced submits |
| | `OneChildPerJob`, `RunningRowIsHeld` | `Spec => []ChildOnlyWhileRunning`, `Spec => []RunningIsHeld` | no worker stalls, fails or is killed |
| `JobHousekeepingProofs` | `DeletedNeverReturns` | `HSpec => DeletedStaysDeleted` | those of the queue |
| | `RefinesLifespan` | `HSpec => ImplementsLifespan` | |
| | `FencingSurvivesHousekeeping` | `HSpec => [](OneHolderPerAttempt /\ ForceOnlyWhileRunning)` | |
| `LiveOrdersProofs` | `TypeCorrect` | `Spec => []TypeOK` | `LiveBounds` |
| | `OneFittingOrderAlways` | `Spec => []OneFittingOrder` | |
| | `LedgerImplemented` | `Spec => ImplementsLedger` | |
| | `ExposureAlwaysBounded` | `Spec => []ExposureBounded` | only fetches fail, no restart |
| `PairsLiveProofs` | `TypeCorrect` | `Spec => []TypeOK` | `PairsBounds` |
| | `HaveMeansLegAlways` | `Spec => []HaveMeansLeg` | |
| | `NeverPaper` | `Spec => NeverPaperOnLive` | |
| | `RefinesBook` | `Spec => ImplementsBook` | |
| `PaperTraderProofs` | `TypeCorrect`, `LedgerCloses` | `Spec => []TypeOK`, `Spec => []LedgerBalances` | `PaperBounds` |
| | `BreakerIsFinal` | `Spec => BreakerStaysFlat` | `WaitBars <= 4` |
| | `LadderProfits` | `Spec => LadderTakesProfit` | |
| `ServicesProofs` | `TypeCorrect` | `Spec => []TypeOK` | `ServicesBounds` |
| | `SerialUpdatesAlwaysHold` | `Spec => []SerialUpdatesHold` | |
| | `LoggedOncePerBreakAlways` | `Spec => []LoggedOncePerBreak` | |
| | `QuietKeysAlwaysLive` | `Spec => []QuietKeysLive` | |
| `ComponentsProofs` | `ComponentsTyped` | `AllSpec => []ComponentsTypeOK` | `ComponentsBounds` |
| | `BurnedForGood` | `AllSpec => []BurnedStaysBurned` | |
| | `ResumeIsCurrent`, `StoredWasCounted` | `AllSpec => []PassedIsCurrent`, `AllSpec => []StoredIsCounted` | |
| | `PausesAreKept` | `AllSpec => []OwnPauseIsKept` | |
| | `NothingReceivedIsLost` | `AllSpec => []ReceivedIsKept` | |
| | `RestIsGapless`, `OnlyRacesLose` | `AllSpec => []RestLeavesNoGap`, `AllSpec => LostOnlyToRace` | |
| | `PeriodIsCovered`, `CoverageIsKept` | `AllSpec => []DownloadCoversPeriod`, `AllSpec => []ReturnedIsCovered` | |
| | `CachesStay` | `AllSpec => CachesAreKept` | |

Two of these are not checked by a run of their own, because a refinement that
is checked contains them: `HaveMeansLeg` follows from `PairBook`, in which only a
whole pair, an adopted one or one of the snapshot is believed in, and
`DeletedStaysDeleted` says of the whole row what `JobLifespan` says of its status
and attempt.

The entries of the last column that are not a module's named assumption restrict
a theorem to what the property's run has too, because the statement is false
beyond it: section 3 tells what a forced submit, a stalled worker, a lost stream
event or a longer `WaitBars` does.

### The arguments

*Job queue.*  `OneHolderPerAttempt` is not inductive by itself.  `IInv` adds the
types, that ids are given out in order (`IdsInOrder`: rows and
held jobs are below `nextId`, so a new row is held by nobody), and that a row's attempt never falls
behind the run of any holder.  The key lemma `NextTable` says what any step does
to the table: a row changes by one of the updates, none of which lowers an
attempt, and only `WClaim` moves a row to running.  `HolderInvStep` then has two
cases: a step that changes the holders (one claim, of a queued row, whose
attempt nobody holds) and a step that changes rows.  `RefinesLifecycle` maps
each update to a step of the abstract life cycle (`RowChangeIsLifeStep`).
`ResultKept` says that whoever still carries a success, as a child that ended
well or as a verdict, has its results in place; without forced submits no
directory with results is cleared.  `Healthy` is the fault-free queue: rows are
fresh, so that the reaper selects nothing, a worker's row is the one it claimed,
and no two workers have one job.

*Housekeeping.*  The queue's `IInv` survives the housekeeper's steps, and `HInv`
adds `NoGhosts`: a row that is gone is the `AbsentRow`, so no attempt and no
flag of it is left, and no statement of the queue finds it
(`QueueSparesTheDead`), and `Targets`: what the call in progress has selected
are ids that were given out.  Hence `RefinesLifespan`: a
step of the queue is a life step of a row that is there, or none
(`SameTargets`); a selection dooms rows that are not running
(`SelectionDooms`); and the deletion takes exactly those (`DeletionEnds`).  Ids
are given out in order, so a new row is never one that is gone.

*Maker orders.*  `IInv` says what each place of the trader's cycle may rely on:
a report that is not yet applied has fallen behind the exchange and never run
ahead of it (`ReportSound`), an answer that is awaited finds an empty journal
(`AnswerSound`), an intent belongs to its order (`IntentSound`), and a close
whose answer was lost in this bar is still as large as the position
(`LostSound`).  The last is what makes the recovery of a duplicate safe, and
what a restart breaks.  Given `IInv`, every step is one of the ledger's: a fill,
a booking of one order, a fresh start, or none (`LedgerFill`, `LedgerBook`,
`LedgerStart`, `Unseen`).  `ExposureAlwaysBounded` needs more, `Exposed`: every
open order is tracked; what the stream told is booked, so that an order that is
dropped has nothing left to book; the tracked order bounds the difference
between the two positions (`OpenSound`, `CloseSound`); and after each stage of
the cycle (`Steady`) an order may be sent only when the positions agree as far as
that order matters (`MayClose`, `MayOpen`).

*Pair.*  That a pair which is taken for open has its leg follows from what the
engine's bookings rest on: a closed order is full (`OrderSound`), the tracked
orders exist, belong to an intent and stay closed once a poll has seen them so
(`LiveSound`), legs are placed with lots (`PlaceSound`), and the snapshot of an
open pair has its leg too (`SnapSound`), which is what makes a restart harmless.
`RefinesBook` needs to know what a booking books.  `TermsInv` carries the terms
of a quote, an entry while no pair is believed in or the exit of a believed pair
with both legs, through both submissions and while the orders are tracked: each
order has the side and the lots of its leg of the quote.  The polls' verdict
"closed" and `OrderSound` then make the legs that are booked those that were
quoted; what the book holds besides decides between `Open` and `Strand`.

*Paper trader.*  That cash is what was realised less the fee of the open
position is kept by a close only if the close takes no more than there is, and
by an entry only if it has lots.  So `IInv` is that the candle has integers and
the book is `Sound`: typed, balanced, and `Fits`.  A step is a chain of operators
on the book; one lemma per operator says that it keeps the book sound, and each
action composes them.  The full close needs one fact of arithmetic, `WholeShare`:
the whole fee goes with the whole position.  `BreakerInv` counts the looks that a
resting entry has left and that a step still takes (`Rested`, `Ending`): with at
most four none is left when the breaker is checked.  `LadderInv` is that a
taker's ladder has the entry and the side of its position (`Matched`).

*Services.*  Three invariants, one per service, composed because only one moves.
`StreamInv` relates the age of a key to the keepalive's mark.  `SyncInv`
(`Remembered`) relates the log to the ids that the store and the round know.
`ControlInv` says that a torn file has a writer with an open descriptor
(`FilesSound`), and that without an overlap one writer is busy at most, who will
write what is owed to the file that has the name (`AloneSound`).

*Components.*  Likewise one invariant per component, composed in `AllInv`:
`OosInv`, `SweepInv`, `BudgetInv` (the pause a caller was told fits the stage it
is in, `CallSound`), `RecInv`, `FundInv`, `AggInv` (a busy worker has the lock
and has seen all but what was imported since, `LockSound`; what it fetched has
no hole, `FetchSound`; a flush has loaded all but what was saved since,
`FlushKnows`), the trader's `IInv`, and `KlinesInv`.  The last says of
a download, for each bar of its period that the exchange has, that it is in the
cache, among what was fetched, or in a window still to be fetched (`Loaded`),
that a bar fetched open is the last of the cache (`OpenLast`), and that it is
fetched again before any bar behind it (`LastAgain`).  `CachesStay` adds that a
save writes back all that is cached (`KeptInv`, `RatesInv`): what the download
loaded and fetched since covers the cache, and a bar that it has as closed was
over when it was fetched, so a newer copy is not an open one.  First and last
elements of sets of bars, rates and trades exist by the well-foundedness of the
natural numbers (`WFMin`), which needs no induction over data.

### Only model-checked

- *Liveness*: `EventuallySettled`, `DriftIsSettled` of the orders and of the
  pair, `OrdersDoNotRest`, `TornHeals`, `TradesAreLogged`, `ListensAgain`.
  Fairness and ENABLED are out of TLAPS's reach.
- `RunningIsSpared`, `NoDuplicateOrder`, `PassedRanOnDisk` and
  `FilledOnALaterBar`, which the code does not keep.

## 5. Not modelled

Most of the repository computes on data frames or draws.  What has no state
between calls and no second actor has no behaviour for a model checker to
explore, and its correctness is numerical; it is left to the tests:

- *Backtest engines, features, machine learning, portfolio weights, validation
  statistics, strategies, overlay*: sequential floating-point computation.  The
  trader models take the signal and the strategies' gates as free inputs.
- *Experiments, scripts and notebooks*: each is a sequential program of its own
  around these functions, run by hand.
- *Live reports, research reports, charts, data quality*: pure functions of
  finished tables.
- *Live state store and snapshots*: single-statement writes to SQLite.  The
  snapshot that a restarted pairs runner resumes from is in `PairsLive`.
- *Command line, dashboard, application facade*: user interface.  Its calls are
  the client actions of `JobQueue`, `JobHousekeeping`, `ControlFile` and
  `PairsLive`.
- *Rust core*: a stub that no Python code depends on for control.

This is why the mapped lines are a small share of all lines, and a large
one of those in which processes, threads, files and the exchange meet.

Of the components that are modelled in part, the following is left out.  The job
queue: progress, pids, what a handler computes.  The maker orders: the market
path and `shutdown`.  The pair: several pairs with the correlation gate,
add-ons, paper fills of the engine, bookings from the stream and the mode
`strict_both`.  The risk gate: the news filter and the
correlation of pairs.  The paper account: funding and snapshots.  The stream:
`maybe_keepalive` and `regenerate_listen_key`, which `run()` does not call, and
the parsing of events.  The runners: the portfolio runner, which takes the same
account through a list of symbols in one thread.  The downloads: PostgreSQL
instead of parquet, the quality checks of a save (a batch with critical bars is
refused), liquidations and open interest, which have the cursors of what is
modelled.  The exchange client: the weight counter, which is under one lock in
one process.  The API: endpoints that only read, and the broadcaster, a set of
sockets that one event loop sends to.  The bot: its text.

## 6. Plan

Done: the job queue with housekeeping; the maker orders against `FillLedger`;
the pair; the paper trader; the control file, the sync thread, the user stream;
the downloads, recorders, retries, the sweep store and the registry.  Proved:
every safety invariant and every action property of the passing runs, and the
four refinements (life cycle, lifespan, ledger, pair book).

Next, in this order:

1. A larger instance of the pair with both signs.
2. Two downloads of the same klines at a time.
3. Two pairs on one account, and the portfolio runner on its snapshot.
