# Arbitrage bot: a TLA+ verification project

The bot scans stable-coin arbitrage routes, trades them on paper or as a live
dry run, records what it did, and is steered by operators over HTTP while it
runs. This directory models its state machines, model-checks them with TLC and
proves their invariants with TLAPS. The source is under `src/` (the paths below
are relative to the repository root as `PROJECT.json` names it).

Everything in the Python program runs on one asyncio event loop. An action of a
model is therefore the code between two awaits; concurrency is the interleaving
of those segments between the scan task and the HTTP handlers, each with its own
database session. An ORM write is two steps: a load of the row, then a commit
whose UPDATE holds only the columns that differ from the loaded values.

## 1. Inventory

| component | state | operations | interacts with |
|---|---|---|---|
| `BotRunner` scan loop, `src/app/jobs/runner.py` | the scan task, hydrated flag | `start`, `stop`, `_scan_loop` (a cycle: row → flag, drawdown stop, then per route quote → evaluate → attempt → execute → record → save), `_persist_route_runtime_state` | every component below, through awaits |
| `GlobalRiskManager`, `src/app/risk/manager.py` | `global_kill_switch`, `daily_realized_pnl`, `day_anchor`, route pauses, cooldowns, failure and loss counters, strategy/venue/pair pauses, rate-limit hits | `mark_success`, `mark_failure`, `pause_*`, `resume_*`, `clear_cooldown`, `hydrate_route_state`, `evaluate`, `should_stop_for_daily_dd` | called synchronously by the scan loop and the handlers |
| control API, `src/app/api/router.py` | one handler per request | pause, resume, stop-all, switch-mode, enable/disable-route, enable/disable-strategy, venue, clear-cooldown, backtest, read-only views | repository, risk manager, live engine |
| `Repository`, `src/app/db/repository.py` | the tables | upserts of `runtime_controls` and `route_runtime_states`, append-only inserts of opportunities, attempts, executions, events, backtests | one session per caller |
| paper / live engines, `src/app/execution/` | `runtime_armed` | `execute`, `dry_run`, `arm_for_live`, `disarm_live` | scan loop, switch-mode |
| `ArbExecutor`, `src/contracts/ArbExecutor.sol` | owner, paused, allowlists, routes; balances in the tokens | `executeArb`, `emergencyWithdraw`, registration and allowlisting | routers and tokens, one transaction at a time |
| health collector, `src/app/health/collector.py` | windows of RPC, database, gas and alert samples, of latencies and quote probes, the heartbeat, route snapshots | `record_*`, `heartbeat`, `set_quality_status`, `to_risk_snapshot` | filled by the health loop and the scan loop, read by `evaluate` |
| quote engines, `src/app/quote_engine/` | when an edge was first seen, per route | `quote_route`, `_update_persistence` | scan loop |
| alert service, `src/app/alerts/service.py` | none | `send` | scan loop, whose alerts the health collector counts |
| confidence vocabulary, `src/app/utils/confidence.py` | none | normalisation and order of fee, balance, quote and support words | `evaluate`, backtest, readiness |
| backtest engine, `src/app/backtest/engine.py` | a run's accumulators | `run`, replay, finalisation | repository |
| commissioning, readiness, `src/app/commissioning`, `src/app/readiness` | none | KPI gates, phases, readiness blockers | repository |
| exchange adapters, contract client, dashboard, utilities | connections | network and rendering | – |

What is hard, and what correctness means, per component:

- **Scan loop and control API.** A request changes the row first and the flag
  some awaits later; the loop reads the row one await before it copies it to the
  flag. Pausing must stop trading, although not at once; a resume must not leave
  a stale stop; the drawdown stop must bound a loss it looks at only once a
  cycle. Exceptions end a cycle anywhere, and a crash keeps the row only.
- **Route state.** Memory is the authority while the process runs and the row
  after it. Two savers of one route may interleave. A quarantined route must not
  be traded again because of a restart.
- **Records of trades.** Opportunity, attempt, execution and route state are
  separate commits: a failure between two of them leaves a partial record.
- **Risk gate.** About thirty guards in a fixed order, half of them on data whose
  origin must be known; live must be at least as strict as paper.
- **Health.** Windows of samples of different ages decide whether to trade;
  windows must forget, and a missing sample must not look healthy.
- **Contract.** Two external calls with arbitrary routers in between. Either the
  trade happens within all limits or nothing does, and it never pays out of what
  the contract holds for itself. A leg's allowance is not reset after the router
  call, so what a router leaves of it can be drawn at any time later.
- **Quote engines.** The timer of an edge lives across quotes that fail and modes
  that change; what it says must be about the edge that is traded.
- **Backtest.** A run is written row by row and may fail at any commit. It must not
  look ahead, nor trade what the gate would refuse, and its status must be true.
- **Readiness and commissioning.** Two passes over the same rows with several
  thresholds each (`>=` against `>`, rates of nothing): they must not disagree, and
  a route must not lose its standing because good evidence arrived.

Every hazard is listed at its line in `PROJECT.json` with the property that
would catch it going wrong, or the reason there is none.

## 2. Modules

| module | models | proofs |
|---|---|---|
| `KillSwitch` | the global stop: row, flag, arming, requests, scan cycle, daily result | `KillSwitchProofs` |
| `QuarantineStore` | abstract: what the bot promises of a quarantine | – |
| `RouteRuntime` | a route's quarantine: memory, saved row, savers, startup, crash, refining `QuarantineStore` | `RouteRuntimeProofs` |
| `TradeLedger` | what is on record of the trades: attempts, executions, the daily result | `TradeLedgerProofs` |
| `AtomicArb` | abstract: what the contract promises | – |
| `ArbExecutor` | the contract, leg by leg, refining `AtomicArb` | `ArbExecutorProofs` |
| `HealthGate` | the health and alert windows, the heartbeat, and what the gate makes of them | `HealthGateProofs` |
| `EntryGate` | the entry of a route: edge timer, failed quotes, peg, rate, pauses, modes | `EntryGateProofs` |
| `Confidence` | the words for evidence, their order, the evidence guards of the gate | in `BacktestProofs` |
| `Backtest` | a replay run, from its row to its status (uses `Confidence`) | `BacktestProofs` |
| `Promotion` | the evidence on record, readiness, KPIs, gate, phase, score (uses `Confidence`) | `PromotionProofs` |
| `MC*` | the instances for TLC | – |

Five modules look at the scan loop, each at a part of its state that is coupled: what
stops it, what it saves of a route, what it records of a trade, what it knows of its
health, and why it enters. Each leaves the guards and outcomes that are the subject
of another one open. `HealthGate` composes the collector, the alert service, both
loops and the pause handlers; `EntryGate` the quote engines, the risk manager and the
scan loop.

### 2.1 KillSwitch

State: `control` is the `runtime_controls` row; `kill` and `armed` the in-memory
flags; `req[h]` a handler with the next segment it will run and the row its
session loaded; `scan` the cycle (where it is, the row it read, whether the
drawdown check fired, which route is next); `pnl`, `anchor`, `today` the daily
result. `released`, `releases` and `late` only observe.

`Accept` is a handler up to its first await, `LoadPause … Finish` its segments in
the order the source awaits them (`stop-all` writes the pause and then the mode;
`switch-mode` to stopped writes the mode, then the pause on the object it
refreshed, and never touches the flag). `FailRequest` is a database error at any
await. The scan segments are `ScanQuery`, `ScanApply`, `ScanCheckDd`,
`ScanWriteStop`, then `ScanBlocked`, `ScanTradable`, `ScanSettle` per route, and
`ScanSleep`; `ScanFail` is the `except` branch, which itself writes an alert row,
so the loop either starts over or the task is gone. The guards of `evaluate`
other than the flag are left open here: any route may be blocked.

`DailyResultBounded` is about the number the stop looks at, which the first success of
each day restarts: a process may lose as much again every day, and a restart forgets
it. What a real day loses on record is `DayLossBounded` of `TradeLedger`.

Bounds: `MaxPnl`, `MaxDay`, `MaxReleases`, `MaxCrashes`, all of them guards. Two
routes, one of them a shadow route that trades on paper in every mode, one request
at a time of any operation, a midnight and a crash put every segment of every
handler between any two of a cycle. Handlers that overlap each other are beyond the
run; the safety theorems of `KillSwitchProofs` hold for every set of them.

### 2.2 RouteRuntime and QuarantineStore

State: `mem[r]` is the risk manager's pause, cooldown and counters, `row[r]` the
saved copy, `save[a]` the save an actor is doing (captured state, loaded row),
`dirty[a]` what it changed and has yet to save. A bad quote is found by
`ScanBadQuote` and counted by `ScanMark` after the awaits that record it, whatever an
operator did to the route meanwhile. `Change` is one synchronous mutation; a save is `Capturing`, `SaveLoad`, `SaveCommit`; `Abandon` is an
exception. `BootQuery`/`BootApply` are `BotRunner.start`, which runs beside the
scan task it created before. `torn` and `truth` only observe: `torn[r]` tells why
the row may differ from memory, `truth[r]` is what the memory would be had the
process never crashed; a change that was not saved, or whose save collided, may
be forgotten by the crash.

`HydrationWins` is the assumption that the restored rows arrive before the first
cycle lists its routes. The code does not enforce it. The passing run and three
theorems assume it; the run `route_hydration_race` drops it.

`QuarantineStore` is what an operator may rely on: one durable store that holds each
route for reasons (pause, cooldown, failures, losses), trades a route only while there
is none, and drops a reason only by the operation that lifts it, a cooldown also by
time, a hold for losses by nothing. `KeepsQuarantine` is the refinement: `held` is read
from the memory while the process is up and from the row while it is not, `atRisk` are
the routes with a change that is not yet saved or was not saved cleanly, `trading` is the
scan's trade. A restart leaves a route alone unless it is at risk. `QuarantineHolds`
speaks of the moment a trade begins only; the refinement speaks of every step, and of
how much of the state each operation may touch.

Bounds: `FailBound`, `MaxNow`, `MaxCrashes`. Limits of one failure and one loss
make every counter reach its limit; `route_restart` has limits of two, so the counters
also survive below them. It has one operator beside the scan loop, which is enough
for two saves of one route to overlap. The runs have one route; that a request which
clears several routes saves each of them is what `RowMatchesMemory` proves for every
set of routes.

### 2.3 ArbExecutor and AtomicArb

State: `bal` and `allow` are the balances and the contract's allowances the running
transaction sees, `settled` and `granted` those the chain has committed, `conf` the
owner's configuration, `tx` the call in progress. `Begin`, two legs and `Settle` are
`executeArb`; `Revert` restores what was committed. A leg is `Approve` (the checks of
`_executeStep`, `_safeApprove` and the balance before), the router call, and `Return`
(the balance after). In the call any router may `Pull` any token within its allowance
and `Give` what it has, since of the call's data only the selector is checked, and a
router may call others. The source does not reset an allowance after the call: what a
router leaves of it stands, also after the transaction, so `Pull` happens between
transactions as well. Checks that fail before the first transfer change nothing and
are stuttering steps; a step whose pool, fee or selector is not the registered one
fails that way, so the legs are the registered ones. Ownership goes to externally
owned accounts only.

What the contract holds *for itself* (`Own`) is its balance beyond the units that
routers may still take (`Claims`). The properties are about that amount: the contract
does not promise that its balance stays, because a router may draw an allowance it
was left. An owner who keeps funds in the contract should know this; the allowance
of an allowlisted router goes away only when the router uses it up or the next leg
over that router and token replaces it.

`AtomicArb` has one step per outcome: a pending call is committed as a whole (the
owner receives at least what the call demands, no other account changes, only the
routers of the route may be allowed more than before, for the tokens they sell, and
what the contract holds for itself does not shrink) or rejected with balances and
allowances untouched; between calls, a router may draw what it is allowed to.
`ArbExecutor` implements it with `ledger <- settled`, `allowance <- granted`,
`own <- OwnFunds` and `pending <- Pending`.

One call with amounts up to 1 in each step (several steps of a router add up to more),
two routers, two tokens, a two-token route and a route that starts and ends in the same
token reach partial fills, allowances that outlive their call and are drawn later,
registration before a removal from the allowlist, and reverts at every point. In this
instance a committed call with a minimum profit leaves an allowance behind, and a
withdrawal can leave less than the allowances.

### 2.4 TradeLedger

State: the tables `attempts` and `executions`, the stop `halted`, the cycle `scan`
with the local variables of the trade in progress, and the daily result. A trade
is `ScanAttempt`, `ScanExecute` (execute and mark, before anything is written),
`ScanSave`, `ScanOutcome`, `ScanExecution`, `ScanAlert`: one action per commit, in
the order of the source. `ScanFail`, `Crash` and `NewDay` come between any two.
The handlers that pause and resume appear as `Resume`, the stop as one flag;
their races are the subject of `KillSwitch`. `saved` and `unfiled` only observe.
Opportunity rows and observations are append-only and no property is about them.

Bounds: `MaxAttempts`, `MaxDay`, `MaxResumes`, `MaxFailures`, `MaxCrashes`. One of
each event and three trades put every event between every pair of
commits, and let a day be lived by two processes.

### 2.5 HealthGate

State: `row`, `kill`, `pending` are the pause as in `KillSwitch`, reduced to two
handlers; `heartbeat` is the age of the scan loop's heartbeat; `newest[p]` the age
of the newest result of a probe, if that was good; `alerts` the ages of the failed
alerts. `stopAge` and `trades` only observe. Time is `Tick`, which ages everything;
ages are relative and stop where the code no longer tells them apart, so the model
has no clock and no bound on time.

`HealthSample` and `GasSample` are the health loop, which may hang in either;
`ScanStart … ScanAlert` are a cycle with the points at which the windows are
trimmed; `ScanFail` is the `except` branch with its alert, `ScanDies` the case in
which that fails too. `Admits` holds the guards on the pause, on reachable and known
probes, on the heartbeat (`clock_skew`) and on alert failures. The guard on the age
of the snapshot (`stale_health`) has no counterpart: the scan loop calls
`set_quality_status` right before it evaluates and so resets the age it measures.
That a hanging health loop is caught all the same is `EvidenceBounded`: the windows
empty themselves, and unknown is not healthy. A failed gas probe records a price of 0,
which passes the guard on a high price.

Bounds: `MaxIncidents`, alerts that no trade causes. A window and a heartbeat limit of
two ticks are the least in which a sample can be fresh, old and at the limit; a
threshold of two lets trades and incidents share the budget. There is one probe; a
route needs all of them, and none influences another.

### 2.6 Confidence and Backtest

`Confidence` translates the normalisations of words from older versions and the rank
comparisons, and the three evidence guards of `evaluate` on top of them.

`Backtest` has the tables (`run`, `trades`, `result`), the accumulators `acc`, the
pointer `seen` into the health rows, and the session. Each action is one await of
`run` in the engine: `Create`, `ListRows`, one `Replay` per row, `StoreResult`,
`Complete`. `DatabaseFault` may or may not have committed and may leave the session
unusable, `DataFault` is a payload that cannot be read, `Fail` the `except` branch,
`Escape` an exception outside of it, `Crash` the end of the process. The blocked
reasons are one outcome, as no property tells them apart. The run ends, so deadlock
is not checked. Nothing in the code repairs a run that a crash left `running`, and a
failed run may keep its result row: neither contradicts what the code or a doc says,
so they are remarks and not findings.

Bounds: histories of at most `MaxRows` rows and `MaxHealths` health rows, with every
row an element of `Rows`. Three rows and two health rows give every order of two
changes of health and a row, at equal timestamps too, and curves with a fall after a
peak.

### 2.7 Promotion

State: what is on record of one route, counted: real and mock snapshots, the days of
the first and the last real one, opportunities by reason, those of the last day, runs
by mode, the latest health row, the persisted pause and cooldown, failed attempts. The
actions write rows: in stretches of scans, a health row, a run, a failed attempt; or
they release, let a cooldown end, let a day pass. Everything else is a function of
that state: `Blocks` and `Grade` are readiness, `Verdict`, `MinimumGatePassed`,
`PromotionStatus`, `Phase` and `Score` commissioning. A report is read in one go: rows
written between its queries would make it a report of a moment in between. Rates are
in 1/100000 and scores in thousandths, with the rounding of the source; time is in
days.

Some behaviours of the code worth knowing, all in the model: the observation window
counts real snapshots only while opportunities are counted from any source; failed
and unfinished runs count as evidence; a run is counted by the first `replay_mode=` of
its notes until it has a result and by the result afterwards, so that notes which name
another mode lend a route evidence that the result takes back, its ready status with it
(`StoreResult`); runs of the legacy mode count in the total only; a cooldown in the health row counts beside the persisted one; readiness asks a
live route for a `venue_declared` fee where live trading asks for `chain_verified`;
a blocked live route may outrank a ready shadow one, and a `not_ready` route may
outscore a `review_ready` one. That ready routes stand above blocked ones of their own
kind (`ScoresSeparate`) depends on how often a live route's quotes may be unavailable:
it is checked at the default rates and proved up to the default of that one.

Bounds: `MaxDay`, `MaxStretches`, `MaxRuns`, `MaxAttempts`. The minimums are scaled
down so that two stretches reach them; the stretches are chosen at the boundaries of
the default rates (exactly at the limit, at the end of the warn band, one over). Of
the runs of a mode at most one at a time is told apart that its result will move.

### 2.8 EntryGate

State: `since` is the timer of the engine, `scan` the visit of a cycle to the route
with the quote and the age it carries, `pauses` what `evaluate` finds paused,
`executions` the successes the rate guard counts. `dip`, `gap` and `history` only
observe: when a quote last was below the least threshold, whether a quote failed while
the timer ran and nobody had a look since, and every success ever.

`ScanMeasure` is a quote with both legs, `ScanQuoteFails` any exception, before or
after the timer was updated; `ScanEnter`, `ScanStopped`, `ScanBlocked` are the
outcomes of `evaluate`, `ScanMark` and `ScanSucceed` what is recorded; `Pause`,
`Resume`, `SwitchMode`, `Tick` and `Crash` come at any time. A quote's net edge is its
raw edge less costs that are never negative. The engine of the live strategy keeps a
timer above the lesser of two thresholds, as the mode may change, the shadow engine
above its own. The clock is assumed not to run backwards.

Three results need a word. The timer is not reset by a failed quote: a gap counts as
persistence. What saves the entry is that an unavailable quote is a fatal failure and
pauses the route, so `GapReviewed` says that no gap goes by unreviewed; the exception
is a cycle that ends by an exception between the failed quote and its mark (`ScanFail`
forgets the gap, as the code does). The rate guard is per process: a restart gives a
fresh budget. And the scan loop passes the raw edge of the quote as the deviation from
the reference, so that with the default settings (`DEPEG_THRESHOLD_BPS` 50 below
`SHADOW_MIN_NET_EDGE_BPS` 125) no paper route is ever entered: the run
`entry_paper_blocked` refutes `PaperTrades`, and `PaperIsBlocked` shows that it is
refuted for all such thresholds. With the depeg threshold above the route's edges
`PaperTrades` holds.
Strategy and venue pauses are memory only and end with the process; no doc
says otherwise. `pause_pair` has no caller.

Bounds: `MaxNow`, `MaxCrashes`. Three ticks with a window of one and persistence of two
let a window slide past a success, an edge last long enough across a mode switch, and
a restart fall in between.

## 3. Runs

| run | asks | answer |
|---|---|---|
| `kill_switch` | may a cycle that must stop trade? how long does a committed pause leak? how far can the daily result fall? does a pause end trading, and a release reach the flag? | no, unless a resume came in between; at most one trade per route until the next release; the limit plus one cycle, and one more per resume; yes, as long as the scan task lives |
| `kill_stale_daily` | is the daily stop about today? | **no**: yesterday's result stops today, and nothing restarts it |
| `kill_live_unarmed` | does a live cycle trade in an armed process only? | **no**: after a restart the mode is live and nobody armed it |
| `route_restart` | does the saved row follow memory, and a quarantine survive a crash? | yes, unless saves of that very route overlapped or one was abandoned; yes, when the rows arrive before the first cycle, and all of it is one durable store |
| `route_hydration_race` | and when the first cycle is faster? | **no**: a quarantined route is traded |
| `arb_atomic` | is an arbitrage all or nothing, and paid by itself? | yes, beyond the allowances that routers were left with, which they may draw later |
| `ledger_book` | do attempts, executions, route states and memory agree after a crash, an exception, midnight? how much can a day lose on record? | yes, up to one trade per interruption; one limit and one cycle per process, one cycle per resume |
| `health_gate` | how old may the pause and the evidence be that a trade ignores or rests on? can the bot block itself by its own alerts? | younger than the heartbeat limit; younger than the window and that limit together; trading is throttled to the alert threshold per window, and the block always ends |
| `entry_gate` | does an entry mean a lasting edge, a working quote, an allowed rate? | yes, over mode switches, gaps and restarts |
| `entry_paper_blocked` | is a lasting eligible edge traded on paper? | **no**: with the depeg threshold below the shadow threshold the edge itself counts as a lost peg |
| `backtest_replay` | are the trades those of the history? would the gate take them? is the record true whatever fails? | yes; every fill passes the paper gate; what was answered is on record, and a completed run is whole |
| `promotion_ready` | do the gate and the KPIs agree, does ready mean admitted, can good news hurt? | yes; yes; no: ready ends only by a health row, a fatal pause, a counted reason or a result that contradicts the notes of its run |

The passing runs have 0.5 to 2.5 million distinct states and take at most about two and
a half minutes each: `arb_atomic` 1,499,808, `ledger_book` 668,767, `health_gate` 930,916,
`promotion_ready` 1,370,304, `kill_switch` 1,171,734, `route_restart` 2,050,120,
`backtest_replay` 2,078,609, `entry_gate` 2,480,448. No symmetry is used, as most of
them check temporal properties.

Findings (`PROJECT.json` quotes the lines): the daily stop decides on the previous day's
result; the mode outlives the arming; hydration races with the first cycle; paper mode
never trades with the default thresholds. One more shows in an exception of a property:
`SavedRowMatchesMemory` does not hold for saves of a route that overlap, as
`enable-route` and the scan loop may, since each captures the memory before it loads the
row and the older state can be committed last; `RISK_GUARDS.md:59` says that the
counters are persisted.

**Fairness.** `WF_vars(ScanStep)` in `KillSwitch` and `HealthGate`: the event loop
resumes the scan task as long as it exists. `ScanFail` is not part of it, and nothing
is assumed of operators, of requests, which may be abandoned at any await, or of the
health loop, which may hang in a probe. `HealthGate` adds `WF_vars(Tick)`: time passes.
`FairSpec` of `EntryGate` takes the scan task's steps, too, and strong fairness of
`ScanEnter` in paper mode: which guards that are left open block a visit is a choice
of the model, and they are not taken to block every eligible visit for ever.

**Deadlock** is checked in every run but two: a backtest ends, and in `HealthGate` the
scan task may be gone for good.

## 4. Proofs

| theorem | states |
|---|---|
| `KillSwitchProofs!TypeCorrect`, `StoppedCycle`, `LateTrades`, `DailyResultCapped`, `CyclesEnd` | the type invariant and the three safety properties of the runs, for all numbers of routes, requests, limits and bounds; how many steps a cycle can take |
| `RouteRuntimeProofs!TypeCorrect`, `RowMatchesMemory`, `Quarantine`, `KeptQuarantine` | the type invariant; the row follows memory; no crash ends a quarantine; `RouteRuntime` implements `QuarantineStore` (all but the first assume `HydrationWins`) |
| `ArbExecutorProofs!TypeCorrect`, `FundsAlwaysCovered`, `Atomicity`, `OwnFundsStay` | the type invariant; a call is covered by its own income; the contract implements `AtomicArb`; what the contract holds beyond the routers' allowances shrinks by `emergencyWithdraw` only |
| `TradeLedgerProofs!TypeCorrect`, `ExecutionsMatch`, `StateFirst`, `AttemptsAccounted`, `MemoryFollowsBook`, `DayLossCapped` | the type invariant; executions agree with attempts; no outcome before the route's state; one attempt without execution per interruption; the result in memory follows the rows; what a day can lose on record |
| `HealthGateProofs!TypeCorrect`, `PauseLag`, `EvidenceRecent`, `Throttled` | the type invariant; pauses and evidence are followed within their limits; alerts throttle trades; for all windows, limits and sets of probes |
| `EntryGateProofs!TypeCorrect`, `EdgeHasHeld`, `GapIsReviewed`, `PaperIsBlocked`, `RateIsBounded` | the type invariant and every property of the run `entry_gate`, for all thresholds, windows and edges; how far the finding of `entry_paper_blocked` reaches |
| `BacktestProofs!TypeCorrect`, `HistoryFollowed`, `GateRespected`, `RecordStands`, `ResultMatches` | the type invariant and every property of the run, for histories of any length |
| `BacktestProofs!BetterEvidenceNeverHurts`, `LiveAsStrictWhenMatched`, `WordsReadOnce` | the evidence checks are monotone; paper admits what live admits exactly when the live quote minimum is `matched`, the default (`settings.py` allows `unknown` and `mismatch`, and then live admits a mismatch that paper refuses); normalising twice is normalising once |
| `PromotionProofs!TypeCorrect`, `GateAndKpisAgree`, `ReadyIsAdmitted`, `ReadyLasts`, `PhaseKept`, `ScoresStaySeparate` | the type invariant and every property of the run, for all thresholds (`ReadyIsAdmitted` assumes that the shadow minimums themselves pass the paper gate, `ScoresStaySeparate` that a live route's quotes may be unavailable at most one time in twenty, the default) |

The arguments:

- *KillSwitch.* The properties are not inductive. `StopInv` adds that, inside a
  cycle that must stop, the flag is up or a resume came in between. `LateInv`
  relates `late` to the position in the cycle: a trade under a committed pause
  happens only in a cycle that read the row before the commit, and each route has
  one turn left. `LossInv` says that a cycle which may still trade started below
  the limit, so what it can lose is bounded by its remaining positions, and that
  each resume buys one more cycle.
- *RouteRuntime.* `Inv` is `BootInv /\ MemInv /\ RowInv`: rows waiting to be
  restored are the rows of the table, since nothing saves before the startup is
  over; memory is the truth; and a pending save carries the newest state of a
  route that only it is saving, with the loaded row equal to the row in place.
  The last is what makes the column-wise commit land on the captured state, and
  what an overlap destroys. `KeptQuarantine` adds `TradeInv`: the counters of a traded
  route are below their limits, so the outcome of a trade lifts no reason. A change
  maps to the operation that makes it, a save to `Secure` or a stutter, a crash to
  `Restart`, where `RowInv` says that the row of a route not at risk holds it for the
  reasons the memory did.
- *ArbExecutor.* A router that takes uses up as much of its allowance, so what the
  contract holds for itself stays; `Approve` turns the amount in hand into a claim,
  `Return` takes into hand what the balance gained. `Inv` adds to `TypeOK` and
  `FundsCovered`: `Measured` (the balance a leg is measured from covers the claims and
  what the contract held for itself, so the output comes on top), `Quiet` (between
  transactions both ledgers and both tables of allowances agree) and `Running` (the
  token in hand is the one the route prescribes, other accounts are untouched, and
  only the route's routers were allowed more). The claims on a token are a set of
  units, so that replacing one allowance is a union of disjoint finite sets and needs
  no induction. `Atomicity` maps `Begin` to `Submit`, legs and routers in a call to
  stuttering, `Settle` to `Commit`, `Revert` to `Reject`, a router between calls to
  `Draw`. From `OwnFundsStay` follows that arbitrage costs the contract at most the
  allowances left standing.
- *TradeLedger.* `TradeInv` says where the trade in progress stands: its attempt is
  the last one, has no execution, and holds the status its position prescribes;
  its route's state is saved before its outcome is. Counting the attempts without
  execution is then one element added and one removed, or one interruption.
  `MemoryInv`: the result in memory is the sum of the rows it counts, up to the result
  whose row is about to be written and one result for each row that was cut off; before
  the first success of a new day it is still yesterday's. `LossInv` follows the process
  in progress as `LossInv` of `KillSwitch` does (below its limit even if every turn left
  loses the most, unless the stop is in force), says what the processes before it left
  on record today, and closes the days that are over. The sums are `SumFunctionOnSet` of
  the community modules. That one more row is one more term needs induction over finite
  sets; it is done in first-order form, for a fixed set: the sizes at which the claim
  fails are a set of natural numbers, and a set of them that is not empty has a least
  member (`WFMin` of the library).
- *HealthGate.* `LagInv`: a pause that the flag does not show was committed after the
  cycle began, so it is not older than the heartbeat, which the gate bounds.
  `EvidenceInv`: the quote before each decision trimmed the windows, so a sample is at
  most a window older than the cycle. `ThrottleInv`: the last trades can be paired, from
  the newest backwards, with failed alerts that are not older, except one trade whose
  alert is due; trimming and ageing keep the pairing because the alerts are sorted.
- *EntryGate.* `TimerInv`: the timer started after the last dip, and a visit carries at
  most the age of the timer, although a mode switch or a failed quote came between.
  `GapInv`: an unreviewed gap either has paused something or is the failed quote of this
  very visit. `RateInv`: the executions remember every success of the process in the
  last window, and there is room for one more when a trade begins.
- *Backtest.* The pointer is behind the row whose turn it is and everything up to it is
  in force, hence catching up yields the latest row not younger. The result is
  committed before the status that vouches for it. `ResultMatches` compares the
  accumulators with an equity curve that the property defines by recursion over the
  rows. `Tally` says that there is such a curve and that *every* function satisfying the
  recursion ends at the accumulated profit, has the accumulated peak as its largest
  point and the accumulated drawdown as its deepest fall; a row extends the curve by one
  point, so the induction is the behaviour's own. The worst losing sequence is likewise
  the largest number of fills in a stretch of rows without a gain.
- *Promotion.* `Ready` is spelled out as a conjunction of thresholds (`Standing`);
  everything that is counted only grows and the days only widen, and a rate whose
  numerator is unchanged falls, so each conjunct is kept. `ScoresStaySeparate` adds up
  what a ready route keeps at worst (its status, the points of a yellow grade, all of
  the completion, less seven warnings and the quote penalty: 45 for a live route, 27 for
  a shadow one) and what a blocked one gets at best (41 and 19); any `Line` inside these
  two gaps separates them.

Assumptions on constants are named and minimal: `ConstantsAssumption` of
`KillSwitch`, `RouteRuntime` and `TradeLedger`, `AddressAssumption` of `ArbExecutor`,
`GateAssumption` of `HealthGate`, `EntryAssumption` of `EntryGate`,
`BacktestAssumption`, `PromotionAssumption`. TLC evaluates them in every run.

Only model-checked: liveness (`PauseEndsTrading`, `ReleaseReachesFlag`,
`AlertBlockEnds`), which needs ENABLED, and the violations, which are single
counterexamples. Of the first two, `CyclesEnd` is the part without fairness: a cycle
is at most 2 `NRoutes` + 4 steps of the scan task from reading the row again, and
nothing that happens between these steps takes it back. Every safety property of a
passing run is stated by a theorem.

## 5. Not modelled, and the plan

Not modelled because it is I/O or rendering without state of its own: exchange
adapters, contract client, dashboard, reporting, logging, migrations, command line.
What they do to the rest is an input: a call that fails or takes long is a failed
quote or a delay, a chain check is the outcome of a dry run. Decimal arithmetic of
amounts, fees and gas is data. Of `evaluate`, the guards that look at one reading and
keep no memory (notional, liquidity, slippage, gas price, error rates) are left open.
Of the repository, seeding, audit rows and the dashboard's queries are left out.

What the plan has left, most important first:

1. Refinement: `KillSwitch` as an implementation of an abstract stop with bounded delay.
2. `Adapters`: the retry loop with its bounded attempts and back-off.
3. The stateless guards of `evaluate` in their order, and that each blocked reason is
   reachable.
4. The windows of liquidity changes and revert rates, as the windows of `HealthGate`.
