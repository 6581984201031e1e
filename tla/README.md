# A TLA+ development of the trading engine

This directory holds TLA+ models of `exchange_client`, a trading bot that runs
several *profiles* (a strategy, its symbols and its limits) against Backpack,
Binance and Bullet accounts; the TLC configurations that check the models; and
proofs checked by TLAPS. Source names below are relative to
`src/exchange_client/`; MS is `services/monitoring_service.py`, TB
`api_builders/trading_builder.py`, CB `services/circuit_breaker.py`, CR
`db/crud.py`, PC `utils/position_calculator.py`, SG
`services/signal_generator.py`, TC `cache/trend_cache.py`, API
`services/api_server.py`. `M!P` is the formula P of module M.

## 1. The system

One process with several kinds of thread. The **monitoring thread** (MS,
`_monitoring_loop`) runs iterations for ever: retention, breakers, prices,
balances, the orders phase (reconcile resting orders), the positions phase
(exits), a validation against the wallet every N-th iteration, dust, the signals
phase (entries), then a sleep. The **candle thread** (`candle_fetcher_service`)
fetches bars, stores them as rows of `trend_analysis_log` and replays them into
the trend cache. The **API threads** serve webhooks and the dashboard at any
time; timers reload the settings and check the health of the others. They share
a database (SQLAlchemy sessions, one commit per CRUD call), in-memory caches
with no lock around read-then-act, and the exchange account itself, which trades,
cancels and expires orders on its own and which the owner may use by hand.

| Component | State | Operations | What makes it correct |
|---|---|---|---|
| Maker-first entry: MS `_execute_signal`, `_reconcile_maker_entry`; TB `place_maker_entry_order`, `reconcile_entry_order` | `orders` rows, `positions`, cooldowns `_last_signals`, the order at the venue | rest a PostOnly order, reconcile, time out, cancel, re-check, fall back to market | a signal becomes at most one position and one trade; every tracked order is decided; caps are kept |
| Exits and bookkeeping: MS `_execute_close`, `_validate_spot_positions`; TB `ProcessMarketOrder`, `process_limit_order`; CR `close_position`, `reduce_position` | position rows, TAKE_PROFIT rows and orders, balance cache | IOC exit with partial fill, cancel-resting-sales, booking, validation | profit is booked once and for what was sold; no position sells another's tokens; held tokens are neither orphaned nor written off |
| Order validation: TB `_validate_buy_order`, `_validate_sell_order`, `_validate_market_rules` | balance cache, resting orders, market rules | cap to the balance, re-read, cancel, round | what is sent is lawful, affordable and not a remnant |
| Price rules: MS `_monitor_open_positions` | watermarks, trailing stop, check counter | TP/SL, arm, raise, hit, periodic check | the stop follows the best price and only tightens |
| Position manager: `services/position_manager.py` | readings of the trend cache, a position and its snapshot | trend review, stale check | what let a position in does not put it out at once |
| Monitoring loop: MS `_monitoring_loop` | the flag, the counters, the count of failures | run the steps, back off, stop, start | positions are looked at again and again, due checks stay due |
| Daily PnL breaker: CB | event rows, event cache, snapshot cache and row | check, trigger, clear, rebase, snapshot, reload | a lock holds its time, also over a restart; a cleared lock needs a further move; it ends |
| Consecutive stop-loss breaker: CB | streak, pause row and cache, closed positions | record, trigger, expire, reset, rebuild | a pause on N fresh losses in a row, when due, and in force until it ends |
| Signal loop and re-entry manager: MS `_process_signals_for_profile`, `services/reentry_manager.py` | cooldowns, the primed batch of exits, counts of open positions | prime, scan, check, place; webhooks and scans beside it | caps and cooldowns are kept for what the loop does |
| Signal generation: SG, `cache/regime_filter.py` | cached regime, readings | gates, score, shadow and AI paths | a dangerous market stops entries; the shadow admits no more than the rules |
| Indicators: TC | histories of bars | update, validate, vote | a restart never loosens a rule; short rules mirror long ones |
| Candle feed: `services/candle_fetcher*.py` | rows, histories, bans, listing | fetch, store, replay, warm up, fail over | the log heals, the cache sees consecutive bars, nothing is stale, the feed resumes |
| Prices: `utils/price_resolution.py`, `cache/price_cache.py` | cached prices | choose book, fill or nothing; cross-check | no reader is given a price the market never had of late |
| Settings, order sizes, profiles, prompts: their caches and endpoints | a table and what a thread holds of it | edit, invalidate, reload | an edit reaches its readers, and none sees a mixture |
| Alerting: `services/alerting.py` | issues, cooldowns | check, alert, recover | no false alarm, none missing, the operator hears of what lasts |
| Adapters: `api_builders/adapters/` | the venue's position, rows | open, close, parse, look up, validate | rows account for what the exchange holds; flat positions are settled |
| Dashboard sessions: `services/dashboard_auth.py` | users, mappings, tokens | login, refresh, edit, switch off | what was taken away ends within a token's life |
| Outcomes of AI signals | `ai_signal_log` rows | log, stamp, resolve by three writers | the outcome is what the market did first |
| Backtest engine | replay state | replay rows, ticks, trades | trades follow each other, stops only use prices of their own time |
| Telegram, retention, migrations, diagnostics, optimizers, tools | | | not modelled (section 9) |

What is hard here: the venue moves between any two steps of the loop; every
booking is a sequence of separate commits and venue calls, and an exception or a
crash can fall between any two; answers get lost, history endpoints lag; caches
are stale when they are used; API threads interleave with the loop; and the
clock (timeouts, cooldowns, lock-outs, midnight, bars) runs on. `PROJECT.json`
"hazards" lists each of these at its line.

## 2. Modules

| Module | Models |
|---|---|
| `EntryPromise` | abstract: each signal is accepted, then opened once or dropped; the cap is kept; it is decided in the end |
| `MakerEntry` | the entry half of the loop, venue, clock, crash; refines `EntryPromise` (`Promise == INSTANCE EntryPromise WITH ...`) |
| `ExitEngine` | exits, TAKE_PROFIT orders, validation, bookkeeping, API thread that buys |
| `OrderRules` | an order between the call and the exchange: balances, cancels, market rules |
| `ExitRules` | the price rules as pure operators and one position phase per cycle; leaves the exit itself to `ExitEngine` |
| `ExitReview` | `should_exit_position` for one position; extends `IndicatorVote` |
| `IndicatorVote` | how the verdicts of indicators, their groups and hard stops become one |
| `IndicatorRules` | every indicator type as a rule over a trend and its histories, and the mirror of the short side |
| `Indicators` | how the trend cache updates, rebuilds and empties the histories; extends `IndicatorRules` and `IndicatorVote` |
| `Replay` | the backtest's copy of the trend cache beside the live one; extends `Indicators` |
| `SignalScore` | `generate_signal` to a confidence: gates, regime filter, shadow and AI paths |
| `SignalLoop` | a pass of the loop over several profiles, requests beside it, restart |
| `CandleFeed` | fetch, store, replay and warm-up of a series |
| `CandleHosts` | bans, failover and retries of the requests, the listing |
| `PriceFeed` | one pass over the tickers, choice and cross-check of a price, the price cache |
| `PnlBreaker`, `StopLossBreaker` | the two breakers with their threads |
| `MonitorCycle` | the steps of an iteration, their errors, stop and start |
| `HealthAlerts` | five checks, what they see, the messenger |
| `Settings`, `SizeCache`, `ProfileSwap`, `PromptCache` | a table of configuration, its editors, its cache and its readers |
| `AdapterTrading` | one symbol traded through Bullet or Binance by two threads |
| `Access` | the sessions of the dashboard |
| `SignalOutcome` | the row of a signal and its three writers |
| `Backtest` | `BacktestEngine.run` for one profile |
| `Watch`, `Decisions`, `Services`, `Config` | parts that share no state, side by side: which module each part is an instance of, their common specification and properties (section 3) |
| `*_proofs` | TLAPS proofs about the module or composition of that name; `ExitRules_proofs` extends `Watch` |
| `MC*` | the constants of the instances for TLC |

### How state and actions correspond to the code

*MakerEntry.* `pc` is the place of the monitoring thread, one label per stretch
of code between two venue calls or commits. `exch`, `exec`, `takerExec` are the
venue; `ord` is the status column of the entry's orders row; `rows`, `booked`,
`takerRows`, `open` count position rows; `cool` is `_last_signals` as time left
and `dbCool` what `_load_cooldown_cache_from_db` would rebuild it to. `QueryOpen`
.. `MarkFilled` are `reconcile_entry_order` step by step; `Settle`,
`CancelMaker`, `SettleRecheck`, `MarkCancelled` are `_reconcile_maker_entry`
around its two calls of it; `Taker*` is the market order; `Signal`, `PlaceMaker`,
`SaveOrder` the entry. `booked` is written with `rows` in one step: the trade and
the position are two commits a few lines apart, merged because nothing but a
crash could come between and a trade row alone is read by nothing modelled.

*ExitEngine.* Lots stand for quantities. `free`, `tp`, `tpQty`, `tpExec`, `sold`
are the venue; `cacheFree`/`cacheTotal` the balance cache; `st`, `remaining`,
`priced`, `row` the database. `Close` is `close_position`, with its
`remaining_quantity or quantity` and without a check of the status; `Gone` is the
1 % rule of the validation; `Sellable` and `ExitCancel` are the two halves of
`_validate_sell_order`. `bpc` is a purchase in progress: by the loop, or by an
API thread when `Webhook` is TRUE. `second` is the fall-through after a trailing
exit to the trend check with the position as it was loaded.

*ExitRules.* Prices are ticks, percentages basis points, levels 10000ths of a
tick, so the arithmetic is exact. `Evaluate` is one visit of one position.

*PnlBreaker, StopLossBreaker.* A thread's steps end at its commits and calls.
`over[e]` says that `reset_at` has passed; `closes` is the history in the
database; `since`, `waived` are history variables the properties need.

*SignalLoop.* `pc` walks `_check_signals`: `BeginScan`, `Prime`, `ScanSymbol`,
`EndScan`, `CheckSignal`, `Place*`. `batch` is `_prefetched`, which API scans
prime and drop too; `cool` is `_last_signals`. What a filter decides is free, but
the trend of the entry timeframe is read twice and the two readings may differ.

*CandleFeed, CandleHosts.* A bar is named by the time it closes; a row may be
`partial`; `Appended` is `TrendCache.update`, `Cutoff` the choice of what to ask
for. `CandleHosts` counts what is left of bans and stamps; every request that
reaches a banned host lengthens the ban.

*IndicatorRules, Indicators, Replay, SignalScore, ExitReview.* An indicator type is one operator,
with a short one defined by its own branch of the code and compared with its
long twin by `MirrorImage`. `Replay` uses the live operator where the copy does
the same, and writes out what the copy does in its own way. Confidences are
tenths of points.

*The caches.* A row is a version; the cache holds versions; each load has a step
that reads and a step that installs, and the other threads run between the two.
`due`, `missed`, `until`, `excused` are history variables: what a reader is owed.

*AdapterTrading.* `venue` is which adapter, `held` the exchange's signed
position, `order[t]` what thread `t` is waiting for, `positions` the rows.
`LookedUp` is the wait for the fill price, `Unread` the invented answer.

*Backtest.* A row carries the bar that has closed, the ticks those of the window
that starts there; `Faced` is what a position meets at a tick.

### Faults

Modules with failures have either `Faults` (kinds that may happen in a run),
`MaxFaults` (their number) and a variable `struck` that records the kinds that
have happened, or a count of faults as they are. `Spared(K)` says that none of
the kinds K has struck. A property that some faults break is stated under
`Spared` of exactly those, found with TLC one kind at a time, so that one run
under all faults says what survives what:

| Property | survives | broken by |
|---|---|---|
| `RowsBacked` | everything | |
| `OneTakerPerEntry` | failing queries, cancels, lost answers, lagging history, raising TAKE_PROFIT, crashes | a failed write of the row |
| `OneEntryUninterrupted` | failing queries and cancels, lost answers, lagging history, an ended order in the open-order endpoint | a raising TAKE_PROFIT, a failed write, a crash (between booking and marking) |
| `OneExposure` | crashes | each of the others |
| `NothingUntracked` | | each |
| `PricedOnce`, `NoPoach`, `NoOrphanSale` | lagging queries, failing cancels, lost answers, the owner trading by hand | failing balance requests, failed writes, crashes |
| `PricedIsSold` | the same but for the owner | these and the owner |
| `FilledIsBooked` | everything else | an open-order endpoint that answers with a filled order |
| `Covered` | failing balance requests too | failed writes, crashes, the owner |
| `OneLock`, `LockHolds`, `LockEnds` | restarts, missing portfolio values | failed commits |
| `FurtherGain` | missing portfolio values | restarts, failed commits |
| `NotLifted` | everything (one thread) | |
| `InARow` | restarts, failed commits | closes that bypass `_execute_close` |
| `FreshStreak` | failed commits, such closes | restarts |
| `LimitPauses` | such closes | restarts, failed commits |
| `PauseHolds` | restarts, such closes | failed commits, a restart while a pause is half ended |

## 3. Runs

Eight runs check one component each, or a component with the one it shares state
with (`exit_sibling`, which is expected to fail, is section 4). In the other four (`watch`, `decisions`, `services`, `config`) components
that share nothing are checked side by side: the first state chooses which part
the behaviour is about (`part`), only that part moves, and each property is that
of its module, under `part = ...`. Each is specified in a module of its own
(`Watch`, `Decisions`, `Services`, `Config`), so that the theorems about its
properties are theorems of the specification that is checked; its `MC` module only
gives the constants. A run whose constants fit in its configuration file
checks the module itself. The parts of `decisions` and `config` use a
common row of registers `r1`, `r2`, ... as their variables; those of `services`
and `watch` have variables of their own, and the fairness is each module's.

| Run | Question | Bounds |
|---|---|---|
| `entry_calm` | without faults, does the loop implement `EntryPromise`? | two signals, two symbols, long and short, two lots, timeout 1, cooldown 2, cap 1 |
| `entry_faults` | is a maker order that executed anything never bought on top, and is a tracked order always decided? | one entry, two lots, three faults of eight kinds |
| `exit_single` | is profit booked once and for what was sold, does no exit take another's lots, is nothing out of reach, is a filled order marked and booked in the end? | two positions in turn, two lots, two faults of eight kinds, trailing exits on |
| `watch` | does the trailing stop follow the best price; are alarms neither false nor missing, and does the operator hear of what lasts? | nine prices around the entry that reach every threshold; one series of three ticks a bar, two faults |
| `breaker_faults` | does a lock stand, survive a restart, last its time and not repeat? | one thread, two events, three balances, two days, two faults |
| `signals` | are the limits of a group and the caps of profiles kept, the re-entry cooldowns respected, entries spaced? | two profiles of a group sharing a symbol, one maker-first; two entries, one close, one request or restart |
| `feed` | does the log heal and the cache replay it in order; is nothing stale, and does the cache catch up? | one series, a bar as long as the interval, five bars, two faults |
| `indicators` | does a restart never loosen a rule, does a short rule mirror the long one, does the backtest judge as the live cache? | every sequence of five bars out of five, every indicator type, histories capped at 2 to 4 |
| `decisions` | score, order, review, exits and validation, streak, outcome: is each decision the right one? | forty markets by thirty-five profiles; a purse of ten units and three moves; three indicators in one group or none; two positions and one fault; six closes, limit 2, two faults; one signal, three candles |
| `services` | do the fetcher, the adapter, the loop, the timer and the breaker go on and get there? | two hosts, two symbols; two lots, two rows; four outages and one stop; three edits; one lock and one fault |
| `config` | sizes, profiles, prompts, prices, sessions, backtest: what is read early and used late | two to four edits each, a clock to 4; three rows of two ticks on two symbols |

Why these bounds are enough to be interesting: two lots make a partial fill
different from none and from all; a timeout of one tick lets an order be inside
and past it; a cap of one makes a second position a violation; two faults reach
every pair (three for entries); two events are needed for "again"; six closes for
two pauses and what lies between. The balances 80, 96, 112 are more than 7 % and
more than 10 % apart, so that one move reaches either limit. A re-entry cooldown
of four units and an hour of one unit make the lookback (whole hours and one more)
matter; a feed of five bars with histories of two or three overflows every cap;
three rows of a backtest are an entry, a position and what follows it. Two faults
are one during another's repair. Every property was also run against a version
of the code with a plausible bug (`PROJECT.json` "mutants"), which it refutes
within these bounds.

`Cooldown` is not smaller than `Timeout` in the entry runs, as in the shipped
settings: with a shorter cooldown a symbol may signal again while its order rests,
and the cap would not hold. `services`, `decisions`, `config`, `feed` and
`indicators` are run without the deadlock check because a bound on edits, closes,
bars or the clock stops them.

What the properties say that is easy to get wrong:

- `EntryPromised` is the refinement of `EntryPromise`, liveness included.
- `EntriesSpaced` and `CapsHeld` speak of entries the loop itself fills; resting
  maker orders and webhook alerts do go over caps (section 4).
- `ReentryRespected` speaks of signals whose re-entry check ran. Without a fresh
  trend the check is left out, and only the entry filter stands in the way.
- `NeverStale` allows one bar, one cycle and the delay of the thread after the
  last fault; `NoFalseAlarm` the same and one check.
- `RestartNeverLoosens` excepts `distance_from_high`, which passes on a history
  that is too short, `atr_regime`, which passes on an ATR history that is too short,
  and `reference_symbol_vs_ema`, which passes without a trend of that symbol.
- `ReplayAgrees` says that, of the rules that read no closed bars, the live cache
  accepts exactly those that the replay accepts and that do not raise in the live
  code (`Raises`). They raise where a missing RSI momentum is compared with a number
  (`ComparesMissing`) or formatted for the message of a pass (`FormatsMissing`,
  TC:1705, TC:1808: `rsi_reversal_momentum` and `rsi_overbought_momentum` with
  `jump_required` false): the backtest enters there, the live cache does not.
- `FillBooked` says that a filled order is marked and its profit booked, unless the
  open-order endpoint ever answered with a filled order (`openTerminal`, TB:752):
  that answer marks the row and books nothing, the position stays open without its
  tokens, and the iteration ends on a field the answer lacks. `BookedOnce` has the
  safety half (`FillsPriced`): no other fault comes between a row marked filled and
  its profit. Below them `FilledIsBooked` is the promise of MS:492 without exception,
  which TLC refutes (section 4).
- `TradesInOrder`: a level is met on a tick after the entry. Of a stale or an
  invalidated position it only says that its exit, at the close of the row, is not
  before its entry: the replay has read the ticks of the next window by then.
- `AccessEnds` is about tokens; what an API key opens is not modelled.
- `SizesCurrent`, `EditApplied`, `PromptCurrent` except the scan, reload or lookup
  that was under way when the edit was made, and say that nothing later is. A size
  lives up to `TTL` and one reload after its row was replaced, and so does one whose
  row was deleted, because the deletes do not invalidate.
- `KeptThroughout` of the adapters has `astray` for lots whose answer was lost, and
  for a booked close that the exchange did not do (unless the account is empty and
  the other thread idle, when nothing can be lost): nothing tracks those.
- `OrdersRight`, `FirstTouch`, `PausesRight`, `SignalsGuarded`, `AlarmsRight` and
  `LogFaithful` are conjunctions of the promises of their module, each named there.

The run `exit_sibling` expects a violation: CR:181 means profit to be booked
once; with two positions on a symbol a balance-sized exit sells the sibling's lots
and `close_position` prices an already closed position again (`ProfitOnce`).

## 4. Disagreements between the code and what it says

`PROJECT.json` "findings" quotes the sentence each of these contradicts. Where a
formula is named, the module defines it, TLC refutes it, and the exclusion it
forces is part of the property that is checked.

Entries and exits
- A fill read from the open-order endpoint is passed to `save_trade` with a
  parameter it does not have (TB:1233), is never booked, and the market order is
  sent on top of it (`MakerEntry!TradedOnce`); MS:1926 promises one position.
- A TAKE_PROFIT order that raises after the position is committed (TB:1238), or a
  crash there, books the same fill twice; MS:1854 calls this half "crash-safe".
- An order found by neither endpoint is "gone" (TB:1214) but its row stays active.
- A TAKE_PROFIT order that the open-order endpoint returns as filled gets the status
  and no booking (TB:752; `ExitEngine!FilledIsBooked`); MS:492 says it was booked.
- A restart forgets the cooldown of a resting maker order (MS:137).
- An API thread commits a position before it refreshes the balances, and a
  validation in between closes it (MS:737).
- A "MAX" sale whose last cancel got no response is sized without what the cancels
  released (`OrderRules!SellsReleased`); when every cancel fails the response is
  unbound. `cancel_all_orders` calls itself for ever (TB:612).
- An empty or eventless answer of Bullet is booked as a full fill
  (`AdapterTrading!BookedWasFilled`, BU:834 ff.); a lost answer of an accepted
  entry is tracked by nothing; closes are booked first in, first out, so a close
  of a row that validation settled meanwhile is booked on a newer one.
- The review of a short computes its profit with the long formula
  (`services/position_manager.py`), and a missing trend counts as invalidated.

Breakers
- Two threads that pass the re-check at CB:728 create two events
  (`PnlBreaker!SingleLock`); profiles without an account share the key `acct_None`
  (`LockScoped`); a thread may clear the lock another has just set.
- A loss of more than about twice the limit triggers again on the same balance
  after the baseline is averaged (CB:387); a lock of yesterday moves today's
  baseline when it is cleared (CB:420). A loss lock set from a high-water mark
  moves the baseline above the day's start too, so that the daily cap no longer
  locks, though the comment at CB:761 expects that of profit resets only:
  `DailyCap` speaks of days whose locks were losses at or below the start.
- A filled TAKE_PROFIT order does not reset the streak (CB:542), and a restart
  counts losses taken during a pause (CB:578).

Signals and data
- A request that arrives during a scan is answered from the batch of the scan
  (`SignalLoop!CallersAsBefore`); a webhook alert writes the first profile's size
  into itself, so the later profiles are neither sized nor capped (API:779); the
  risk group is not looked at on webhooks; the stamp a close leaves is not
  restored after a restart.
- A short in SHADOW may pass where the rules refuse (`SignalScore!ShadowNarrowsShort`).
- A replay whose first attempt failed is lost when a later fetch stores the same
  bars (`CandleFeed!DoneIsCached`); a bar in progress may be written
  (`WholeOnly`); a trend counts as fresh by when
  the cache took it in, so one replayed late is read although its bar is older
  than the limit (`FreshIsRecent`).
- The time a rate limit gives is that of hosts banned earlier
  (`CandleHosts!UntilSoonest`); a venue that is down may be asked for its listing
  more than once in a cycle (`OneListing`).
- The replay keeps other candles and histories than the live cache
  (`Replay!SameCandles`, `SameHistories`) and its regime filter lacks exceptions
  of the live one (`SignalScore!ReplayMirrors`). It also accepts RSI rules whose
  live copy raises on a missing momentum (`IndicatorRules!Raises`).
- A feed in which every series fails counts as healthy (`HealthAlerts!FailingNoticed`).
- The resolver writes MISSED although no level was hit (`SignalOutcome!OnceHit`),
  and the endpoint resolves live positions too (`LiveWritesItsOwn`).

Configuration and operation
- A setting may stay old when the endpoint that wrote it has answered
  (`Settings!InForceAtOnce`); stored zeros of profiles turn into defaults.
- A deactivated profile may still open a position nothing then watches
  (`ProfileSwap!OpenIsWatched`); a scan keeps a generator of the old profile
  (`GeneratorCurrent`).
- An edit of a prompt with a scope is not seen by the next call
  (`PromptCache!NextCallPicksUp`), and a fallback after one failure of the
  database stays (`FallbackWhenEmpty`).
- An iteration that fails in the review of positions puts the trend check off by
  an interval (`MonitorCycle!TrendRetried`); a stop that does not see the thread
  end and a start make two loops (`OneLoop`).
- Two administrators can switch each other off (`Access!AdminRemains`).
- The dust conversion runs daily, not every six hours (MS:1200).
- `fetch_all_tickers` raises where it promises `{}`.

## 5. Fairness

`_monitoring_loop` catches every exception of an iteration and goes on (MS:203-210,
277-301), so the loop's own steps are weakly fair. In `MakerEntry` the clock is
strongly fair: it is enabled only while the loop sleeps, which it does again and
again. In `ExitEngine` the thread that buys is weakly fair as well. In
`PnlBreaker` a thread that began a check goes on, the loop checks again and
again, and each lock-out time passes. `CandleFeed` and `HealthAlerts` have weak
fairness of their threads' steps and of the clock; `HealthAlerts` also that the
messenger comes back, without which nobody can be told. `CandleHosts` takes any
step again and again, and its strikes (answers that ban) are bounded, so that
what is shown is recovery after trouble. `Settings`: the timer's and the
handler's threads go on, and a stopped process is started again. `AdapterTrading`:
the loop's order is answered or times out; strong fairness of listing and of the
closing of invalid rows, because they run between the orders of the loop, again
and again. Nothing obliges the venue to trade, a signal to fire, a position to
close or an operator to act.

## 6. What is proved

`tlapm` checks, for every value of the constants that satisfies the modules'
assumptions (any number of symbols, entries, lots and faults, any timeouts,
prices, percentages, intervals, indicators and groups):

`MakerEntry_proofs` - the inductive invariant `Inv` holds whatever fails. It
strengthens `TypeOK` by three facts: an order's state bounds what it has
executed (`BookOK`), entries are numbered in the order they are acted on and
are untouched before (`NumberOK`), and the thread only comes to a booking with
an order that has ended filled (`BookingOK`). `TypeCorrect` and
`RowsBackedAlways` follow. Four more invariants each hold until faults of
certain kinds, because kinds of faults only accumulate (`SparedBefore`):

- `TakerInv`: no market order has been executed for an entry that may still come
  to one, because its row is inactive before the market order is sent. Gives
  `OneTakerAlways`.
- `EntryInv`: wherever the thread may still book the entry it works on, nothing
  is booked for it; a row is active no longer than until its fill is booked. Gives
  `OneEntryAlways`. The counts alone are not inductive: one needs to know that
  the row a cycle is about to reconcile has no position yet.
- `ExposureInv`: the market order is only reached with the maker order ended and
  nothing of it executed, which is what the second reconcile after the cancel is
  for. Gives `OneExposureAlways`.
- `TrackInv`: a row is active exactly as long as its order rests or has lots to
  book. Gives `NothingUntrackedAlways`.

`StepsPromisedAlways` is the refinement of `EntryPromise`, step by step, up to the
first fault, for every timeout that is not longer than the cooldown. Its
invariant `PromiseOK` says why a signal never opens a position over the cap: a
row that is not due holds a cooldown of its symbol (`AgeOK`), a due one is
decided before the loop looks for signals (`DueOK`), so a symbol has one entry
under way (`AloneOK`, `ScanOK`) and room for its position (`RoomOK`). Each step of
the loop then maps to accepting, opening, dropping or closing, or to a stutter.
The hypothesis on the timeout is needed (section 3).

`ExitEngine_proofs` - `TypeCorrect` and `ValidationSoundAlways` hold for every value
of the constants: several positions, API purchases, any number of lots and
faults. The second rests on `KeptInv`: until a balance request or a write fails,
a cached total is at least what the account holds, so a balance judged too small
really is. The other three are proved `Alone`: one position of the symbol at a time, no purchases by the API,
at most 100 lots. Each is a hypothesis the code needs, and TLC refutes the
theorem without it: siblings and API purchases share one balance
(`exit_sibling`), and above 100 lots the 1 % that validation writes off (MS:737) is
a whole lot, which is then held by nobody and sold by the next position. The
invariants follow an exit through its phases (`Phases`): what an open
position has left is free or locked by its own order, and a resting order has a
live row (`ReachInv`); what is free and locked is no more than what it has left,
and a cached balance shows that much or nothing (`BoundInv`); profit is booked for
no more than was sold, and a filled take-profit leaves nothing (`SoldInv`). They
give `InReachAlways`, `NoPoachAlways` and `BookedOnceAlways`. `FillsPricedAlways` holds
for every value of the constants again, by `PricedInv`: a position whose row is marked
filled is closed and has booked at least what its order executed, and an order of
a marked row executes no more. Sums over the orders that lock tokens
(`MapThenSumSet`) are handled by lemmas proved once: induction is used there as a
fact about a set of numbers (`Numbers`), for which no operator is instantiated.

`Services_proofs`, the breaker - `BreakerTyped` and `DailyCapAlways` hold for any number of
threads, accounts and faults: a baseline set by loss locks is at most the day's
start (`BaseBelow`), so a gain at the cap is a gain over the baseline. For one
thread and one account (`Alone`), `LockStandsAlways`, `LockLastsAlways` and
`FurtherGainAlways`: `HeldInv` says which of event row, cache and the thread's hands
holds the one lock at each step, and `GainInv` that the baseline is at least what
the last profit lock locked in once that lock is cleared. With several threads
`SingleLock` and `NotLifted` are false (section 4), and a profile without an account
loses its snapshot at a restart.

`Services_proofs`, the other parts - `KeptThroughoutAlways` for every size, number of rows,
check, period, table and edit. `TrackInv`: what the exchange holds is at most what
the open rows have left and what the answered orders will still change (an entry
adds what it claims, a close is credited with what it claims beyond what was done),
until something is astray. It needs that an answer claims no less than the
exchange did, that first-in-first-out closing takes no more from the rows than it was
given (`FifoTakes`, by going through the rows in order), and that the validation
closes rows only of an empty account. What `MapThenSumSet` sums over the rows and
over the two threads is brought to a sum (`Sum`) with the laws proved here once
(`SumRemove`, `SumInsert`, `SumAgrees`). `OwedInv`: what is owed is a periodic check
whose counter has reached its limit, and only doing the check resets it.
`ContentsInv`: table, cache and all that a thread is about to install are contents
the table has had.

`SignalLoop_proofs` - for every value of the constants: `CapsHeldAlways` (a signal
that passed its checks leaves room for itself until it is placed, `CapInv`),
`EntriesSpacedAlways` (the stamp of a pair and the newest row in the database both
bound the time since its last entry, so a restart forgets nothing, `StampInv`), and
`ReentryRespectedAlways`: a primed batch holds every exit young enough to matter,
because the lookback in whole hours and one more is at least the longest
cooldown (`LookbackCovers`), and a batch of another thread that is dropped or
primed half way is either complete or not used (`BatchInv`).

`Decisions_proofs` - about the trade, part by part:

- `PausesRightAlways`, from `StopLossBreakerAssumption` alone. Losses in a row are
  counted by `TailLosses` and reasoned about as closes at the end that are all
  losses (`Lossy`; `TailAtLeast` is the bridge, by cardinalities of intervals).
  `RowInv`: the streak counts losses in a row; `FreshInv`: of the time since a pause
  ended; `CountInv`: all of them, so that it is below the limit unless a pause is in
  force or on its way; `HoldInv`: an active row is cached, about to be published or
  about to be ended, so that a restart finds it. Each holds until the faults that
  section 2 lists.
- `OrdersRightAlways` (`OrderInv`): where the order is on its way from the call to the
  exchange, what is known of its quantity and of the balance it was last compared
  with; a quantity is only ever shrunk to what a re-read balance pays for, and
  rounding down to a step keeps it lawful.
- `FirstTouchAlways` (`OutcomeInv`): what the resolver wrote, and what it is about to
  write, is what the first candle after the signal that reached a level reached,
  whatever closes meanwhile; the window it looks through begins at the signal.
- `SignalsGuardedAlways` (`ScoreInv`): a cached verdict that calls the market safe is
  at least as old as the danger, so it is gone when the danger has lasted; and SHADOW
  scores a long signal no higher than the rules do on the same readings.
- `TwoLossesAlways`: the review of the entry indicators ends a position only when two
  of those that had let it in are lost, or the trend is missing. The invariant says
  that while the position is held the indicators accepted at its entry are those that
  were read then, and won the vote; a lemma about the vote with a minimum lowered by
  one does the rest. It rests on `VoteIsMonotone`: for every finite set of indicators
  and every grouping, one more indicator that passes never turns an accepted signal
  down, because the groups that pass only grow and no hard stop begins to fail.

`Config_proofs` - what is read at one moment and used at another, for every number
of edits and readers. `SizesInv`: a reload under way has the row as it was when it
began, and a cache that was not invalidated a row that was in force when the reload
that brought it began, neither older than the last edit they must know.
`SwapInv`: the manager's copy and every generator built from it are as new as the
write that each new scan must know; a scan under way has what it had to know when it
began. `PromptTyped` with `Resolves`: once no reload is to come, what is cached is
what the scopes resolve to in the table, and so is what a lookup is about to store,
unless the last load failed or raced an edit. `SessionInv`: a token was made while
its user could see the profiles in it, and has the role the user always has.
`FeedInv`: a cached price that is still given out was the market's no longer before
it was cached than a fill may be old. They give
`SizesCurrentAlways`, `EditAppliedAlways`, `PromptCurrentAlways`, `AccessEndsAlways`
and `NoPhantomAlways`.

`Config_proofs`, the backtest - `ReplaySoundAlways`, from `BacktestAssumption` alone: any
number of symbols, rows, ticks and levels, any distances, cooldowns and limits, in
both modes. `HeldOK`: at each phase of a row there is a moment up to which the
position has faced the prices (`FacedTo`); its mark is no better than the best price
from its entry to that moment (`TrustedBy`), and what a runner left behind filled no
better than the trail below it. The ticks of a row are walked by induction over
their number (`Walked`); a new row keeps the best price so far (`EarnedLater`).
`DoneOK`: the last trade ended no later than its cooldown lets the next begin. That
is where the assumed wait after each exit, at least until the next row, is needed: the
code's defaults are 15 and 35 minutes (`backtesting/backtest_engine.py:2713`), and any
wait above zero reaches the next row. With a wait set to zero TLC refutes
`ReplaySound`: a position is entered again at the row it was closed at, on a tick
no later than the one it was closed on. For the pause, the closes
are ordered by their times and numbered (`Place`, `PlaceTaken`: every number is
taken, because the numbering is injective); after each close the breaker's streak is
the run of stop losses modulo the limit, and its lock covers every full run so far
(`Locked`, `OneCloseMore`). What the backtest leaves out of the claim is in the property: a
trade that met a row whose ticks are missing.

`CandleFeed_proofs` - `LogFaithful` and `NeverStale`, as long as a fetch is within
reach: it is written within a bar of its request, and no outage leaves more bars
behind than one fetch catches up with. The code has both limits
(`MAX_CATCHUP_BARS` = 1000, `services/candle_fetcher_service.py:49`); beyond them bars are skipped
and the cache is not consecutive, which TLC shows. The
`...WithinReach` theorems state that as a condition on the run so far, the
`...Always` theorems as bounds on the constants that imply it. `REPAIR_BARS` is 1
(`services/candle_fetcher.py:438`) and is assumed not to be 0: without repair a
partial bar is never written again. `FeedInv` says what the rows, the fetch under
way, the replay under way and the cache have of the bars so far; `TimeInv` how old
the stamp of a series may be at each point of the cycle, by how long ago the last
fault was. `NeverStale` assumes a limit of age with room for a cycle (`RoomForACycle`):
with the defaults of the source (interval 900 s, limit 1200 s) a cycle of up to
150 s for bars of five minutes, 225 s for fifteen, 450 s for an hour; the instance
that is checked meets it with equality.

`CandleFeed_proofs` also has the cache that the feed fills (`Trend`, an instance of
`Indicators`), and proves `MirrorImageAlways` of it, from `IndicatorsAssumption` alone. What has to hold of
every state is that the histories are sequences of bars and of values and are not
empty once the cache has a trend (`HistInv`); the rows that are replayed into a
cache (`Warmed`) are handled by induction over their number. Each kind of rule is
then a lemma: patterns by arithmetic on prices turned upside down (`Upturned`), momentum by
reflecting the history of values. The property itself leaves out what the code does not mirror:
the "net" mode and bars without a body.

`ExitRules_proofs`, the price rules - `IInv` (types; marks bracket the best price; an unarmed
stop is the opening stop; a fresh position has its entry as best price; an armed
stop is where the best price puts it) gives `RulesTyped`, `TrailsBestAlways`,
`GainLockedAlways`, and as an action property `OnlyTightensAlways`. `OwedInv`
ties the count of unchecked cycles to the loop's counter and to whether the
position is still to be visited, and gives `NoneStarvedAlways`. The proofs use
`ArmBps > 0`, a tick-exact arithmetic, and settings that do not change while a
position is held.

`ExitRules_proofs`, the alarms - `AlarmsRightAlways`, if the grace after a start is not
longer than a trend may be old (`GracePeriod`, 120 s, and 1200 s in the code): else a
trend may go stale unreported. `AlertsInv`: a trend is no older than its bar and a
cycle unless the fetcher failed (`BarsOK`), an active issue dates from a check soon
after a failure (`AlarmOK`), and a trend nobody was told of has aged since the last
check only (`NoticeOK`).

Every invariant that a passing run checks is proved so, but for those of section 7,
and so are the action properties `EntriesSpaced` and `LockLasts`, and
`ValidationSound` (as a theorem about `ExitEngine` by itself). The run that checks
`EntryPromised` checks the steps of the promise; the other proved formulas, and
each inductive invariant, were checked by TLC on small instances before they were
proved, and are left to the proofs since.

`MaxOpen >= 1` is assumed in `MakerEntry` because the code lets a first position
pass even with a cap of 0 (PC:193). Each named assumption is evaluated by TLC in
the runs of the modules that extend or instantiate it.

## 7. What is only model-checked

Liveness (`EntryDecided`, the fairness half of `EntryPromised`, `FillBooked`,
`LockEnds`, `CatchesUp`, `FeedResumes`, `FlatSettles`, `PositionsWatched`,
`EditsArrive`, `OperatorTold`): it needs fairness and ENABLED, which the prover
does not handle. Also only checked are comparisons of what is computed by
recursion over data: `RestartNeverLoosens` (a history rebuilt bar by bar) and
`ReplayAgrees` (the histories of two caches after the same bars). Of `PnlBreaker` with several threads (but for
the daily cap) and of `ExitEngine` with several positions (but for the
validation), what is true is only model-checked.

## 8. Abstractions to know about

- Quantities are lots; fees and dust are below a lot. `OrderRules` alone counts
  finer than a market's step, with the code's fee buffers as one part in `Whole`.
- A price trigger is nondeterministic in `ExitEngine`; an exit succeeds or not in
  `ExitRules`, where `should_exit_position` answers anything; `ExitReview` is what
  it answers.
- `Backtest` has no take-profit of its own for a runner (`runner_take_profit_pct`): it
  keeps the target of the position.
- Profile settings are fixed while a position is held, in every module but
  `ProfileSwap`.
- The branch of `_monitor_open_positions` for an armed position without a stored
  stop is left out: arming stores both in one commit.
- `PnlBreaker` has no deposits or withdrawals and no configuration cache.
- The values of EMA, RSI, ADX, VWAP, ATR and bands come with a bar; how
  `services/indicators.py` computes them is not modelled.
- The trading hours, the momentum reset of the re-entry rules, and the wording of
  reasons are left out of `SignalLoop`: they only refuse more.
- In `HealthAlerts` the feed is as old as its bars and its last cycle;
  `CandleFeed` is the feed itself.
- A commit is atomic, and a step of a thread ends at its commits and venue calls.
  API handlers that never await are one step unless the loop can be seen between
  their commit and their reload.

## 9. Not modelled

Telegram bot (formats messages, keeps nothing that is read elsewhere), retention
(deletes rows by date; its second step deletes positions older than ninety days,
open ones too), migrations, signal diagnostics, the optimizers, samples and
tools of the backtest, numerical formulas of indicators, signing and transport of
the adapters, reporting endpoints, market-data statistics.

## 10. Plan

Done: (1) `MakerEntry`, `EntryPromise` and proofs; (2) `ExitEngine`; (3)
`ExitRules` and proofs; (4) the breakers; (5) `SignalLoop`; (6) `ExitReview`,
`IndicatorVote` and proofs, `Indicators`, `SignalScore`; (7) `CandleFeed`,
`CandleHosts`, the caches; (8) `PriceFeed`, `OrderRules`, `AdapterTrading`; (9)
`HealthAlerts`, `MonitorCycle`, `Access`, `PromptCache`, `SignalOutcome`,
`Backtest`, `Replay`.

Proved: the invariants of every run but those of section 7, the steps of
`EntryPromise`, and the action properties of the breaker and the signal loop.

Left: `RestartNeverLoosens` and `ReplayAgrees`, with the warm-up as a function of the
last rows; `SingleLock` with several threads once the re-check and the insert are one
statement in the code.

## 11. Running

`tlc -config entry_calm.cfg MakerEntry` (and so for each row of `PROJECT.json`
"runs"); `tlapm` on each module named `*_proofs`.
