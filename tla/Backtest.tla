------------------------------- MODULE Backtest --------------------------------
(***************************************************************************)
(* The replay of BacktestEngine.run for one profile over several symbols,  *)
(* one after the other, sharing the profile's open-position cap and its    *)
(* consecutive stop-loss breaker.  A row of trend_analysis_log carries the *)
(* bar that has just closed; the ticks read at a row are those of the      *)
(* window that starts there.  Prices are levels, and the profile's         *)
(* percentages are distances between levels.                               *)
(***************************************************************************)
EXTENDS Integers, Sequences, FiniteSets

CONSTANTS
    Symbols,        \* how many symbols are replayed
    Rows,           \* entry-timeframe rows of the window
    Levels,         \* price levels
    Ticks,          \* prices of the stored path per window
    Stop, Slip, Target, Arm, Trail,  \* the profile's distances, in levels
    RunnerTrail,    \* runner_trailing_stop_pct; 0: no runner
    MaxAge,         \* max_position_hours, in rows
    FireCooldown,   \* signal_cooldown_minutes, in rows
    Cooldown,       \* Cooldown[reason]: the re-entry wait, in rows
    MaxOpen,        \* max_open_positions_per_profile
    Limit, Lock,    \* max_consecutive_stop_losses, consecutive_sl_lock_hours
    None

Reasons == {"stop_loss", "take_profit", "trailing_stop", "stale_position",
            "trend_invalidation"}

BacktestAssumption ==
    /\ {Symbols, Rows, Ticks, MaxOpen, Limit} \subseteq Nat \ {0}
    /\ Levels \subseteq Nat \ {0}
    /\ {Stop, Slip, Target, Arm, Trail, RunnerTrail, MaxAge, Lock} \subseteq Nat
    /\ FireCooldown \in Nat \ {0}
    /\ Cooldown \in [Reasons -> Nat \ {0}]

VARIABLES
    mode,       \* price_source: "ticks" or "candle"
    low,        \* price_mode is "low" (mean reversion), not "close"
    side,       \* 1 for a long profile, -1 for a short one
    symbol,     \* the symbol being replayed
    row,        \* the row being replayed
    bar,        \* the prices of the window that closed at this row
    path,       \* the prices of the window that starts at this row
    gap,        \* the stored ticks miss that window
    phase,      \* where the row loop is
    pos,        \* open_pos, or None
    cooling,    \* the later of fire_cooldown_until and reentry_cooldown_until
    slots,      \* ProfileOpenPositionCap._intervals
    closes,     \* ConsecutiveSLBreaker._closes
    done        \* history: the symbol's last finished trade, or None

vars == <<mode, low, side, symbol, row, bar, path, gap, phase, pos, cooling,
          slots, closes, done>>

Paths == [1..Ticks -> Levels]
\* Candle mode reads no ticks.
Gaps == IF mode = "ticks" THEN BOOLEAN ELSE {FALSE}
Later == 2 * Rows + 2   \* later than every row: an interval still open

TypeOK ==
    /\ mode \in {"ticks", "candle"} /\ low \in BOOLEAN /\ side \in {1, -1}
    /\ symbol \in 1..Symbols /\ row \in 1..Rows
    /\ bar \in Paths /\ path \in Paths /\ gap \in BOOLEAN
    /\ phase \in {"manage", "review", "signal", "next"}
    /\ pos # None => pos.since \in 1..Rows /\ pos.entry \in Levels
    /\ closes \in Seq([at : 1..Rows, reason : Reasons])

Init ==
    /\ mode \in {"ticks", "candle"} /\ side \in {1, -1}
    /\ low \in BOOLEAN /\ (low => mode = "ticks")   \* fills differ in tick mode only
    /\ symbol = 1 /\ row = 1
    /\ bar \in Paths /\ path \in Paths /\ gap \in Gaps
    /\ phase = "signal"
    /\ pos = None /\ cooling = 0
    /\ slots = <<>> /\ closes = <<>>
    /\ done = None

Fixed == UNCHANGED <<mode, low, side>>

\* A price as the position sees it: more is better.
Fav(p) == side * p
Best(S) == CHOOSE x \in S : \A y \in S : x >= y
Worst(S) == CHOOSE x \in S : \A y \in S : x <= y
Seen(prices) == {Fav(prices[i]) : i \in DOMAIN prices}

(* When a price was traded: the i-th of the window that starts at row w.   *)
Moment(w, i) == w * Ticks + i
CloseOf(w) == Moment(w - 1, Ticks)   \* the close row w carries

\* The best price between the entry and moment m, the entry's included.
Earned(p, m) ==
    Best({p.best}
         \cup {Fav(bar[i]) : i \in {j \in 1..Ticks :
                  p.at < Moment(row - 1, j) /\ Moment(row - 1, j) <= m}}
         \cup {Fav(path[i]) : i \in {j \in 1..Ticks :
                  p.at < Moment(row, j) /\ Moment(row, j) <= m}})

-----------------------------------------------------------------------------
(* Exit rules. *)

Stopped(p, x) == x <= Fav(p.entry) - Stop
Reached(p, x) == x >= Fav(p.entry) + Target
Trailed(p, x) == p.armed /\ x <= p.mark - p.trail

(* The rules in the code's order, over the worst and the best price seen   *)
(* at once: _check_exit over a bar, _check_exit_from_prices over a tick.   *)
RuleHit(p, worst, best) ==
    CASE Stopped(p, worst) -> "stop_loss"
      [] Reached(p, best) -> "take_profit"
      [] Trailed(p, worst) -> "trailing_stop"
      [] OTHER -> "none"

(* The fill each rule assumes; a stop slips past its level. *)
Fill(p, reason) ==
    CASE reason = "stop_loss" -> Fav(p.entry) - Stop - Slip
      [] reason = "take_profit" -> Fav(p.entry) + Target
      [] reason = "trailing_stop" -> p.mark - p.trail

(* A better price moves the mark, and may arm the trail. *)
Marked(p, x) ==
    IF x <= p.mark THEN p
    ELSE [p EXCEPT !.mark = x, !.armed = p.armed \/ x >= Fav(p.entry) + Arm]

(* _maybe_start_runner *)
Runs(p, reason) == RunnerTrail > 0 /\ ~p.runner /\ reason = "trailing_stop"
AsRunner(p, m) ==
    [p EXCEPT !.runner = TRUE, !.trail = RunnerTrail,
              !.main = Fill(p, "trailing_stop"), !.due = Earned(p, m) - p.trail]

(* One tick of _check_exit_from_prices; a trailing exit that starts the    *)
(* runner goes on with the next tick.                                      *)
Touch(mayRun, s, i, x) ==
    LET p == Marked(s.pos, x)
        hit == RuleHit(p, x, x)
    IN CASE s.hit # "none" -> s
         [] s.hit = "none" /\ mayRun /\ Runs(p, hit) ->
                             [s EXCEPT !.pos = AsRunner(p, Moment(row, i))]
         [] OTHER -> [pos |-> p, hit |-> hit, idx |-> i]

Walk(p, prices, from, mayRun) ==
    LET s[i \in 0..Ticks] ==
            IF i = 0 THEN [pos |-> p, hit |-> "none", idx |-> 0]
            ELSE IF i < from THEN s[i - 1]
            ELSE Touch(mayRun, s[i - 1], i, Fav(prices[i]))
    IN s[Ticks]

(* _check_stale_exit: at the row's close, unless past half the target. *)
Stale(p) ==
    /\ MaxAge > 0 /\ row - p.since >= MaxAge
    /\ 2 * (Fav(bar[Ticks]) - Fav(p.entry)) <= Target

Fires(p, reason, x) ==
    CASE reason = "stop_loss" -> Stopped(p, x)
      [] reason = "take_profit" -> Reached(p, x)
      [] OTHER -> Trailed(p, x)

(* When the price of the bar that fires a rule was first traded. *)
BarIndex(p, reason) ==
    CHOOSE i \in 1..Ticks :
        /\ Fires(p, reason, Fav(bar[i]))
        /\ \A j \in 1..i - 1 : ~Fires(p, reason, Fav(bar[j]))

-----------------------------------------------------------------------------
(* The cap and the breaker the symbols share. *)

(* can_enter: the intervals that cover t. *)
CanEnter(t) ==
    Cardinality({i \in DOMAIN slots : slots[i].open <= t /\ slots[i].close > t}) < MaxOpen

\* In the order of their times, closes[k] comes no later than closes[l].
Precedes(k, l) ==
    closes[k].at < closes[l].at \/ (closes[k].at = closes[l].at /\ k <= l)
Place(k) == Cardinality({l \in DOMAIN closes : Precedes(l, k)})
CloseAt(n) == closes[CHOOSE k \in DOMAIN closes : Place(k) = n]

(* ConsecutiveSLBreaker.is_blocked, over the closes before t in the order  *)
(* of their times: a streak that reaches the limit locks and starts again. *)
Counted(s, c) ==
    CASE c.reason # "stop_loss" -> [s EXCEPT !.streak = 0]
      [] c.reason = "stop_loss" /\ s.streak + 1 >= Limit ->
            [streak |-> 0, until |-> c.at + Lock]
      [] OTHER -> [s EXCEPT !.streak = @ + 1]
LockUntil(t) ==
    LET n == Cardinality({k \in DOMAIN closes : closes[k].at < t})
        s[i \in 0..n] == IF i = 0 THEN [streak |-> 0, until |-> 0]
                         ELSE Counted(s[i - 1], CloseAt(i))
    IN s[n].until

Blocked(t) == t < LockUntil(t)

-----------------------------------------------------------------------------
(* One row. *)

(* Until when the next signal waits: since the entry, and for the exit's   *)
(* reason.                                                                 *)
Wait(p, reason) == Best({p.since + FireCooldown, row + Cooldown[reason]})

(* The trade is closed: dated at the row, whenever its price was traded. *)
CloseTrade(p, reason, price, m) ==
    /\ pos' = None
    /\ closes' = Append(closes, [at |-> row, reason |-> reason])
    /\ cooling' = Wait(p, reason)
    /\ done' = [entered |-> p.at, exited |-> m, reason |-> reason, price |-> price,
                trail |-> p.trail, earned |-> Earned(p, m), gap |-> p.gap,
                after |-> IF done = None THEN 0 ELSE done.exited]

FreeSlot(p) == slots' = [slots EXCEPT ![p.slot].close = row]

(* A position faces the ticks of the window that starts at the row. *)
ManageTicks ==
    /\ phase = "manage" /\ pos # None /\ mode = "ticks" /\ ~gap
    /\ LET w == Walk(pos, path, 1, TRUE) IN
        \/ /\ w.hit # "none"
           /\ CloseTrade(w.pos, w.hit, Fill(w.pos, w.hit), Moment(row, w.idx))
           /\ FreeSlot(pos) /\ phase' = "signal"
        \/ /\ w.hit = "none" /\ Stale(w.pos)
           /\ CloseTrade(w.pos, "stale_position", Fav(bar[Ticks]), CloseOf(row))
           /\ FreeSlot(pos) /\ phase' = "signal"
        \/ /\ w.hit = "none" /\ ~Stale(w.pos)
           /\ pos' = w.pos
           /\ phase' = "review"
           /\ UNCHANGED <<slots, closes, cooling, done>>
    /\ UNCHANGED <<symbol, row, bar, path, gap>> /\ Fixed

(* Mutant: the bar moves the mark before it is held against the rules. *)
FacedMarked == Marked(pos, Best(Seen(bar)))

\* The position a bar is held against: as the bars before it left it.
Faced == pos

(* A position faces the bar of the row: candle mode, or no ticks stored.   *)
(* Only candle mode moves the mark afterwards.                             *)
ManageBar ==
    /\ phase = "manage" /\ pos # None /\ (mode = "candle" \/ gap)
    /\ LET hit == RuleHit(Faced, Worst(Seen(bar)), Best(Seen(bar)))
           kept == IF ~Runs(Faced, hit) THEN Faced
                   ELSE AsRunner(Faced, Moment(row - 1, BarIndex(Faced, hit)))
       IN
        \/ /\ hit # "none" /\ ~Runs(Faced, hit)
           /\ CloseTrade(Faced, hit, Fill(Faced, hit), Moment(row - 1, BarIndex(Faced, hit)))
           /\ FreeSlot(pos) /\ phase' = "signal"
        \/ /\ hit = "none" /\ Stale(Faced)
           /\ CloseTrade(Faced, "stale_position", Fav(bar[Ticks]), CloseOf(row))
           /\ FreeSlot(pos) /\ phase' = "signal"
        \/ /\ Runs(Faced, hit) \/ (hit = "none" /\ ~Stale(Faced))
           /\ pos' = IF mode = "candle" THEN Marked(kept, Best(Seen(bar))) ELSE kept
           /\ phase' = "review"
           /\ UNCHANGED <<slots, closes, cooling, done>>
    /\ UNCHANGED <<symbol, row, bar, path, gap>> /\ Fixed

NothingToManage ==
    /\ phase = "manage" /\ pos = None
    /\ phase' = "signal"
    /\ UNCHANGED <<symbol, row, bar, path, gap, pos, slots, closes, cooling, done>>
    /\ Fixed

(* Trend invalidation, at the row's close; a runner is exempt. *)
Review ==
    /\ phase = "review"
    /\ phase' = "next"
    /\ \/ /\ ~pos.runner
          /\ CloseTrade(pos, "trend_invalidation", Fav(bar[Ticks]), CloseOf(row))
          /\ FreeSlot(pos)
       \/ UNCHANGED <<pos, slots, closes, cooling, done>>
    /\ UNCHANGED <<symbol, row, bar, path, gap>> /\ Fixed

NoSignal ==
    /\ phase = "signal"
    /\ phase' = "next"
    /\ UNCHANGED <<symbol, row, bar, path, gap, pos, slots, closes, cooling, done>>
    /\ Fixed

(* _find_entry_tick: the first tick at or below the close for a mean       *)
(* reversion profile, else the last tick; 0 when no tick is stored.        *)
EntryTick ==
    LET under == {i \in 1..Ticks : path[i] <= bar[Ticks]} IN
    CASE mode = "candle" \/ gap -> 0
      [] ~(mode = "candle" \/ gap) /\ low /\ under # {} -> Worst(under)
      [] OTHER -> Ticks

\* The ticks of the entry candle a new position still faces.
RestFrom(i) == i + 1

(* A signal the cooldowns, the breaker and the cap let through opens a     *)
(* position, which faces the rest of the entry candle at once.             *)
Enter ==
    /\ phase = "signal"
    /\ row >= cooling
    /\ ~Blocked(row)
    /\ CanEnter(row)
    /\ LET i == EntryTick
           price == IF i = 0 THEN bar[Ticks] ELSE path[i]
           fresh == [entry |-> price, mark |-> Fav(price), armed |-> FALSE,
                     trail |-> Trail, runner |-> FALSE, since |-> row,
                     main |-> 0, due |-> 0,
                     slot |-> Len(slots) + 1, best |-> Fav(price),
                     at |-> IF i = 0 THEN CloseOf(row) ELSE Moment(row, i),
                     gap |-> gap]
           w == IF i = 0 THEN [pos |-> fresh, hit |-> "none", idx |-> 0]
                ELSE Walk(fresh, path, RestFrom(i), FALSE)
       IN
        \/ /\ w.hit # "none"
           /\ CloseTrade(w.pos, w.hit, Fill(w.pos, w.hit), Moment(row, w.idx))
           /\ slots' = Append(slots, [open |-> row, close |-> row])
        \/ /\ w.hit = "none"
           /\ pos' = w.pos
           /\ slots' = Append(slots, [open |-> row, close |-> Later])
           /\ cooling' = row + FireCooldown
           /\ UNCHANGED <<closes, done>>
    /\ phase' = "next"
    /\ UNCHANGED <<symbol, row, bar, path, gap>> /\ Fixed

NextRow ==
    /\ phase = "next" /\ row < Rows
    /\ row' = row + 1
    /\ bar' = path
    /\ path' \in Paths
    /\ gap' \in Gaps
    /\ phase' = "manage"
    /\ pos' = IF pos = None THEN None
              ELSE [pos EXCEPT !.best = Earned(pos, CloseOf(row)), !.gap = @ \/ gap']
    /\ UNCHANGED <<symbol, slots, closes, cooling, done>> /\ Fixed

\* when the window's end closes a position: its end, or without ticks the last row
WindowEnd == IF mode = "ticks" THEN Rows + 1 ELSE Rows

(* The window ends: an open position is closed at the last price, which    *)
(* the breaker is not told of; the next symbol starts over.                *)
NextSymbol ==
    /\ phase = "next" /\ row = Rows /\ symbol < Symbols
    /\ symbol' = symbol + 1
    /\ row' = 1
    /\ bar' \in Paths /\ path' \in Paths /\ gap' \in Gaps
    /\ phase' = "signal"
    /\ slots' = IF pos = None THEN slots ELSE [slots EXCEPT ![pos.slot].close = WindowEnd]
    /\ pos' = None
    /\ cooling' = 0
    /\ done' = None
    /\ UNCHANGED closes /\ Fixed

Next ==
    \/ ManageTicks \/ ManageBar \/ NothingToManage \/ Review
    \/ NoSignal \/ Enter
    \/ NextRow \/ NextSymbol

Spec == Init /\ [][Next]_vars

-----------------------------------------------------------------------------
Finished == done # None
LevelExits == {"stop_loss", "take_profit", "trailing_stop"}

(* A trade's exit is priced after its entry, and its entry after the exit  *)
(* of the symbol's trade before, unless a window had no ticks: no replay    *)
(* sells what it has not bought.  A level is met after the entry only.  A   *)
(* stale or invalidated position is closed at the row's close, after the    *)
(* replay has read the ticks of the window that starts there: such an exit  *)
(* is not before the entry, and no more is said of it.                      *)
TradesInOrder ==
    Finished /\ ~done.gap =>
        /\ done.entered > done.after
        /\ IF done.reason \in LevelExits THEN done.exited > done.entered
                                        ELSE done.exited >= done.entered

(* A trailing exit, of the part a runner leaves behind too, fills no better *)
(* than the trail below the best price seen between the entry and the exit: *)
(* the mark is made of no price before the position or after its exit.      *)
TrailEarned ==
    /\ Finished /\ ~done.gap /\ done.reason = "trailing_stop" =>
            done.price <= done.earned - done.trail
    /\ pos # None /\ ~pos.gap => pos.main <= pos.due

\* The stop losses in a row, of whatever symbol, that closes[k] ends.
RunOfLosses(k) ==
    Cardinality({l \in DOMAIN closes : Precedes(l, k) /\
        \A m \in DOMAIN closes :
            Precedes(l, m) /\ Precedes(m, k) => closes[m].reason = "stop_loss"})

(* A position is never opened within the pause that follows the last of    *)
(* max_consecutive_stop_losses stop losses in a row, of whatever symbol,   *)
(* among the closes the replay has recorded ("across every symbol the      *)
(* profile trades").                                                       *)
PauseKept ==
    pos # None =>
        ~\E k \in DOMAIN closes :
            /\ closes[k].at < pos.since /\ pos.since < closes[k].at + Lock
            /\ RunOfLosses(k) > 0 /\ RunOfLosses(k) % Limit = 0

=============================================================================
