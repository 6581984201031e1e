------------------------------- MODULE Replay -------------------------------
(***************************************************************************)
(* The trend cache of a backtest (ReplayTrendCache of backtest_engine.py)  *)
(* beside the live one of module Indicators: it is fed the rows that the   *)
(* live cache stored, one after the other, and judges the same             *)
(* configurations.  What its copy of the code does as the live code does   *)
(* is the live operator over the replay's own state (R); what it does in   *)
(* its own way is written out.                                             *)
(***************************************************************************)
EXTENDS Indicators

CONSTANTS EmaStep, RsiStep    \* EMA_THRESHOLD (0.0001) and RSI_THRESHOLD (0.1)

VARIABLE replay    \* [row, own, rsi, ema, bb, candle]: the last row as TrendData,
                   \* its own bar, and the four histories

replayVars == <<vars, replay>>

\* The private helpers are "exact copies from TrendCache".
R == INSTANCE Indicators WITH bars <- <<replay.row>>, rsiH <- replay.rsi, emaH <- replay.ema,
                              bbH <- replay.bb, candleH <- replay.candle

-----------------------------------------------------------------------------
(* Feeding the rows *)

\* prev_candle is the bar of the row before
RowToTrend(row, before) == [row EXCEPT !.bar = IF before = Nil THEN @ ELSE before]

Significant(old, new) ==
    \/ Abs(new.ema20 - old.ema20) > EmaStep
    \/ Abs(new.ema50 - old.ema50) > EmaStep
    \/ Abs(new.rsi - old.rsi) > RsiStep

Nothing == [row |-> Nil, own |-> Nil, rsi |-> <<>>, ema |-> <<>>, bb |-> <<>>, candle |-> <<>>]

\* Mutant of Histories: the EMA history was not lengthened with the live one.
HistoriesShort(r, trendData) ==
    [Updated(r, trendData) EXCEPT !.ema = LastN(@, EmaCap - 1)]
Histories(r, trendData) == Updated(r, trendData)

\* a row that changes too little leaves every history as it was
Fed(r, row) ==
    LET trendData == RowToTrend(row, r.own)
        told == r.row = Nil \/ Significant(r.row, row)
        next == IF told THEN Histories([rsi |-> r.rsi, ema |-> r.ema, bb |-> r.bb,
                                        candle |-> r.candle], trendData)
                ELSE r
    IN [row |-> trendData, own |-> row.bar, rsi |-> next.rsi, ema |-> next.ema,
        bb |-> next.bb, candle |-> next.candle]

-----------------------------------------------------------------------------
(* Judging a configuration at a price *)

PriceOf(mode) == CASE mode = "low" -> replay.own.l [] mode = "high" -> replay.own.h
                   [] OTHER -> replay.own.c

\* ema_cross, price_vs_vwap, price_vs_ema
AgainstAverages(p, price) ==
    CASE p.type = "price_vs_vwap" -> R!price_vs_vwap(price)
      [] p.type = "price_vs_ema"  -> R!price_vs_ema(p, price)
      [] OTHER                    -> R!ema_cross(p)

\* an RSI without a momentum passes on its value
ReplayThreshold(p) ==
    LET known == R!HasMomentum(replay.rsi, 2)
    IN /\ p.momentum /\ replay.row.rsi >= p.early =>
              IF replay.row.rsi < p.min
              THEN known /\ R!Direction(replay.rsi, 2) = "increasing" /\ R!Rise(replay.rsi, 2) >= 2
              ELSE ~known \/ R!Rise(replay.rsi, 2) >= 0
       /\ p.momentum => replay.row.rsi >= p.early
       /\ ~p.momentum => replay.row.rsi >= p.min

\* max_slope_pct bounds the rise only, and replaces the minimum of not_rising
ReplaySlope(p) ==
    /\ R!HasSlope(p)
    /\ R!ema_slope([p EXCEPT !.max = Nil,
                             !.min = IF p.direction = "not_rising" /\ p.max # Nil
                                     THEN p.max ELSE @])
    /\ p.max # Nil => R!SlopeBetween(p, Nil, p.max)

\* rsi_range, ema_gap, rsi_oversold, rsi_overbought
RsiZone(p) ==
    CASE p.type = "rsi_range"    -> R!rsi_range(p)
      [] p.type = "ema_gap"      -> R!ema_gap(p)
      [] p.type = "rsi_oversold" -> R!rsi_oversold(p)
      [] OTHER                   -> R!rsi_overbought(p)

Distance(p, price) ==
    IF p.type \in {"price_below_vwap", "price_above_vwap"}
    THEN R!price_from_vwap(p, price) ELSE R!price_extended_ema(p, price)

Bands(p, price) == R!bollinger_bands(p, price)
Spike(p) == R!volume_spike(p)

OneCandle(p) == OneBar(replay.row.bar, p)
Newer == IF Len(replay.candle) >= 2 THEN LastOf(replay.candle) ELSE replay.row.bar
TwoCandles(p) == TwoBars(R!Older, Newer, p)

\* max_drop_from_close_pct and max_rise_from_close_pct
MovedLittle(p, price) ==
    LET close == (IF p.pattern \in PairPatterns THEN Newer ELSE replay.row.bar).c
    IN p.maxMove # Nil =>
           IF p.pattern \in BullPatterns
           THEN (close - price) * 10000 <= p.maxMove * close
           ELSE (price - close) * 10000 <= p.maxMove * close

\* a momentum that is asked for and missing fails
Reversal(p) ==
    /\ p.jump # Nil => R!HasMomentum(replay.rsi, Span2(p))
    /\ R!rsi_reversal_momentum(replay.rsi, p)
Topping(p) == R!rsi_overbought_momentum(replay.rsi, p)

\* adx_regime; bb_width_regime and bb_pct_b_momentum
Strength(p) == R!adx_regime(p)
BandTrend(p) ==
    IF p.type = "bb_width_regime" THEN R!bb_width_regime(p) ELSE R!bb_pct_b_momentum(p)

\* rsi_momentum and atr_regime
Pace(p) == IF p.type = "rsi_momentum" THEN R!rsi_momentum(p) ELSE R!atr_regime(p)

FromExtreme(p, price) ==
    IF p.type = "distance_from_high"
    THEN R!distance_from_high(p, price) ELSE R!distance_from_low(p, price)
OtherSymbol(p) == R!reference_symbol_vs_ema(p)

Judged(p, price) ==
    CASE p.type \in {"ema_cross", "ema_alignment", "price_vs_vwap", "price_vs_ema"} ->
             AgainstAverages(p, price)
      [] p.type = "rsi_threshold" -> ReplayThreshold(p)
      [] p.type = "ema_slope" -> ReplaySlope(p)
      [] p.type \in {"rsi_range", "ema_gap", "rsi_oversold", "rsi_overbought"} -> RsiZone(p)
      [] p.type \in {"price_below_vwap", "price_above_vwap",
                     "price_extended_below_ema", "price_extended_above_ema"} ->
             Distance(p, price)
      [] p.type = "bollinger_bands" -> Bands(p, price)
      [] p.type = "volume_spike" -> Spike(p)
      [] p.type = "reversal_candle" ->
             /\ IF p.pattern \in PairPatterns THEN TwoCandles(p) ELSE OneCandle(p)
             /\ MovedLittle(p, price)
      [] p.type = "rsi_reversal_momentum" -> Reversal(p)
      [] p.type = "rsi_overbought_momentum" -> Topping(p)
      [] p.type = "adx_regime" -> Strength(p)
      [] p.type \in {"bb_width_regime", "bb_pct_b_momentum"} -> BandTrend(p)
      [] p.type \in {"rsi_momentum", "atr_regime"} -> Pace(p)
      [] p.type \in {"distance_from_high", "distance_from_low"} -> FromExtreme(p, price)
      [] p.type = "reference_symbol_vs_ema" -> OtherSymbol(p)
      [] OTHER -> FALSE     \* price_ema50_range is not known here

\* the vote over the configurations P, of which inds tells group and hard stop
Voted(P, inds, groups, hardStops, need, price) ==
    Decide(P, inds, groups, hardStops, need, {p \in P : Judged(p, price)})

\* "both": the low of the bar, or else its high
IsBullish(P, inds, groups, hardStops, need, mode) ==
    /\ replay.row # Nil
    /\ \E m \in IF mode = "both" THEN {"low", "high"} ELSE {mode} :
           Voted(P, inds, groups, hardStops, need, PriceOf(m))

-----------------------------------------------------------------------------
ReplayInit == Init /\ replay = Nothing

ReplayNext ==
    \/ Update /\ replay' = Fed(replay, LastOf(bars'))
    \/ Restart /\ UNCHANGED replay
    \/ Evict /\ UNCHANGED replay
    \/ Market /\ UNCHANGED replay

ReplaySpec == ReplayInit /\ [][ReplayNext]_replayVars

-----------------------------------------------------------------------------
(* Properties *)

\* what reads the closed bars, which the replay sees one row late
ByClosedBar(p) ==
    \/ p.type \in {"reversal_candle", "atr_regime", "distance_from_high",
                   "distance_from_low", "bb_pct_b_momentum"}
    \/ p.type = "bollinger_bands" /\ p.mode = "breach" /\ p.lookback > 0

\* what the replay's copy of the rule does in its own way
OwnRule(p) == \/ p.type = "price_ema50_range"
              \/ p.type = "ema_slope" /\ p.max # Nil

Alone1(p) == [q \in {p} |-> [group |-> Ungrouped, hardStop |-> FALSE]]
ReplayAccepts(p) == IsBullish({p}, Alone1(p), <<>>, TRUE, 1, "close")

EveryRowTold == \A i \in 1..(Len(bars) - 1) : Significant(bars[i], bars[i + 1])
AtClose == tick = Nil

(***************************************************************************)
(* The backtest takes the decisions the live cache took ("Mimics           *)
(* TrendCache"): on rows that all changed something, judged at the close,  *)
(* the live cache, restarted or not, accepts of the configurations that do *)
(* not read closed bars exactly those the replay accepts and the live code *)
(* can judge to the end.  It cannot where it raises (Raises): it compares  *)
(* a missing RSI momentum, or it formats one for the message of a pass     *)
(* (rsi_reversal_momentum and rsi_overbought_momentum that require no      *)
(* jump).  There the replay, which has neither, may accept what the live   *)
(* cache refuses.                                                          *)
(***************************************************************************)
ReplayAgrees ==
    bars # <<>> /\ Cached /\ Whole /\ EveryRowTold /\ AtClose =>
        \A p \in Configs :
            ~ByClosedBar(p) /\ ~OwnRule(p)
                => (Accepts(p) <=> ReplayAccepts(p) /\ ~Raises(p))

(***************************************************************************)
(* "Full copy of TrendCache._validate_timeframe_indicators — all indicator *)
(* types supported": the same for what reads the closed bars.              *)
(***************************************************************************)
SameCandles ==
    bars # <<>> /\ Cached /\ Whole /\ EveryRowTold /\ AtClose =>
        \A p \in Configs :
            ByClosedBar(p) /\ ~Raises(p) => (Accepts(p) <=> ReplayAccepts(p))

(***************************************************************************)
(* "Returns True if indicators changed (same logic as TrendCache)": the    *)
(* same on rows that changed little.                                       *)
(***************************************************************************)
SameHistories ==
    bars # <<>> /\ Cached /\ Whole /\ AtClose =>
        \A p \in Configs :
            ~ByClosedBar(p) /\ ~OwnRule(p) /\ ~Raises(p)
                => (Accepts(p) <=> ReplayAccepts(p))
=============================================================================
