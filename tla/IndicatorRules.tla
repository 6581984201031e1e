--------------------------- MODULE IndicatorRules ---------------------------
(***************************************************************************)
(* The indicators a profile may configure (cache/trend_cache.py), as rules *)
(* over the trend of one symbol and timeframe and the histories its cache  *)
(* keeps.  A bar comes with the values computed for it.  Prices are        *)
(* integers, percentages are basis points (Bp) or whole percents, and the  *)
(* caps of the code (15, 12, 15, 200, 20 bars) are constants.              *)
(***************************************************************************)
EXTENDS Integers, Sequences

CONSTANTS
    Nil,
    Payloads,    \* what compute_rows may hand over for a bar
    Ticks,       \* live prices of the price cache, Nil when it has none
    Refs,        \* [price, ema] of a reference symbol, Nil when there is no data
    Configs,     \* the indicators configured
    RsiCap, EmaCap, BbCap, CandleCap,
    MinBars,     \* the bars distance_from_high and _low want at most (20)
    WarmRows,    \* the rows a restart replays (get_trend_history)
    Eps,         \* the change of a price under which two bars are one (0.0001)
    MaxRows      \* bound: bars fed

VARIABLES
    bars,        \* trend_analysis_log, oldest first
    rsiH, emaH, bbH, candleH,   \* the histories of the cache
    tick,        \* PriceCache.get_price
    ref          \* the trend of the reference symbol

Least(a, b) == IF a < b THEN a ELSE b
Abs(x) == IF x < 0 THEN -x ELSE x
LastN(s, n) == SubSeq(s, Len(s) - Least(n, Len(s)) + 1, Len(s))
LastOf(s) == s[Len(s)]
Values(s) == {s[i] : i \in DOMAIN s}
Lowest(S) == CHOOSE x \in S : \A y \in S : x <= y
Highest(S) == CHOOSE x \in S : \A y \in S : x >= y

\* (x - y) / y * 100 against percentages in basis points, y > 0
GapAtLeast(x, y, bp) == (x - y) * 10000 >= bp * y
GapAtMost(x, y, bp) == (x - y) * 10000 <= bp * y
Between(x, y, lo, hi) == /\ lo # Nil => GapAtLeast(x, y, lo)
                         /\ hi # Nil => GapAtMost(x, y, hi)

-----------------------------------------------------------------------------
(* What an indicator reads *)

Cached == rsiH # <<>>          \* `trend` is in the cache
trend == LastOf(bars)
CurrentPrice(mode) == IF mode = "tick" /\ tick # Nil THEN tick ELSE trend.bar.c
EmaOf(x, n) == IF n = 20 THEN x.ema20 ELSE x.ema50

\* _get_rsi_momentum: n times the average change over n bars, and its direction
HasMomentum(h, n) == Len(h) >= n + 1
Rise(h, n) == LastOf(h) - h[Len(h) - n]
Direction(h, n) ==
    IF Rise(h, n) > 0 /\ Rise(h, 1) <= 0 THEN "unstable"
    ELSE IF Rise(h, n) > n THEN "increasing"
    ELSE IF Rise(h, n) < -n THEN "decreasing"
    ELSE "stable"

\* _get_ema_slope between the last bar and the one `back` bars earlier
HasSlope(p) == Len(emaH) >= p.back + 1
SlopeBetween(p, lo, hi) ==
    Between(EmaOf(LastOf(emaH), p.ema), EmaOf(emaH[Len(emaH) - p.back], p.ema), lo, hi)

\* _get_bb_width_trend: first and last width over the window, in Bp of the basis
Width(e) == ((e.upper - e.lower) * 10000) \div e.basis
BbWindow(n) == LastN(bbH, n)
WidthTrend(n, thr) ==
    LET w == BbWindow(n)
        change == Width(w[Len(w)]) - Width(w[1])
        sum[i \in 0..Len(w)] == IF i = 0 THEN 0 ELSE sum[i - 1] + Width(w[i])
        \* change / (Len - 1) against (sum / Len) * thr%
        scaled == change * Len(w) * 100
        limit == sum[Len(w)] * thr * (Len(w) - 1)
    IN IF scaled > limit THEN "expanding"
       ELSE IF scaled < -limit THEN "contracting" ELSE "stable"

\* _get_pct_b_trend, %B in percent of the band
PctB(price, e) == ((price - e.lower) * 100) \div (e.upper - e.lower)
PctBWindow(n) == SelectSeq(BbWindow(n), LAMBDA e : e.upper > e.lower)
PctBTrend(n) ==
    LET w == PctBWindow(n)
        change == PctB(LastOf(w).price, LastOf(w)) - PctB(w[1].price, w[1])
    IN IF change < -8 THEN "falling" ELSE IF change > 8 THEN "rising" ELSE "flat"

\* get_atr_pct: the mean true range of the last n bars, in Bp of the last close
AtrPct(n) ==
    LET k == Len(candleH)
        Tr(i) == Highest({candleH[i].h - candleH[i].l,
                          Abs(candleH[i].h - candleH[i - 1].c),
                          Abs(candleH[i].l - candleH[i - 1].c)})
        sum[i \in 0..n] == IF i = 0 THEN 0 ELSE sum[i - 1] + Tr(k - n + i)
    IN (sum[n] * 10000) \div (n * candleH[k].c)

-----------------------------------------------------------------------------
(* Reversal candles *)

Bull(c) == c.c > c.o
Bear(c) == c.c < c.o
Top(c) == IF Bull(c) THEN c.c ELSE c.o
Bottom(c) == IF Bull(c) THEN c.o ELSE c.c
Body(c) == Top(c) - Bottom(c)
Span(c) == c.h - c.l
UpperWick(c) == c.h - Top(c)
LowerWick(c) == Bottom(c) - c.l
Engulfs(c1, c2) == Bottom(c2) <= Bottom(c1) /\ Top(c2) >= Top(c1)

RealBody(c, p) == Body(c) > 0 /\ Body(c) * 100 >= p.minBody * Span(c)
HammerAnyTop(c, p) == RealBody(c, p) /\ LowerWick(c) >= 2 * Body(c)
Hammer(c, p) == /\ RealBody(c, p)
                /\ LowerWick(c) >= 2 * Body(c)
                /\ UpperWick(c) * 10 <= 3 * Body(c)
ShootingStar(c, p) == /\ RealBody(c, p)
                      /\ UpperWick(c) >= 2 * Body(c)
                      /\ LowerWick(c) * 10 <= 3 * Body(c)

OneBar(c, p) ==
    /\ Span(c) # 0
    /\ CASE p.pattern = "hammer"        -> Hammer(c, p)
         [] p.pattern = "shooting_star" -> ShootingStar(c, p)
         [] p.pattern = "doji"          -> Body(c) * 100 <= p.maxBody * Span(c)
         [] p.pattern = "bull_close"    -> (c.c - c.l) * 100 >= p.minClose * Span(c)
         [] p.pattern = "bear_close"    -> (c.c - c.l) * 100 <= p.maxClose * Span(c)

TwoBars(c1, c2, p) ==
    CASE p.pattern = "higher_low" -> c2.l > c1.l /\ (p.strict => Bull(c2))
      [] p.pattern = "lower_high" -> c2.h < c1.h /\ (p.strict => Bear(c2))
      [] p.pattern = "engulfing" -> Bull(c2) /\ ~Bull(c1) /\ Engulfs(c1, c2)
      [] p.pattern = "bear_engulfing" -> ~Bull(c2) /\ Bull(c1) /\ Engulfs(c1, c2)

BullPatterns == {"hammer", "doji", "bull_close", "higher_low", "engulfing"}
PairPatterns == {"higher_low", "engulfing", "lower_high", "bear_engulfing"}

\* the older of the two closed bars; the newer is the last of the history, and
\* with one bar in the history the last closed bar is that bar again
Older == IF Len(candleH) >= 2 THEN candleH[Len(candleH) - 1] ELSE candleH[1]

reversal_candle(p, price) ==
    LET pair == p.pattern \in PairPatterns
        newer == IF pair /\ Len(candleH) >= 2 THEN LastOf(candleH) ELSE trend.bar
    IN /\ IF pair THEN TwoBars(Older, newer, p) ELSE OneBar(trend.bar, p)
       /\ p.maxMove # Nil =>
             IF p.pattern \in BullPatterns
             THEN (newer.c - price) * 10000 <= p.maxMove * newer.c
             ELSE (price - newer.c) * 10000 <= p.maxMove * newer.c

-----------------------------------------------------------------------------
(* The other indicators, by the name a profile gives them *)

ema_cross(p) == /\ trend.ema20 > trend.ema50
                /\ p.slope /\ HasSlope(p) => SlopeBetween(p, p.min, Nil)

\* a missing momentum is compared or formatted as a number, and raises
MomentumRead(p) == p.momentum /\ trend.rsi >= p.early
rsi_threshold(p) ==
    \/ ~p.momentum /\ trend.rsi >= p.min
    \/ p.momentum /\ trend.rsi >= p.min /\ Rise(rsiH, 2) >= 0
    \/ /\ p.momentum /\ trend.rsi >= p.early /\ trend.rsi < p.min
       /\ Direction(rsiH, 2) = "increasing" /\ Rise(rsiH, 2) >= 2

price_vs_vwap(price) == price > trend.vwap

price_vs_ema(p, price) ==
    Between(price, EmaOf(trend, p.ema), p.min, IF p.max > 0 THEN p.max ELSE Nil)

ema_slope(p) ==
    /\ HasSlope(p)
    /\ CASE p.direction = "rising"      -> ~SlopeBetween(p, Nil, p.min)
         [] p.direction = "falling"     -> ~SlopeBetween(p, -p.min, Nil)
         [] p.direction = "not_falling" -> SlopeBetween(p, -p.min, Nil)
         [] p.direction = "not_rising"  ->
                SlopeBetween(p, Nil, IF p.max # Nil THEN p.max ELSE p.min)
         [] OTHER                       -> SlopeBetween(p, -p.min, p.min)
    /\ p.max # Nil => SlopeBetween(p, -p.max, p.max)

rsi_range(p) ==
    LET inside == p.min <= trend.rsi /\ trend.rsi <= p.max
    IN IF p.invert THEN inside
       ELSE \/ ~inside
            \/ /\ p.override # Nil /\ HasMomentum(rsiH, 2)
               /\ Rise(rsiH, 2) > 0 /\ Rise(rsiH, 2) >= 2 * p.override

ema_gap(p) ==
    LET gap == Abs(trend.ema20 - trend.ema50) * 10000
    IN IF p.mode = "min" THEN gap >= p.min * trend.ema50 ELSE gap <= p.max * trend.ema50

price_ema50_range(p, price) == ~Between(price, trend.ema50, -p.max, p.max)

rsi_oversold(p) ==
    /\ trend.rsi < p.max
    /\ p.rising => /\ HasMomentum(rsiH, 2)
                   /\ Direction(rsiH, 2) = "increasing"
                   /\ Rise(rsiH, 2) >= 2 * p.momentum

\* the look back is skipped when the history is shorter than it
rsi_overbought(p) ==
    LET seen == {trend.rsi} \cup
                (IF p.lookback # Nil /\ Len(rsiH) >= p.lookback
                 THEN Values(LastN(rsiH, p.lookback)) ELSE {})
    IN IF p.side = "short" THEN \A r \in seen : r >= p.limit
       ELSE \A r \in seen : r <= p.limit

\* price_below_vwap and price_above_vwap; price_extended_below_ and _above_ema
price_from_vwap(p, price) == Between(price, trend.vwap, p.lo, p.hi)
price_extended_ema(p, price) == Between(price, EmaOf(trend, p.ema), p.lo, p.hi)

bollinger_bands(p, price) ==
    LET band == IF p.band = "lower" THEN trend.lower ELSE trend.upper
        window == LastN(bbH, p.lookback)
    IN /\ trend.lower # Nil
       /\ CASE p.mode = "pct_b" ->
                /\ trend.upper > trend.lower
                /\ p.lo # Nil => (price - trend.lower) * 100 >= p.lo * (trend.upper - trend.lower)
                /\ p.hi # Nil => (price - trend.lower) * 100 <= p.hi * (trend.upper - trend.lower)
            [] p.mode = "touch" -> Between(price, band, -p.tolerance, p.tolerance)
            [] p.mode = "breach" /\ p.lookback > 0 ->
                \E e \in Values(window) :
                    IF p.band = "lower" THEN e.price <= e.lower ELSE e.price >= e.upper
            [] OTHER -> IF p.band = "lower" THEN price <= band ELSE price < band

volume_spike(p) == trend.ratio # Nil /\ p.lo <= trend.ratio /\ trend.ratio <= p.hi
adx_regime(p) == trend.adx # Nil /\ p.lo <= trend.adx /\ trend.adx <= p.hi

rsi_momentum(p) ==
    /\ HasMomentum(rsiH, p.lookback)
    /\ p.lo # Nil => Rise(rsiH, p.lookback) >= p.lookback * p.lo
    /\ p.hi # Nil => Rise(rsiH, p.lookback) <= p.lookback * p.hi

\* the dip below p.touched, the jump after it, and the rise that still goes on
JumpAfterLow(w, jump) ==
    \E i \in 2..Len(w) :
        /\ w[i] - w[i - 1] >= jump
        /\ \E k \in 1..(i - 1) : w[k] = Lowest(Values(w))
Climbed(h, mode) ==
    LET n == Len(h)
    IN \/ h[n - 1] > h[n - 2] /\ h[n] > h[n - 1]
       \/ mode = "net" /\ h[n] > h[n - 2]
Span2(p) == IF p.sustained THEN 2 ELSE 1
rsi_reversal_momentum(h, p) ==
    LET w == LastN(h, p.lookback)
    IN /\ Len(h) >= p.lookback
       /\ \E r \in Values(w) : r < p.touched
       /\ LastOf(h) >= p.current
       /\ p.jump # Nil => /\ JumpAfterLow(w, p.jump)
                          /\ Rise(h, Span2(p)) > 2 * Span2(p)
                          /\ Direction(h, Span2(p)) = "increasing"
       /\ p.sustained /\ Len(h) >= 3 => Climbed(h, p.mode)

DropAfterPeak(w, drop) ==
    \E i \in 2..Len(w) :
        /\ w[i - 1] - w[i] >= drop
        /\ \E k \in 1..(i - 1) : w[k] = Highest(Values(w))
Sank(h, mode) ==
    LET n == Len(h)
    IN \/ h[n - 1] < h[n - 2] /\ h[n] < h[n - 1]
       \/ mode = "net" /\ h[n] < h[n - 2]
rsi_overbought_momentum(h, p) ==
    LET w == LastN(h, p.lookback)
    IN /\ Len(h) >= p.lookback
       /\ \E r \in Values(w) : r > p.touched
       /\ LastOf(h) <= p.current
       /\ p.jump # Nil => /\ DropAfterPeak(w, p.jump)
                          /\ HasMomentum(h, Span2(p))
                          /\ Rise(h, Span2(p)) < -2 * Span2(p)
                          /\ Direction(h, Span2(p)) = "decreasing"
       /\ p.sustained /\ Len(h) >= 3 => Sank(h, p.mode)

bb_width_regime(p) ==
    /\ Len(BbWindow(p.lookback)) >= 2
    /\ p.minWidth # Nil => Width(LastOf(bbH)) >= p.minWidth
    /\ LET d == WidthTrend(p.lookback, 8)
       IN IF p.direction = "not_expanding" THEN d # "expanding" ELSE d = p.direction

bb_pct_b_momentum(p) ==
    /\ Len(PctBWindow(p.lookback)) >= 2
    /\ LET d == PctBTrend(p.lookback)
       IN IF p.direction = "not_rising" THEN d # "rising" ELSE d = p.direction

\* these three pass when there is not enough to judge by
atr_regime(p) ==
    Len(candleH) >= p.period + 1 =>
        /\ p.lo # Nil => AtrPct(p.period) >= p.lo
        /\ p.hi # Nil => AtrPct(p.period) <= p.hi
distance_from_high(p, price) ==
    LET w == LastN(candleH, p.lookback)
        high == Highest({c.h : c \in Values(w)})
    IN Len(w) >= Least(MinBars, p.lookback) =>
           /\ (high - price) * 10000 >= p.lo * high
           /\ (high - price) * 10000 <= p.hi * high
reference_symbol_vs_ema(p) == ref # Nil => Between(ref.price, ref.ema, p.lo, p.hi)

distance_from_low_open(p, price) ==
    LET w == LastN(candleH, p.lookback)
        low == Lowest({c.l : c \in Values(w)})
        age == Len(w) - Highest({i \in DOMAIN w : w[i].l = low})
    IN Len(w) >= Least(MinBars, p.lookback) =>
           Between(price, low, p.lo, p.hi) /\ age >= p.age
distance_from_low(p, price) ==
    LET w == LastN(candleH, p.lookback)
        low == Lowest({c.l : c \in Values(w)})
        age == Len(w) - Highest({i \in DOMAIN w : w[i].l = low})
    IN /\ Len(w) >= Least(MinBars, p.lookback)
       /\ Between(price, low, p.lo, p.hi)
       /\ age >= p.age

-----------------------------------------------------------------------------
(* _validate_timeframe_indicators for one indicator.  An exception ends    *)
(* the whole validation.                                                   *)

\* a momentum that is missing is compared with a number
ComparesMissing(p) ==
    \/ p.type = "rsi_threshold" /\ MomentumRead(p) /\ ~HasMomentum(rsiH, 2)
    \/ /\ p.type = "rsi_reversal_momentum" /\ p.jump # Nil
       /\ Len(rsiH) >= p.lookback /\ ~HasMomentum(rsiH, Span2(p))

\* or, where no jump is required, formatted as one for the message of a pass
FormatsMissing(p) ==
    /\ \/ p.type = "rsi_reversal_momentum" /\ p.jump = Nil /\ rsi_reversal_momentum(rsiH, p)
       \/ p.type = "rsi_overbought_momentum" /\ p.jump = Nil /\ rsi_overbought_momentum(rsiH, p)
    /\ ~HasMomentum(rsiH, Span2(p))

Raises(p) == ComparesMissing(p) \/ FormatsMissing(p)

Verdict(p) ==
    LET price == CurrentPrice(p.price)
    IN CASE p.type \in {"ema_cross", "ema_alignment"} -> ema_cross(p)
         [] p.type = "rsi_threshold" -> rsi_threshold(p)
         [] p.type = "price_vs_vwap" -> price_vs_vwap(price)
         [] p.type = "price_vs_ema" -> price_vs_ema(p, price)
         [] p.type = "ema_slope" -> ema_slope(p)
         [] p.type = "rsi_range" -> rsi_range(p)
         [] p.type = "ema_gap" -> ema_gap(p)
         [] p.type = "price_ema50_range" -> price_ema50_range(p, price)
         [] p.type = "rsi_oversold" -> rsi_oversold(p)
         [] p.type = "rsi_overbought" -> rsi_overbought(p)
         [] p.type \in {"price_below_vwap", "price_above_vwap"} -> price_from_vwap(p, price)
         [] p.type \in {"price_extended_below_ema", "price_extended_above_ema"} ->
                price_extended_ema(p, price)
         [] p.type = "bollinger_bands" -> bollinger_bands(p, price)
         [] p.type = "volume_spike" -> volume_spike(p)
         [] p.type = "reversal_candle" -> reversal_candle(p, price)
         [] p.type = "rsi_reversal_momentum" -> rsi_reversal_momentum(rsiH, p)
         [] p.type = "rsi_overbought_momentum" -> rsi_overbought_momentum(rsiH, p)
         [] p.type = "adx_regime" -> adx_regime(p)
         [] p.type = "bb_width_regime" -> bb_width_regime(p)
         [] p.type = "bb_pct_b_momentum" -> bb_pct_b_momentum(p)
         [] p.type = "rsi_momentum" -> rsi_momentum(p)
         [] p.type = "atr_regime" -> atr_regime(p)
         [] p.type = "distance_from_high" -> distance_from_high(p, price)
         [] p.type = "distance_from_low" -> distance_from_low(p, price)
         [] p.type = "reference_symbol_vs_ema" -> reference_symbol_vs_ema(p)
         [] OTHER -> FALSE

Accepts(p) == Cached /\ ~Raises(p) /\ Verdict(p)

-----------------------------------------------------------------------------
(* The mirror *)

\* the market upside down
Upturned(h) == [i \in DOMAIN h |-> 100 - h[i]]
Flipped(c) == [o |-> 100 - c.o, h |-> 100 - c.l, l |-> 100 - c.h, c |-> 100 - c.c]
Twin == [hammer |-> "shooting_star", shooting_star |-> "hammer", doji |-> "doji",
         bull_close |-> "bear_close", bear_close |-> "bull_close",
         higher_low |-> "lower_high", lower_high |-> "higher_low",
         engulfing |-> "bear_engulfing", bear_engulfing |-> "engulfing"]
TwinOf(p) == [p EXCEPT !.pattern = Twin[@],
                       !.minClose = 100 - p.maxClose, !.maxClose = 100 - p.minClose]
TwinMomentum(p) == [p EXCEPT !.touched = 100 - @, !.current = 100 - @]

\* What the two need of a payload and of their configurations.
CandleConfig == [type : {"reversal_candle"}, price : {"tick", "close"}, pattern : DOMAIN Twin,
                 strict : BOOLEAN, minBody : Int, maxBody : Int, minClose : Int, maxClose : Int,
                 maxMove : Int \cup {Nil}]
MomentumConfig == [type : {"rsi_reversal_momentum"}, price : {"tick", "close"},
                   lookback : Nat \ {0}, touched : Int, current : Int,
                   jump : Int \cup {Nil}, sustained : BOOLEAN, mode : {"strict", "net"}]
IndicatorsAssumption ==
    /\ {RsiCap, CandleCap, WarmRows} \subseteq Nat \ {0}
    /\ \A p \in Payloads : p.rsi \in Int /\ p.bar \in [o : Int, h : Int, l : Int, c : Int]
    /\ \A p \in Configs : /\ p.type = "reversal_candle" => p \in CandleConfig
                          /\ p.type = "rsi_reversal_momentum" => p \in MomentumConfig

(***************************************************************************)
(* The short side is the long side upside down ("Mirror of ..." at         *)
(* shooting_star, bear_close, lower_high and rsi_overbought_momentum):     *)
(* every pattern and the reversal momentum judge a market as their twins   *)
(* judge its reflection.  Left out are bars without a body, which both     *)
(* engulfing patterns count as bearish, and the "net" mode of the          *)
(* momentum, where a fall may be confirmed by a bar on which RSI rose.     *)
(***************************************************************************)
MirrorImage ==
    Cached => \A p \in Configs :
        /\ p.type = "reversal_candle" =>
              IF p.pattern \notin PairPatterns
              THEN OneBar(trend.bar, p) <=> OneBar(Flipped(trend.bar), TwinOf(p))
              ELSE Body(Older) # 0 /\ Body(trend.bar) # 0 =>
                       (TwoBars(Older, trend.bar, p)
                        <=> TwoBars(Flipped(Older), Flipped(trend.bar), TwinOf(p)))
        /\ p.type = "rsi_reversal_momentum" /\ ~ComparesMissing(p)
           /\ (p.sustained => p.mode = "strict") =>
              (rsi_reversal_momentum(rsiH, p)
               <=> rsi_overbought_momentum(Upturned(rsiH), TwinMomentum(p)))
=============================================================================
