---------------------------- MODULE MCIndicators ----------------------------
(* Five bars of a small market, and one configuration or two of every indicator. *)
EXTENDS Replay, TLC

Bar(o, h, l, c) == [o |-> o, h |-> h, l |-> l, c |-> c]
Payload(bar, rsi, ema20, lower, upper) ==
    [bar |-> bar, rsi |-> rsi, ema20 |-> ema20, ema50 |-> 40, vwap |-> 40,
     lower |-> lower, upper |-> upper, basis |-> 40,
     ratio |-> IF rsi = 50 THEN Nil ELSE rsi \div 20, adx |-> rsi \div 2]

MCPayloads == { Payload(Bar(44, 45, 36, 37), 25, 41, 36, 44),   \* a falling bar
                Payload(Bar(37, 38, 33, 38), 29, 39, 35, 45),   \* a hammer on the low
                Payload(Bar(36, 45, 36, 44), 36, 40, 35, 45),   \* rises over the bar before
                Payload(Bar(44, 49, 43, 43), 72, 42, 36, 44),   \* a shooting star
                Payload(Bar(40, 42, 37, 41), 50, 40, 36, 48) }    \* a spinning top, no volume
MCTicks == {Nil, 36}
MCRefs == {Nil, [price |-> 39, ema |-> 40]}

Candle(pattern, strict, maxMove) ==
    [type |-> "reversal_candle", price |-> "tick", pattern |-> pattern, strict |-> strict,
     minBody |-> 10, maxBody |-> 35, minClose |-> 60, maxClose |-> 40, maxMove |-> maxMove]
Momentum(type, look, touched, current, jump, sustained, mode) ==
    [type |-> type, price |-> "tick", lookback |-> look, touched |-> touched,
     current |-> current, jump |-> jump, sustained |-> sustained, mode |-> mode]
Sided(type, lo, hi) == [type |-> type, price |-> "tick", lo |-> lo, hi |-> hi, ema |-> 20]
Slope(direction, back) == [type |-> "ema_slope", price |-> "close", ema |-> 20, back |-> back,
                           direction |-> direction, min |-> 100, max |-> Nil]

MCConfigs ==
    {Candle(x, s, m) : x \in DOMAIN Twin, s \in BOOLEAN, m \in {Nil, 500}}
    \cup {Momentum("rsi_reversal_momentum", n, 30, 35, j, s, m) :
             n \in 2..3, j \in {Nil, 5}, s \in BOOLEAN, m \in {"strict", "net"}}
    \cup {Momentum("rsi_overbought_momentum", 3, 70, 65, 5, s, "strict") : s \in BOOLEAN}
    \cup {Slope(d, b) : d \in {"rising", "falling", "not_falling", "not_rising", "flat"}, b \in 1..2}
    \cup {Sided("price_below_vwap", -1000, -100), Sided("price_above_vwap", 100, 1000),
          Sided("price_extended_below_ema", -1000, -200),
          Sided("price_extended_above_ema", 200, 1000),
          Sided("volume_spike", 1, 3), Sided("adx_regime", 0, 25),
          Sided("reference_symbol_vs_ema", Nil, 0)}
    \cup {[type |-> "ema_cross", price |-> "close", slope |-> s, ema |-> 20, back |-> 1, min |-> 1] :
             s \in BOOLEAN}
    \cup {[type |-> "rsi_threshold", price |-> "close", momentum |-> m, early |-> 30, min |-> 40] :
             m \in BOOLEAN}
    \cup {[type |-> "price_vs_vwap", price |-> "close"],
          [type |-> "price_vs_ema", price |-> "tick", ema |-> 50, min |-> 0, max |-> 500],
          [type |-> "ema_gap", price |-> "close", mode |-> "min", min |-> 30, max |-> 30],
          [type |-> "price_ema50_range", price |-> "tick", max |-> 100],
          [type |-> "rsi_oversold", price |-> "tick", max |-> 40, rising |-> TRUE, momentum |-> 1],
          [type |-> "rsi_momentum", price |-> "tick", lookback |-> 1, lo |-> 1, hi |-> Nil],
          [type |-> "atr_regime", price |-> "tick", period |-> 2, lo |-> Nil, hi |-> 1500]}
    \cup {[type |-> "rsi_range", price |-> "tick", min |-> 30, max |-> 60, invert |-> i, override |-> 5] :
             i \in BOOLEAN}
    \cup {[type |-> "rsi_overbought", price |-> "tick", side |-> s, limit |-> 70, lookback |-> k] :
             s \in {"long", "short"}, k \in {Nil, 3}}
    \cup {[type |-> "bollinger_bands", price |-> "tick", band |-> b, mode |-> m, lookback |-> k,
           lo |-> Nil, hi |-> 25, tolerance |-> 50] :
             b \in {"lower", "upper"}, m \in {"pct_b", "touch", "breach"}, k \in {0, 3}}
    \cup {[type |-> "bb_width_regime", price |-> "tick", direction |-> "not_expanding",
           lookback |-> 3, minWidth |-> Nil],
          [type |-> "bb_pct_b_momentum", price |-> "tick", direction |-> "not_rising", lookback |-> 3]}
    \cup {[type |-> t, price |-> "tick", lookback |-> k, lo |-> 0, hi |-> 1200, age |-> 1] :
             t \in {"distance_from_high", "distance_from_low"}, k \in {2, 5}}

ASSUME IndicatorsAssumption
=============================================================================
