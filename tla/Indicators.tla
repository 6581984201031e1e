----------------------------- MODULE Indicators -----------------------------
(***************************************************************************)
(* The trend cache (cache/trend_cache.py) of one symbol and timeframe: how *)
(* its histories are updated, rebuilt after a restart and emptied.  What   *)
(* the indicators make of them is in module IndicatorRules.                *)
(***************************************************************************)
EXTENDS IndicatorRules, IndicatorVote

vars == <<bars, rsiH, emaH, bbH, candleH, tick, ref>>
cache == <<rsiH, emaH, bbH, candleH>>

-----------------------------------------------------------------------------
(* TrendCache.update and its callers *)

Pushed(h, x, cap) == LastN(Append(h, x), cap)

\* a bar is new when its close or its open moved by more than Eps
PushedCandle(h, bar) ==
    IF /\ h # <<>>
       /\ Abs(LastOf(h).c - bar.c) <= Eps
       /\ Abs(LastOf(h).o - bar.o) <= Eps
    THEN h ELSE Pushed(h, bar, CandleCap)

Updated(c, p) == [ rsi |-> Pushed(c.rsi, p.rsi, RsiCap),
                   ema |-> Pushed(c.ema, [ema20 |-> p.ema20, ema50 |-> p.ema50], EmaCap),
                   bb  |-> IF p.lower = Nil THEN c.bb
                           ELSE Pushed(c.bb, [lower |-> p.lower, upper |-> p.upper,
                                              basis |-> p.basis, price |-> p.bar.c], BbCap),
                   candle |-> PushedCandle(c.candle, p.bar) ]

Empty == [rsi |-> <<>>, ema |-> <<>>, bb |-> <<>>, candle |-> <<>>]

\* warmup_trend_cache: the newest rows, oldest first, through update
Warmed == LET w == LastN(bars, WarmRows)
              f[i \in 0..Len(w)] == IF i = 0 THEN Empty ELSE Updated(f[i - 1], w[i])
          IN f[Len(w)]

SetCache(c) == /\ rsiH' = c.rsi /\ emaH' = c.ema /\ bbH' = c.bb /\ candleH' = c.candle

Init == /\ bars = <<>> /\ rsiH = <<>> /\ emaH = <<>> /\ bbH = <<>> /\ candleH = <<>>
        /\ tick \in Ticks
        /\ ref \in Refs

Update == \E p \in Payloads :
    /\ Len(bars) < MaxRows
    /\ bars' = Append(bars, p)
    /\ SetCache(Updated([rsi |-> rsiH, ema |-> emaH, bb |-> bbH, candle |-> candleH], p))
    /\ UNCHANGED <<tick, ref>>

Restart == /\ bars # <<>>
           /\ SetCache(Warmed)
           /\ UNCHANGED <<bars, tick, ref>>

\* evict_symbol: a symbol leaves the monitored list, its bars stay
Evict == /\ rsiH # <<>>
         /\ SetCache(Empty)
         /\ UNCHANGED <<bars, tick, ref>>

Market == /\ tick' \in Ticks /\ ref' \in Refs
          /\ UNCHANGED <<bars, cache>>

Next == Update \/ Restart \/ Evict \/ Market

Spec == Init /\ [][Next]_vars

-----------------------------------------------------------------------------
(* Properties *)

FailOpen == {"atr_regime", "distance_from_high", "reference_symbol_vs_ema"}
Whole == Len(rsiH) >= Least(RsiCap, Len(bars))

(***************************************************************************)
(* A restart never talks an indicator into a pass: the cache that the      *)
(* warm-up rebuilds from the newest rows refuses what the cache before it  *)
(* refused, but for the three that let a short history through.  The       *)
(* comment at distance_from_low tells of the gate this once switched off   *)
(* "for days after every restart".                                         *)
(***************************************************************************)
RestartNeverLoosens ==
    [][Restart /\ Whole =>
           \A p \in Configs : p.type \notin FailOpen /\ Accepts(p)'
                               => Accepts(p) \/ Raises(p)]_vars
=============================================================================
