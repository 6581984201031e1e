---------------------------- MODULE SignalScore -----------------------------
(***************************************************************************)
(* SignalGenerator.generate_signal for one symbol and one profile: from    *)
(* the balance through the market regime, the re-entry rule and the        *)
(* filters to a confidence, on the rules' path and on the AI's.            *)
(*                                                                         *)
(* A market is one record of what the code reads: h for the trend          *)
(* timeframe, e for the entry timeframe, either of them Nil when there is  *)
(* no fresh trend.  RSI and its momentum are whole numbers, volume ratios  *)
(* tenths, percentages basis points, and points and confidences tenths.    *)
(* Prices appear as gaps in basis points; what the indicators of a filter  *)
(* decide (module Indicators) is a Boolean.                                *)
(***************************************************************************)
EXTENDS Integers, FiniteSets, FiniteSetsExt

CONSTANTS
    Nil,
    Profiles,      \* [strategy, trading, trendFilter, entryFilter, regimeFilter]
    Markets,
    Opinions,      \* what the AI agent may return: Nil or [enter, confidence]
    MinVolume,     \* min_volume_ratio
    MinConfidence, \* min_signal_confidence
    RegimeTTL,     \* _cache_ttl of the regime filter, in ticks
    Old            \* bound: times are counted up to it

VARIABLES
    profile, market,
    regime,        \* _regime_cache of this key: [verdict, age] or Nil
    opinion,       \* of the AI agent
    outcome,       \* of the last scan: [stage, confidence]
    risky          \* history: for how long the market has been HIGH_RISK

vars == <<profile, market, regime, opinion, outcome, risky>>

Strategies == {"trend", "short_trend", "reversion", "short_reversion", "range"}

ScoreAssumption ==
    /\ RegimeTTL \in Nat \ {0} /\ Old \in Nat /\ Old > RegimeTTL
    /\ MinConfidence \in Int
    /\ Profiles \subseteq [strategy : Strategies, trading : {"RULES", "SHADOW", "AI_LIVE"},
                          trendFilter : BOOLEAN, entryFilter : BOOLEAN, regimeFilter : BOOLEAN]

IsShort(s) == s \in {"short_trend", "short_reversion"}
Reversion == {"reversion", "short_reversion"}
Abs(x) == IF x < 0 THEN -x ELSE x

\* A table of thresholds: the points of the best row that is reached.
Below(x, rows) == Max({0} \cup {r[2] : r \in {q \in rows : x < q[1]}})
AtLeast(x, rows) == Max({0} \cup {r[2] : r \in {q \in rows : x >= q[1]}})

-----------------------------------------------------------------------------
(* The regime filter: _check_high_risk, _check_choppy, get_regime_detail.  *)
(* Its primary timeframe is h but for reversion, which looks at e.         *)

Primary(s, m) == IF s \in Reversion THEN m.e ELSE m.h

Panic(s, t) ==
    \/ IsShort(s) /\ (t.rsi < 20 \/ (t.momentum # Nil /\ t.momentum < -12))
    \/ s \in {"trend", "range"} /\ t.rsi < 30
    \/ s = "reversion" /\ (t.rsi < 20 \/ (t.momentum # Nil /\ t.momentum < -10))

Euphoria(s, t) ==
    CASE s = "short_reversion" -> t.rsi > 85 /\ t.momentum # Nil /\ t.momentum > 8
      [] s = "short_trend"     -> t.rsi > 80 /\ t.momentum # Nil /\ t.momentum > 10
      [] OTHER                 -> t.rsi > 78

\* a sustained trend against the trade, or a reversal on the lower timeframe
Against(s, t, e) ==
    CASE s = "short_trend" ->
             \/ t.spread > 200
             \/ e # Nil /\ t.spread < -100 /\ e.spread > 80 /\ e.gapEma20 > 0
      [] s = "short_reversion" -> t.spread > 200
      [] s = "reversion"       -> t.spread < -200
      [] s = "range"           -> FALSE
      [] s = "trend" ->
             e # Nil /\ t.spread > 100 /\ e.spread < -80 /\ e.gapEma20 <= 0

Distribution(s, t) ==
    /\ ~IsShort(s) /\ t.volume # Nil /\ t.volume > 15
    /\ t.gapVwap < 0 /\ t.direction = "decreasing"

HighRisk(s, t, e) ==
    Panic(s, t) \/ Euphoria(s, t) \/ Against(s, t, e) \/ Distribution(s, t)

\* Compression is no chop when EMA20 rises or ADX shows a trend.
Compressed(t) ==
    Abs(t.spread) < 50 /\ t.slope # "rising" /\ ~(t.adx # Nil /\ t.adx > 22)

\* The issues found; a stagnant price counts as two.
ChopIssues(t, e) ==
    Cardinality({i \in {"EMA", "2TF", "RSI", "VOL", "FLAT", "FLAT again"} :
        CASE i = "EMA" -> Compressed(t)
          [] i = "2TF" -> e # Nil /\ Compressed(t) /\ Abs(e.spread) < 50
          [] i = "RSI" -> /\ 45 < t.rsi /\ t.rsi < 55
                          /\ t.momentum # Nil /\ Abs(t.momentum) < 1
          [] i = "VOL" -> /\ t.volume # Nil /\ t.volume < 4
                          /\ e # Nil /\ e.volume # Nil /\ e.volume < 5
          [] OTHER     -> Abs(t.gapEma20) < 30 /\ Abs(t.gapEma20 + t.spread) < 50})

Classified(s, m) ==
    LET t == Primary(s, m)
    IN  CASE t = Nil -> "UNKNOWN"
          [] t # Nil -> IF HighRisk(s, t, m.e) THEN "HIGH_RISK"
                        ELSE IF ChopIssues(t, m.e) >= 2 THEN "CHOPPY" ELSE "SAFE"

\* Mutant of RegimeNow: a hit renews the entry.
RegimeNowRenewed(s, m, r) ==
    IF r # Nil /\ r.age < RegimeTTL THEN [r EXCEPT !.age = 0]
    ELSE IF Classified(s, m) = "UNKNOWN" THEN [verdict |-> "UNKNOWN", age |-> Old]
    ELSE [verdict |-> Classified(s, m), age |-> 0]

\* A verdict is served from the cache while it lasts; UNKNOWN is not kept, nor
\* does it remove what is kept.
RegimeNow(s, m, r) ==
    IF r # Nil /\ r.age < RegimeTTL THEN r
    ELSE IF Classified(s, m) = "UNKNOWN" THEN [verdict |-> "UNKNOWN", age |-> Old]
    ELSE [verdict |-> Classified(s, m), age |-> 0]

CanTrade(s, verdict) ==
    IF s = "trend" THEN verdict = "SAFE" ELSE verdict # "HIGH_RISK"

\* The backtest's copy of the filter (ReplayRegimeFilter) asks the same of the
\* close of the bar, keeps no verdict, and calls a market without data safe.
ReplayHighRisk(s, t, e) == HighRisk(s, t, e)
ReplayChoppy(t, e) == ChopIssues(t, e) >= 2
ReplayRegime(s, m) ==
    LET t == Primary(s, m)
    IN  CASE t = Nil -> "SAFE"
          [] t # Nil -> IF ReplayHighRisk(s, t, m.e) THEN "HIGH_RISK"
                        ELSE IF ReplayChoppy(t, m.e) THEN "CHOPPY" ELSE "SAFE"
ReplayCanTrade(s, m) == CanTrade(s, ReplayRegime(s, m))

-----------------------------------------------------------------------------
(* The confidence.                                                         *)

TrendWeight(p) == IF p.trendFilter THEN 400 ELSE 0
EntryWeight(p) == IF p.entryFilter THEN 350 ELSE 0
VolumeWeight == 150
SafetyWeight == 100
MaxConfidence(p) == TrendWeight(p) + EntryWeight(p) + VolumeWeight + SafetyWeight

Percent(points, most) == (points * 1000) \div most

VolumePoints(m) ==
    IF m.e # Nil /\ m.e.volume # Nil /\ m.e.volume >= MinVolume
    THEN VolumeWeight ELSE (VolumeWeight * 3) \div 10

\* the points of an entry's RSI: full, three tenths, or thirty less
Overbought(rsi) == IF rsi < 65 THEN SafetyWeight ELSE IF rsi > 80 THEN -300 ELSE 30
Oversold(rsi) == IF rsi >= 35 THEN SafetyWeight ELSE IF rsi < 25 THEN -300 ELSE 30

SafetyPoints(s, m) ==
    CASE s \in {"trend", "range"} -> Overbought(m.e.rsi)
      [] s = "short_trend"        -> Oversold(IF m.e = Nil THEN 50 ELSE m.e.rsi)
      [] OTHER                    -> SafetyWeight

DipDepth == {<<25, 100>>, <<30, 80>>, <<34, 60>>, <<36, 40>>}
Recovery == {<<10, 50>>, <<7, 40>>, <<5, 30>>, <<3, 20>>}
Turning == {<<5, 50>>, <<3, 40>>, <<2, 30>>, <<1, 20>>}

\* A dip that was deep, on volume, below VWAP and EMA20, and that turns.
ReversionBonus(e, priced) ==
    LET low == IF e.low = Nil THEN e.rsi ELSE e.low
        turn == CASE e.low # Nil -> AtLeast(e.rsi - e.low, Recovery)
                  [] e.low = Nil /\ e.direction = "increasing" ->
                         AtLeast(e.momentum, Turning)
                  [] OTHER -> 0
        volume == IF e.volume = Nil THEN 0
                  ELSE AtLeast(e.volume, {<<20, 80>>, <<15, 60>>, <<10, 40>>, <<7, 20>>})
        vwap == IF ~priced THEN 0
                ELSE Below(e.gapVwap, {<<-400, 50>>, <<-250, 40>>, <<-150, 30>>, <<-50, 15>>})
        ema == Below(e.gapEma20, {<<-500, 40>>, <<-300, 30>>, <<-200, 20>>, <<-100, 10>>})
    IN  Min({300, Below(low, DipDepth) + volume + vwap + ema + turn})

MidBand(rsi) ==
    CASE rsi \in 42..50 -> 50 [] rsi \in 51..55 -> 30 [] rsi \in 38..41 -> 20
      [] rsi \in 56..60 -> 10 [] OTHER -> 0

\* The reverse of a trend: compressed, cycling, just below VWAP, turning up.
RangeBonus(h, e, verdict) ==
    LET chop == IF verdict = "CHOPPY" THEN 50 ELSE 0
        flat == IF h = Nil THEN 0
                ELSE Below(Abs(h.spread), {<<10, 50>>, <<25, 40>>, <<50, 25>>, <<80, 10>>})
        turn == CASE e.direction = "increasing" ->
                         AtLeast(2 * e.momentum, {<<6, 50>>, <<4, 40>>, <<2, 30>>, <<1, 15>>})
                  [] e.direction = "stable" -> 10
                  [] OTHER -> 0
        vwap == CASE e.gapVwap \in -50..-6 -> 30 [] e.gapVwap \in -100..-51 -> 20
                  [] e.gapVwap >= -5 -> 10 [] OTHER -> 0
    IN  Min({200, chop + flat + MidBand(e.rsi) + turn + vwap})

\* %B in percent
BandPenalty(pctB) ==
    IF pctB > 100 THEN 250 ELSE AtLeast(pctB, {<<50, 30>>, <<65, 80>>, <<80, 150>>})

\* The reasons for which a symbol is lost to an exception.
Breaks(s, m) ==
    CASE s = "trend" -> m.e = Nil \/ m.e.pctB = Nil
      [] s = "range" -> m.e = Nil \/ m.e.momentum = Nil
      [] s = "short_trend" -> m.e = Nil \/ m.e.pctB = Nil
      [] OTHER -> m.e # Nil /\ m.e.volume = Nil

\* The confidence a score base is worth: priced says whether the caller hands
\* over the price, verdict is the regime's.
Confidence(s, p, m, base, verdict, priced) ==
    CASE s \in Reversion ->
             IF m.e = Nil THEN Percent(base, MaxConfidence(p))
             ELSE Percent(base + ReversionBonus(m.e, priced), MaxConfidence(p) + 300)
      [] s = "range" ->
             Percent(base + RangeBonus(m.h, m.e, verdict), MaxConfidence(p) + 200)
      [] OTHER ->
             LET pc == Percent(base, MaxConfidence(p))
                 penalty == BandPenalty(m.e.pctB)
             IN  IF penalty = 0 THEN pc ELSE Max({0, pc - penalty})

-----------------------------------------------------------------------------
(* generate_signal.                                                        *)

Stopped(stage) == [stage |-> stage, confidence |-> Nil]
Judged(confidence) ==
    IF confidence < MinConfidence THEN Stopped("confidence")
    ELSE [stage |-> "signal", confidence |-> confidence]

\* The rules' path: entry filter, volume, safety, confidence.
Rules(p, m, verdict) ==
    IF p.entryFilter /\ ~(m.e # Nil /\ m.entryOk) THEN Stopped("entry")
    ELSE IF Breaks(p.strategy, m) THEN Stopped("error")
    ELSE Judged(Confidence(p.strategy, p, m,
             TrendWeight(p) + EntryWeight(p) + VolumePoints(m)
                 + SafetyPoints(p.strategy, m), verdict, TRUE))

\* What _generate_ai_agent_signal scores for a shadowed entry: only trend and
\* range look at RSI, only a long reversion is scored as one, without a price.
ShadowStrategy(s) == IF s \in {"short_reversion", "short_trend"} THEN "trend" ELSE s
\* Mutant of ShadowSafety: RSI is left to the agent.
ShadowSafetyFull(s, m) == SafetyWeight

ShadowSafety(s, m) ==
    IF s \in {"trend", "range"} THEN SafetyPoints(s, m) ELSE SafetyWeight

Agent(p, m, verdict, op) ==
    LET rulesEnter == p.entryFilter /\ m.e # Nil /\ m.entryOk
        s == ShadowStrategy(p.strategy)
    IN  CASE m.e # Nil /\ m.e.rsi > 70 -> Stopped("entry")
          [] ~(m.e # Nil /\ m.e.rsi > 70) /\ op = Nil -> Stopped("error")
          [] ~(m.e # Nil /\ m.e.rsi > 70) /\ op # Nil ->
               IF p.trading = "AI_LIVE"
               THEN IF op.enter THEN Judged(op.confidence) ELSE Stopped("entry")
               ELSE IF ~rulesEnter THEN Stopped("entry")
               ELSE IF Breaks(s, m) THEN Stopped("error")
               ELSE Judged(Confidence(s, p, m,
                        TrendWeight(p) + EntryWeight(p) + VolumePoints(m)
                            + ShadowSafety(p.strategy, m), verdict, FALSE))

Generate(p, m, verdict, op) ==
    IF ~m.priced THEN Stopped("price")
    ELSE IF ~m.balance THEN Stopped("balance")
    ELSE IF p.regimeFilter /\ ~CanTrade(p.strategy, verdict) THEN Stopped("regime")
    ELSE IF m.e # Nil /\ ~m.reentry THEN Stopped("reentry")
    ELSE IF p.trendFilter /\ ~(m.h # Nil /\ m.trendOk) THEN Stopped("trend")
    ELSE IF p.trading = "RULES" THEN Rules(p, m, verdict)
    ELSE Agent(p, m, verdict, op)

-----------------------------------------------------------------------------
Init ==
    /\ profile \in Profiles /\ market \in Markets /\ opinion \in Opinions
    /\ regime = Nil /\ outcome = Stopped("none") /\ risky = 0

\* A scan of the loop: the verdict is asked for only when it is used and the
\* price and the balance are there.
Scan ==
    /\ IF market.priced /\ market.balance /\ profile.regimeFilter
       THEN LET r == RegimeNow(profile.strategy, market, regime)
            IN  /\ regime' = IF r.verdict = "UNKNOWN" THEN regime ELSE r
                /\ outcome' = Generate(profile, market, r.verdict, opinion)
       ELSE /\ outcome' = Generate(profile, market, "UNKNOWN", opinion)
            /\ UNCHANGED regime
    /\ UNCHANGED <<profile, market, opinion, risky>>

\* The candle feed, the price and the balance move.
Bar ==
    /\ market' \in Markets \ {market}
    /\ outcome' = Stopped("none")
    /\ risky' = IF Classified(profile.strategy, market') = "HIGH_RISK" THEN risky ELSE 0
    /\ UNCHANGED <<profile, regime, opinion>>

Tick ==
    /\ regime' = IF regime = Nil THEN Nil ELSE [regime EXCEPT !.age = Min({@ + 1, Old})]
    /\ risky' = IF Classified(profile.strategy, market) = "HIGH_RISK"
                THEN Min({risky + 1, Old}) ELSE 0
    /\ outcome' = Stopped("none")
    /\ UNCHANGED <<profile, market, opinion>>

Next == Scan \/ Bar \/ Tick
Spec == Init /\ [][Next]_vars

-----------------------------------------------------------------------------
(* Properties.                                                             *)

(***************************************************************************)
(* A market that has been HIGH_RISK for longer than a verdict is kept      *)
(* gives no signal to a profile with the regime filter, whatever the       *)
(* verdict before it was and however often it was asked for: get_regime    *)
(* serves a cached verdict, and stamps it only when it is made.            *)
(***************************************************************************)
DangerStops ==
    profile.regimeFilter /\ risky >= RegimeTTL => outcome.stage # "signal"

(***************************************************************************)
(* "Shadow mode (default): rules decision controls live execution"         *)
(* (_generate_ai_agent_signal): an entry of a shadowed long profile is one *)
(* the same rules take without the agent, with at least its confidence.    *)
(* The agent can only take entries away.  It is not so for the short       *)
(* strategies, which are scored as trend following.                        *)
(***************************************************************************)
ShadowNarrows ==
    LET p == [profile EXCEPT !.trading = "SHADOW"]
        q == [profile EXCEPT !.trading = "RULES"]
    IN  \A v \in {"SAFE", "CHOPPY", "UNKNOWN"}, op \in Opinions :
          ~IsShort(profile.strategy)
            /\ Generate(p, market, v, op).stage = "signal" =>
              /\ Generate(q, market, v, op).stage = "signal"
              /\ Generate(p, market, v, op).confidence
                     <= Generate(q, market, v, op).confidence

\* The short half of the sentence above, which the code does not keep.
ShadowNarrowsShort ==
    LET p == [profile EXCEPT !.trading = "SHADOW"]
        q == [profile EXCEPT !.trading = "RULES"]
    IN  \A op \in Opinions :
          Generate(p, market, "SAFE", op).stage = "signal" =>
              Generate(q, market, "SAFE", op).stage = "signal"


(***************************************************************************)
(* "Mirrors the logic of cache/regime_filter.py": what the backtest lets   *)
(* trade, the live filter lets trade on the same market.                   *)
(***************************************************************************)
ReplayMirrors ==
    \A s \in Strategies : ReplayCanTrade(s, market) <=> CanTrade(s, Classified(s, market))
=============================================================================
