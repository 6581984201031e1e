----------------------------- MODULE MCDecisions -----------------------------
(* An instance of Decisions for TLC.  Streaks have a limit of two losses,  *)
(* enough closes for two pauses and what comes between them, and a restart *)
(* that looks at three closes instead of ten; exits are of two positions,  *)
(* one of them perhaps bought by the API.                                  *)
EXTENDS Decisions

(* The profiles and bars of the reviews. *)
Solo == [group |-> Ungrouped, hardStop |-> FALSE]
Hard == [group |-> Ungrouped, hardStop |-> TRUE]
In(g) == [group |-> g, hardStop |-> FALSE]
Strict == [g \in GroupIds |-> [requireAll |-> TRUE, hardStop |-> TRUE]]
Loose == LaxGroups

Plain(min) == [used |-> Slots, inds |-> [i \in Slots |-> Solo],
               groups |-> Loose, min |-> min]
\* one indicator alone, a hard stop, and a strict group of the others
Mixed(min) ==
    LET one == CHOOSE i \in Slots : TRUE
        g == CHOOSE h \in GroupIds : TRUE
    IN  [used |-> Slots,
         inds |-> [i \in Slots |-> IF i = one THEN Hard ELSE In(g)],
         groups |-> Strict, min |-> min]

Base == [short |-> FALSE, trendExit |-> TRUE, useTrend |-> TRUE, mode |-> "entry",
         hasExit |-> FALSE, entry |-> Plain(2), exit |-> Plain(1), trend |-> Plain(2),
         minAge |-> 1, maxAge |-> 2, target |-> 20]
SomeProfiles ==
    {[Base EXCEPT !.mode = m, !.entry = f] :
        m \in {"entry", "exit"}, f \in {Plain(1), Plain(2), Plain(3), Mixed(1), Mixed(2)}}
    \cup {[Base EXCEPT !.mode = "exit", !.hasExit = TRUE],
          [Base EXCEPT !.mode = "mean_reversion", !.maxAge = Nil],
          [Base EXCEPT !.mode = "trend"],
          [Base EXCEPT !.mode = "trend", !.useTrend = FALSE],
          [Base EXCEPT !.trendExit = FALSE, !.short = TRUE]}

SomeBars ==
    {[passed |-> [f \in Filters |-> IF f = "entry" THEN P ELSE Q],
      reversal |-> r, cached |-> c] :
        P \in SUBSET Slots, Q \in {{}, Slots}, r \in BOOLEAN, c \in BOOLEAN}
SomeMoves == {-5, 15}

-----------------------------------------------------------------------------
(* The markets of the confidence.  A market that every long rule accepts,  *)
(* and others away from it.                                                *)
Calm == [rsi |-> 58, momentum |-> 2, direction |-> "increasing", spread |-> 120,
         slope |-> "rising", adx |-> 30, volume |-> 16, gapEma20 |-> 40,
         gapVwap |-> 20, low |-> 50, pctB |-> 40]
Flat == [Calm EXCEPT !.rsi = 50, !.momentum = 0, !.direction = "stable",
                     !.spread = 10, !.slope = "flat", !.adx = Nil,
                     !.volume = 3, !.gapEma20 = 0, !.gapVwap = -40]
Dip == [Calm EXCEPT !.rsi = 37, !.momentum = 6, !.spread = -150, !.slope = "falling",
                    !.gapEma20 = -320, !.gapVwap = -260, !.low = 24, !.pctB = 5]
Falling == [Dip EXCEPT !.rsi = 18, !.momentum = -13, !.direction = "decreasing"]
Rally == [Calm EXCEPT !.rsi = 88, !.momentum = 11, !.spread = 260, !.pctB = 110]

Trends ==
    {Calm, Flat, Dip, Falling, Rally}
    \cup {[Calm EXCEPT !.rsi = r] : r \in {22, 33, 62, 67, 75, 83}}
    \cup {[Calm EXCEPT !.pctB = b] : b \in {55, 70, 90, Nil}}
    \cup {[Dip EXCEPT !.low = Nil], [Dip EXCEPT !.volume = Nil],
          [Flat EXCEPT !.momentum = Nil],
          [Calm EXCEPT !.gapVwap = -30, !.direction = "decreasing"],
          [Calm EXCEPT !.spread = -90, !.gapEma20 = -10],
          [Dip EXCEPT !.spread = 90, !.gapEma20 = 10]}

Seen(h, e) == [h |-> h, e |-> e, priced |-> TRUE, balance |-> TRUE,
               reentry |-> TRUE, trendOk |-> TRUE, entryOk |-> TRUE]
SomeMarkets ==
    {Seen(Calm, e) : e \in Trends \cup {Nil}}
    \cup {Seen(h, e) : h \in {Flat, Dip, Falling, Rally, Nil}, e \in {Calm, Flat, Dip}}
    \cup {[Seen(Calm, Calm) EXCEPT ![f] = FALSE] :
             f \in {"priced", "balance", "reentry", "trendOk", "entryOk"}}

Kinds == {"trend", "short_trend", "reversion", "short_reversion", "range"}
Scored(k, t, f, e, r) == [strategy |-> k, trading |-> t, trendFilter |-> f,
                          entryFilter |-> e, regimeFilter |-> r]
SomeScored ==
    {Scored(k, t, TRUE, TRUE, TRUE) : k \in Kinds, t \in {"RULES", "SHADOW", "AI_LIVE"}}
    \cup {Scored(k, "RULES", f, e, FALSE) : k \in Kinds, f \in BOOLEAN, e \in BOOLEAN}
SomeOpinions == {Nil, [enter |-> FALSE, confidence |-> 900],
                 [enter |-> TRUE, confidence |-> 800]}

-----------------------------------------------------------------------------
\* No rules known, a fine step with a largest order, a coarse step without.
SomeRules == {Nil, [min |-> 1, max |-> 6, step |-> 1], [min |-> 2, max |-> 0, step |-> 2]}

ASSUME /\ Score!ScoreAssumption /\ Order!WholeAssumption /\ Outcome!OutcomeAssumption
       /\ Streak!StopLossBreakerAssumption
=============================================================================
