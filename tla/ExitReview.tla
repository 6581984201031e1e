----------------------------- MODULE ExitReview -----------------------------
(***************************************************************************)
(* PositionManager.should_exit_position for one position: the review that  *)
(* asks, at a bar, whether the trend that let the position in has gone, and*)
(* whether the position has grown stale.  The indicators are slots, and a  *)
(* bar says which of them pass (module IndicatorVote).                     *)
(***************************************************************************)
EXTENDS IndicatorVote

CONSTANTS
    Nil,
    Profiles,    \* see Profile
    Bars,        \* what a bar may show: [passed, reversal, cached]
    Moves,       \* the profit of a position in tenths of a percent
    Old          \* bound: ages are counted up to it

(* A set of indicators with its groups and its minimum.                    *)
Filter == [used : SUBSET Slots, inds : [Slots -> Indicator],
           groups : [GroupIds -> Group], min : Nat]

(* short; the mode of the check (trend_invalidation_indicators); whether   *)
(* there are exit indicators; the least age for a check; the age at which  *)
(* a position may be stale, or Nil; take_profit_pct in tenths.             *)
Profile == [short : BOOLEAN, trendExit : BOOLEAN, useTrend : BOOLEAN,
            mode : {"entry", "exit", "mean_reversion", "trend"},
            hasExit : BOOLEAN, entry : Filter, exit : Filter, trend : Filter,
            minAge : Nat, maxAge : Nat \cup {Nil}, target : Nat]

Filters == {"entry", "exit", "trend"}

(* Of each filter the indicators that pass; whether rsi_reversal_momentum  *)
(* does, with the settings of the check; whether the trend is cached and   *)
(* fresh.                                                                  *)
Bar == [passed : [Filters -> SUBSET Slots], reversal : BOOLEAN, cached : BOOLEAN]

ASSUME ReviewAssumption ==
    /\ Profiles \subseteq Profile
    /\ Bars \subseteq Bar
    /\ Moves \subseteq Int
    /\ Old \in Nat

VARIABLES
    profile,
    held,        \* the position is open
    age,
    profit,      \* of the price since the entry, upwards
    accepted,    \* history: the entry indicators that passed at the entry
    bar,         \* the bar the cache holds
    verdict      \* of the last review: "none", "hold", "trend" or "stale"

vars == <<profile, held, age, profit, accepted, bar, verdict>>

-----------------------------------------------------------------------------
(* The review counts a group as passed by any of its members and stops     *)
(* hard on nothing: it calls is_bullish without groups.                    *)
LaxGroups == [g \in GroupIds |-> [requireAll |-> FALSE, hardStop |-> FALSE]]

Enough(f, min, P) == Decide(f.used, f.inds, LaxGroups, FALSE, min, P)

\* Mutant of IntactEntry: the minimum of the entry, not one less.
IntactEntryFull(p) == Enough(p.entry, p.entry.min, bar.passed["entry"])

\* "Reduce min required by 1 for trend invalidation"
IntactEntry(p) == Enough(p.entry, p.entry.min - 1, bar.passed["entry"])

ByEntry(p) == p.mode = "entry" \/ (p.mode = "exit" /\ ~p.hasExit)

\* What is left undecided, mode "trend" without a trend filter, counts as intact.
Intact(p) ==
    \/ bar.cached /\ ByEntry(p) /\ IntactEntry(p)
    \/ bar.cached /\ p.mode = "exit" /\ p.hasExit
              /\ Enough(p.exit, p.exit.min, bar.passed["exit"])
    \/ bar.cached /\ p.mode = "mean_reversion" /\ bar.reversal
    \/ bar.cached /\ p.mode = "trend" /\ p.useTrend
              /\ Enough(p.trend, p.trend.min - 1, bar.passed["trend"])
    \/ p.mode = "trend" /\ ~p.useTrend

TrendGone(p) == p.trendExit /\ age >= p.minAge /\ ~Intact(p)

\* Progress is measured upwards, for a short position too.
Stale(p) ==
    /\ p.maxAge # Nil
    /\ age >= p.maxAge
    /\ 2 * profit <= p.target

-----------------------------------------------------------------------------
Init ==
    /\ profile \in Profiles
    /\ held = FALSE /\ age = 0 /\ profit = 0 /\ accepted = {}
    /\ bar \in Bars /\ verdict = "none"

\* A signal passed the entry filter on this bar, hard stops and groups included.
Enter ==
    /\ ~held /\ bar.cached
    /\ Decide(profile.entry.used, profile.entry.inds, profile.entry.groups, TRUE,
              profile.entry.min, bar.passed["entry"])
    /\ held' = TRUE /\ age' = 0 /\ profit' = 0 /\ verdict' = "none"
    /\ accepted' = bar.passed["entry"] \cap profile.entry.used
    /\ UNCHANGED <<profile, bar>>

NextBar ==
    /\ bar' \in Bars
    /\ profit' \in Moves
    /\ age' = IF age < Old THEN age + 1 ELSE Old
    /\ verdict' = "none"
    /\ UNCHANGED <<profile, held, accepted>>

\* The trend is looked at first; the exit may fail and is then tried again.
Review ==
    /\ held
    /\ verdict' = IF TrendGone(profile) THEN "trend"
                  ELSE IF Stale(profile) THEN "stale" ELSE "hold"
    /\ held' \in (IF verdict' = "hold" THEN {TRUE} ELSE BOOLEAN)
    /\ UNCHANGED <<profile, age, profit, accepted, bar>>

Next == Enter \/ NextBar \/ Review
Spec == Init /\ [][Next]_vars

-----------------------------------------------------------------------------
(* Properties.                                                             *)

TypeOK ==
    /\ profile \in Profiles /\ held \in BOOLEAN /\ age \in Nat /\ profit \in Int
    /\ accepted \in SUBSET Slots
    /\ bar \in Bars
    /\ verdict \in {"none", "hold", "trend", "stale"}

(***************************************************************************)
(* A position is not let in and put out by the same market: the review of  *)
(* the entry indicators ends a position only after at least two of the     *)
(* indicators that had let it in have been lost, or for want of data,      *)
(* although the entry counts strict groups and the review lax ones         *)
(* (_check_trend_invalidation, is_bullish).                                *)
(***************************************************************************)
TwoLosses ==
    verdict = "trend" /\ ByEntry(profile) /\ bar.cached =>
        \E x, y \in accepted : x # y /\ {x, y} \cap bar.passed["entry"] = {}

=============================================================================
