---------------------------- MODULE HealthAlerts ----------------------------
(***************************************************************************)
(* The health checks of HealthAlertingService and what the operator hears  *)
(* of them.  A thread looks at five conditions again and again: the        *)
(* monitoring loop, the API server, the age of the trends, the age of the  *)
(* prices and the candle fetcher.  Each is good, bad, or left unjudged.    *)
(*                                                                         *)
(* The candle fetcher and its bars are here as far as the checks see them: *)
(* the ages of the trends and of the last completed cycle.  A time is what *)
(* is left of it; ages are counted up to Old.                              *)
(***************************************************************************)
EXTENDS Integers, FiniteSets

CONSTANTS
    Series,         \* entries of the trend cache
    Length,         \* of a bar of each
    FetchInterval,  \* between cycles of the fetcher
    CheckInterval, GracePeriod, TrendMaxAge, PriceMaxAge, ReAlertCooldown,
    Slack,          \* the 180 seconds of _trend_allowed_age
    Old,            \* bound: ages are counted up to it
    MaxFaults       \* bound: changes for the worse in a behaviour

AlertsAssumption ==
    /\ IsFiniteSet(Series) /\ Length \in [Series -> Nat \ {0}]
    /\ {FetchInterval, CheckInterval} \subseteq Nat \ {0}
    /\ {GracePeriod, TrendMaxAge, PriceMaxAge, ReAlertCooldown, Slack, Old,
        MaxFaults} \subseteq Nat

VARIABLES
    \* what is checked
    loop, api,     \* "up", "down", and for the API "odd": an answer not judged
    telegram,      \* whether messages get through
    fetcher,       \* "ok", "failing" (cycles, no bars), "stuck", "stopped"
    cycle,         \* until the next cycle of the fetcher
    close, fresh,  \* of each series: until its bar closes; a bar awaits a fetch
    trendAge,      \* of each series
    monitored,     \* series of enabled symbols
    ran,           \* age of the last completed cycle, or None
    priceAge,      \* the loop refreshes the prices
    \* the service
    next,          \* until the next check
    grace,         \* left of the startup grace
    active,        \* _active_issues
    cooling,       \* of each issue: what is left of its cooldown
    \* what the operator has heard
    told,          \* of each issue: "nothing", "bad" or "good"
    faults, outage \* outage: time since the fetcher was last not "ok", up to Old

feedVars == <<fetcher, cycle, close, fresh, trendAge, monitored, ran>>
worldVars == <<loop, api, telegram, priceAge>>
serviceVars == <<next, grace, active, cooling>>
vars == <<feedVars, worldVars, serviceVars, told, faults, outage>>

None == -1
Issues == {"monitoring_loop_dead", "api_server_down", "trend_cache_stale",
           "price_cache_stale", "candle_fetcher_down"}

Larger(a, b) == IF a >= b THEN a ELSE b
Older(a) == IF a = None THEN None ELSE IF a < Old THEN a + 1 ELSE Old
Less(x) == IF x = 0 THEN 0 ELSE x - 1

Init ==
    /\ loop = "up" /\ api = "up" /\ telegram = TRUE
    /\ fetcher = "ok" /\ cycle = 0
    /\ close = Length /\ fresh = [s \in Series |-> FALSE]
    /\ trendAge = [s \in Series |-> 0] /\ monitored = Series
    /\ ran = None
    /\ priceAge = 0
    /\ next = 0 /\ grace = GracePeriod
    /\ active = {} /\ cooling = [i \in Issues |-> 0]
    /\ told = [i \in Issues |-> "nothing"]
    /\ faults = 0 /\ outage = Old

-----------------------------------------------------------------------------
(* The verdicts.                                                           *)

MonitoringLoop == IF loop = "up" THEN "good" ELSE "bad"

ApiServer ==
    CASE api = "up" -> "good" [] api = "down" -> "bad" [] api = "odd" -> "unjudged"

\* Mutant of TrendAllowedAge: a bar, without the cycle that fetches it.
TrendAllowedAgeTight(s) == Larger(TrendMaxAge, Length[s])

\* A bar, the cycle that fetches it and slack; the old flat limit if longer.
TrendAllowedAge(s) == Larger(TrendMaxAge, Length[s] + FetchInterval + Slack)

\* The entries judged: those of enabled symbols, or all if they cannot be read.
TrendCache(judged) ==
    IF \E s \in judged : trendAge[s] > TrendAllowedAge(s) THEN "bad" ELSE "good"

PriceCache == IF priceAge > PriceMaxAge THEN "bad" ELSE "good"

\* is_healthy: a cycle has completed within three intervals.
CandleFetcher ==
    CASE fetcher = "stopped" -> "bad"
      [] fetcher # "stopped" /\ ran = None -> "unjudged"
      [] fetcher # "stopped" /\ ran # None ->
           IF ran < 3 * FetchInterval THEN "good" ELSE "bad"

Verdict(i, judged) ==
    CASE i = "monitoring_loop_dead" -> MonitoringLoop
      [] i = "api_server_down"      -> ApiServer
      [] i = "trend_cache_stale"    -> TrendCache(judged)
      [] i = "price_cache_stale"    -> PriceCache
      [] i = "candle_fetcher_down"  -> CandleFetcher

-----------------------------------------------------------------------------
(* The service.                                                            *)

\* Mutant of Triggered: an active issue is not alerted again.
TriggeredOnce(V) == {i \in Issues : V[i] = "bad" /\ i \notin active}

\* _trigger_alert: silent while the issue cools down.
Triggered(V) == {i \in Issues : V[i] = "bad" /\ cooling[i] = 0}

\* _clear_alert: only what is active recovers.
Recovered(V) == {i \in active : V[i] = "good"}

Cooled(V) ==
    [i \in Issues |-> CASE i \in Triggered(V) -> ReAlertCooldown
                        [] i \in Recovered(V) -> 0
                        [] OTHER -> cooling[i]]

RunChecks ==
    /\ next = 0 /\ grace = 0
    /\ next' = CheckInterval
    /\ \E judged \in {monitored, Series} :
         LET V == [i \in Issues |-> Verdict(i, judged)]
         IN  /\ active' = (active \cup Triggered(V)) \ Recovered(V)
             /\ cooling' = Cooled(V)
             /\ told' = [i \in Issues |->
                    CASE telegram /\ i \in Triggered(V) -> "bad"
                      [] telegram /\ i \in Recovered(V) -> "good"
                      [] OTHER -> told[i]]
    /\ UNCHANGED <<feedVars, worldVars, grace, faults, outage>>

\* The checks are skipped while the startup grace lasts.
InGrace ==
    /\ next = 0 /\ grace > 0
    /\ next' = CheckInterval
    /\ UNCHANGED <<feedVars, worldVars, grace, active, cooling, told,
                   faults, outage>>

-----------------------------------------------------------------------------
(* What the checks look at.                                                *)

\* A cycle stores and replays the bars that have closed.
FetchCycle ==
    /\ cycle = 0 /\ fetcher \in {"ok", "failing"}
    /\ cycle' = FetchInterval /\ ran' = 0
    /\ IF fetcher = "ok"
       THEN /\ trendAge' = [s \in Series |-> IF fresh[s] THEN 0 ELSE trendAge[s]]
            /\ fresh' = [s \in Series |-> FALSE]
       ELSE UNCHANGED <<trendAge, fresh>>
    /\ UNCHANGED <<fetcher, close, monitored, worldVars, serviceVars,
                   told, faults, outage>>

Fault == faults < MaxFaults /\ faults' = faults + 1

FetcherBreaks ==
    /\ Fault /\ fetcher = "ok"
    /\ fetcher' \in {"failing", "stuck", "stopped"} /\ outage' = 0
    /\ UNCHANGED <<cycle, close, fresh, trendAge, monitored, ran, worldVars,
                   serviceVars, told>>

FetcherMended ==
    /\ fetcher # "ok"
    /\ fetcher' = "ok"
    /\ UNCHANGED <<cycle, close, fresh, trendAge, monitored, ran, worldVars,
                   serviceVars, told, faults, outage>>

\* A disabled symbol is no longer fetched; its entries stay.
Disable(s) ==
    /\ Fault /\ s \in monitored
    /\ monitored' = monitored \ {s}
    /\ UNCHANGED <<fetcher, cycle, close, fresh, trendAge, ran, worldVars,
                   serviceVars, told, outage>>

\* The loop dies; the API or the messenger changes.
LoopDies ==
    /\ Fault /\ loop = "up"
    /\ loop' = "down"
    /\ UNCHANGED <<feedVars, api, telegram, priceAge, serviceVars, told, outage>>

ApiChanges ==
    /\ \E a \in {"up", "down", "odd"} \ {api} :
         /\ api' = a
         /\ IF a = "up" THEN UNCHANGED faults ELSE Fault
    /\ UNCHANGED <<feedVars, loop, telegram, priceAge, serviceVars,
                   told, outage>>

TelegramChanges ==
    /\ telegram' = ~telegram
    /\ IF telegram THEN Fault ELSE UNCHANGED faults
    /\ UNCHANGED <<feedVars, loop, api, priceAge, serviceVars,
                   told, outage>>

Tick ==
    /\ next > 0 /\ (cycle > 0 \/ fetcher \in {"stuck", "stopped"})
    /\ next' = next - 1 /\ cycle' = Less(cycle) /\ grace' = Less(grace)
    /\ close' = [s \in Series |-> IF close[s] = 1 THEN Length[s] ELSE close[s] - 1]
    /\ fresh' = [s \in Series |-> s \in monitored /\ (fresh[s] \/ close[s] = 1)]
    /\ trendAge' = [s \in Series |-> Older(trendAge[s])]
    /\ ran' = Older(ran)
    /\ priceAge' = IF loop = "up" THEN 0 ELSE Older(priceAge)
    /\ cooling' = [i \in Issues |-> Less(cooling[i])]
    /\ outage' = IF fetcher = "ok" THEN Older(outage) ELSE 0
    /\ UNCHANGED <<fetcher, monitored, loop, api, telegram, active, told, faults>>

ServiceStep == RunChecks \/ InGrace

WorldStep ==
    \/ FetchCycle \/ FetcherBreaks \/ FetcherMended \/ LoopDies
    \/ ApiChanges \/ TelegramChanges
    \/ \E s \in Series : Disable(s)

Next == ServiceStep \/ WorldStep \/ Tick

Spec == Init /\ [][Next]_vars

\* The service thread catches every exception and goes on; so does a fetcher
\* that is not stuck.  The messenger comes back.
FairSpec ==
    /\ Spec
    /\ WF_vars(ServiceStep) /\ WF_vars(FetchCycle) /\ WF_vars(Tick)
    /\ WF_vars(TelegramChanges /\ ~telegram)

-----------------------------------------------------------------------------
(* Properties.                                                             *)

\* No alarm over trends while the feed works: an issue is active only within a
\* bar, a cycle and a check after the fetcher last failed, although a trend is
\* rightly as old as its bar.  Entries of disabled symbols aside, which are
\* judged when the list of enabled ones cannot be read.
NoFalseAlarm ==
    monitored = Series /\ "trend_cache_stale" \in active =>
        \E s \in Series : outage <= Length[s] + FetchInterval + CheckInterval

\* A trend too old to be used is an active issue by the next check, also when
\* it was one before and has recovered.
StaleNoticed ==
    \A s \in monitored :
        grace = 0 /\ trendAge[s] > TrendAllowedAge(s) + CheckInterval =>
            "trend_cache_stale" \in active

\* What does not recover is told to the operator in the end, although messages
\* may be lost and the issue is then counted as alerted.
Lasting(i) ==
    CASE i = "monitoring_loop_dead" -> loop = "down"
      [] i = "api_server_down"      -> api = "down"
      [] i = "trend_cache_stale"    ->
           \E s \in monitored : trendAge[s] = Old
      [] i = "price_cache_stale"    -> priceAge = Old
      [] i = "candle_fetcher_down"  -> ran = Old \/ fetcher = "stopped"
OperatorTold ==
    \A i \in Issues : <>[]Lasting(i) => <>[](told[i] = "bad")

\* What _check_candle_fetcher says: a failing feed is noticed within a cycle
\* or two.
FailingNoticed ==
    \A s \in monitored :
        grace = 0 /\ fetcher = "failing"
            /\ trendAge[s] > 2 * FetchInterval + Length[s] + CheckInterval =>
                active # {}

=============================================================================
