-------------------------------- MODULE Watch --------------------------------
(***************************************************************************)
(* The two watchers that nobody watches: the price rules of the open       *)
(* positions (ExitRules, extended) and the health checks (HealthAlerts).   *)
(* They share no state, and a behaviour is about one of them: part says    *)
(* which moves, and the other rests in its first state.                    *)
(***************************************************************************)
EXTENDS ExitRules

CONSTANTS
    Series, Length, FetchInterval, HealthInterval, GracePeriod, TrendMaxAge,
    PriceMaxAge, ReAlertCooldown, Slack, Old, MaxFaults

VARIABLES
    part,
    loop, api, telegram, fetcher, cycle, close, fresh, trendAge, monitored, ran,
    priceAge, next, grace, active, cooling, told, faults, outage

Health == INSTANCE HealthAlerts WITH CheckInterval <- HealthInterval

health == <<loop, api, telegram, fetcher, cycle, close, fresh, trendAge, monitored, ran,
            priceAge, next, grace, active, cooling, told, faults, outage>>
allVars == <<part, vars, health>>

EveryInit == part \in {"rules", "health"} /\ Init /\ Health!Init
EveryNext ==
    /\ UNCHANGED part
    /\ \/ part = "rules"  /\ Next /\ UNCHANGED health
       \/ part = "health" /\ Health!Next /\ UNCHANGED vars

EverySpec == EveryInit /\ [][EveryNext]_allVars

\* The fairness is that of HealthAlerts; the rules are checked for safety.
FairSpec ==
    /\ EverySpec
    /\ WF_health(part = "health" /\ Health!ServiceStep)
    /\ WF_health(part = "health" /\ Health!FetchCycle)
    /\ WF_health(part = "health" /\ Health!Tick)
    /\ WF_health(part = "health" /\ Health!TelegramChanges /\ ~telegram)

\* See HealthAlerts: no alarm over trends while the feed works, and one when a
\* trend is too old to be used.
AlarmsRight == part = "health" => Health!NoFalseAlarm /\ Health!StaleNoticed
\* See HealthAlerts: of what stays broken the operator hears in the end.
OperatorTold == part = "health" => Health!OperatorTold
=============================================================================
