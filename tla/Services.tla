------------------------------- MODULE Services ------------------------------
(***************************************************************************)
(* The threads that must go on whatever happens around them: the PnL       *)
(* breaker (PnlBreaker, extended), the fetcher among its hosts, the        *)
(* adapter of a venue, the loop of the monitoring service and the timer of *)
(* the settings.  They share no state, and a behaviour is about one of     *)
(* them: part says which moves, and the others rest in their first state.  *)
(***************************************************************************)
EXTENDS PnlBreaker

CONSTANTS
    HostList, FeedSymbols, Retries, Interval, ListingTTL, FailTTL, BanTime,  \* of CandleHosts
    Fallback, Pause, Timeout, MaxStrikes,
    Size, MaxOpen, MaxRows, MaxHeld,                                     \* of AdapterTrading
    Loops, Every, MaxChanges, MaxStops,                                  \* of MonitorCycle
    Nothing, Global, SettingProfiles, Names, Strings, AsInt, Default,    \* of Settings
    MaxEdits

VARIABLES
    part,
    ban, noted, listing, refused, pc, symbol, served, usable, soonest, attempt,
    last, stamp, sleep, strikes, listed, guessed,                        \* of CandleHosts
    venue, held, positions, order, seen, validated, astray,              \* of AdapterTrading
    running, step, errors, counters, outage, notice, visited, owed,      \* of MonitorCycle
    changes, stops,
    settings, cache, handler, timer, up, edits, wrote, contents          \* of Settings

Hosts == INSTANCE CandleHosts WITH Hosts <- HostList, Symbols <- FeedSymbols

Adapter == INSTANCE AdapterTrading WITH rows <- positions, listed <- validated

Cycle == INSTANCE MonitorCycle WITH at <- step

Setting == INSTANCE Settings WITH
    Profiles <- SettingProfiles, Values <- Strings, rows <- settings, held <- contents

hosts == <<ban, noted, listing, refused, pc, symbol, served, usable, soonest, attempt,
           last, stamp, sleep, strikes, listed, guessed>>
adapter == <<venue, held, positions, order, seen, validated, astray>>
cycle == <<running, step, errors, counters, outage, notice, visited, owed, changes, stops>>
setting == <<settings, cache, handler, timer, up, edits, wrote, contents>>
allVars == <<part, vars, hosts, adapter, cycle, setting>>

\* Of the first states of a part that rests, one is enough.
EveryInit ==
    /\ part \in {"hosts", "adapter", "cycle", "setting", "breaker"}
    /\ Init /\ Hosts!Init /\ Adapter!Init /\ Cycle!Init /\ Setting!Init
    /\ part # "adapter" => venue = "bullet"
    /\ part # "breaker" => \A w \in Wallets : value[w] = CHOOSE v \in Values : TRUE

EveryNext ==
    /\ UNCHANGED part
    /\ \/ part = "breaker" /\ Next         /\ UNCHANGED <<hosts, adapter, cycle, setting>>
       \/ part = "hosts"   /\ Hosts!Next   /\ UNCHANGED <<vars, adapter, cycle, setting>>
       \/ part = "adapter" /\ Adapter!Next /\ UNCHANGED <<vars, hosts, cycle, setting>>
       \/ part = "cycle"   /\ Cycle!Next   /\ UNCHANGED <<vars, hosts, adapter, setting>>
       \/ part = "setting" /\ Setting!Next /\ UNCHANGED <<vars, hosts, adapter, cycle>>

EverySpec == EveryInit /\ [][EveryNext]_allVars

\* The fairness of each part is that of its module.
EveryFairness ==
    /\ \A t \in Threads : WF_vars(part = "breaker" /\ Check(t))
    /\ \A e \in Events : WF_vars(part = "breaker" /\ LockRunsOut(e))
    /\ WF_hosts(part = "hosts" /\ Hosts!Next)
    /\ WF_adapter(part = "adapter" /\ Adapter!Concluded("monitor"))
    /\ WF_adapter(part = "adapter" /\ Adapter!Book("monitor"))
    /\ SF_adapter(part = "adapter" /\ Adapter!ListOpen)
    /\ SF_adapter(part = "adapter" /\ Adapter!CloseInvalid)
    /\ \A l \in Loops :
         /\ WF_cycle(part = "cycle" /\ Cycle!Begin(l))
         /\ WF_cycle(part = "cycle" /\ Cycle!End(l))
         /\ WF_cycle(part = "cycle" /\ Cycle!Do(l))
         /\ WF_cycle(part = "cycle" /\ Cycle!Raise(l))
         /\ WF_cycle(part = "cycle" /\ Cycle!Complete(l))
         /\ WF_cycle(part = "cycle" /\ Cycle!Wake(l))
    /\ WF_setting(part = "setting" /\ Setting!TimerReads)
    /\ WF_setting(part = "setting" /\ Setting!TimerInstalls)
    /\ WF_setting(part = "setting" /\ (Setting!HandlerReads \/ Setting!HandlerFails))
    /\ WF_setting(part = "setting" /\ Setting!HandlerInstalls)
    /\ WF_setting(part = "setting" /\ \E ok \in BOOLEAN : Setting!Start(ok))

EveryFairSpec == EverySpec /\ EveryFairness

-----------------------------------------------------------------------------
\* See CandleHosts: whatever the hosts answer for a while, the feed goes on.
FeedResumes == part = "hosts" => Hosts!FeedResumes
\* See AdapterTrading: what the exchange holds is in an open row or on its way, and
\* no order turns it round; MonitorCycle: a check that is due stays due; Settings:
\* no reader sees a mixture of two tables.
KeptThroughout ==
    /\ part = "adapter" => Adapter!Tracked /\ Adapter!NoFlip
    /\ part = "cycle" => Cycle!DueStaysDue
    /\ part = "setting" => Setting!OneVersion
\* See AdapterTrading: the rows of a position the exchange closed are closed.
FlatSettles == part = "adapter" => Adapter!FlatSettles
\* See MonitorCycle: the open positions are looked at again and again.
PositionsWatched == part = "cycle" => Cycle!PositionsWatched
\* See Settings: the cache has the values of the table in the end.
EditsArrive == part = "setting" => Setting!EditsArrive
=============================================================================
