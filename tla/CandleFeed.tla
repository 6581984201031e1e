----------------------------- MODULE CandleFeed -----------------------------
(***************************************************************************)
(* The candle feed: the fetcher service asks the exchange for the bars of  *)
(* each series (a symbol and a timeframe), stores them as rows of          *)
(* trend_analysis_log, and replays the new rows into the trend cache that  *)
(* the signals read.  Symbols are deleted and added while it runs, and the *)
(* process stops and starts: it then warms the cache up from the rows.     *)
(*                                                                         *)
(* A bar is named by the time it closes.  The exchange returns the bar in  *)
(* progress too, so a row may be partial.  A row carries the indicators    *)
(* of its bar; the histories of the cache (RSI, EMA, bands, candles) grow  *)
(* together, one entry for each row replayed, and are one history here.    *)
(*                                                                         *)
(* The unit of time divides the length of every bar.  A cycle may last     *)
(* MaxDelay units, and a thread that is due starts before the next unit.   *)
(***************************************************************************)
EXTENDS Integers, FiniteSets, Sequences

CONSTANTS
    Series,        \* the monitored series, one for each symbol
    Length,        \* of a bar of each series
    Interval,      \* candle_fetcher_interval
    MaxAge,        \* TrendCache.max_age
    Lookback,      \* candle_fetcher_lookback_hours
    MinCatchup, MaxCatchup,  \* bars requested beyond the newest one stored
    RepairBars,    \* bars rewritten by an incremental fetch
    ReplayLimit,   \* rows read for one replay
    WarmupRows,    \* rows replayed at startup
    WarmupWindow,  \* age beyond which a series is not warmed up
    Keep,          \* entries a history keeps
    MaxDelay,      \* bound: units of time a cycle lasts
    MaxFaults,     \* bound: failures, restarts and deletions in a behaviour
    MaxNow         \* bound: the clock

ASSUME FeedAssumption ==
    /\ IsFiniteSet(Series) /\ Length \in [Series -> Nat \ {0}]
    /\ {Interval, ReplayLimit, WarmupRows, Keep} \subseteq Nat \ {0}
    /\ {MaxAge, Lookback, MinCatchup, MaxCatchup, RepairBars, WarmupWindow,
        MaxDelay, MaxFaults, MaxNow} \subseteq Nat

VARIABLES
    now,
    enabled,   \* monitored_symbols
    rows,      \* of each series: the bars stored, and whether each is whole
    hist,      \* of each series: the bars replayed into the cache, in order
    stamp,     \* of each series: when the cache was last updated
    \* the fetcher service, while the process is up
    up, pc, due,
    todo, end,         \* series left in the cycle, and when it began
    cur, asOf, newest, \* the series, when it was fetched, its newest row
    queue,             \* rows left to replay
    since,     \* of each series: the newest bar known to be replayed
    lastRun,   \* when the last cycle completed
    \* bookkeeping
    late,      \* units of time the cycle has lasted
    faults, lastFault

cacheVars == <<hist, stamp>>
cycleVars == <<todo, end, cur, asOf, newest, queue>>
vars == <<now, enabled, rows, cacheVars, up, pc, due, cycleVars, since,
          lastRun, late, faults, lastFault>>

None == -1
Nobody == "nobody"
SetMin(S) == CHOOSE x \in S : \A y \in S : x <= y
SetMax(S) == CHOOSE x \in S : \A y \in S : y <= x

-----------------------------------------------------------------------------
(* The trend cache.                                                        *)

\* Mutant of EffectiveMaxAge: the flat limit it replaced.
EffectiveMaxAgeFlat(s) == MaxAge

\* _effective_max_age: a bar and a half, or the old flat limit if longer.
EffectiveMaxAge(s) == SetMax({MaxAge, (3 * Length[s]) \div 2})

\* What get returns is not None.
Fresh(s) == stamp[s] # None /\ now - stamp[s] <= EffectiveMaxAge(s)

\* update: rows of the log always count as changed, so each one is appended.
Appended(h, row) ==
    LET longer == Append(h, row)
    IN  SubSeq(longer, SetMax({1, Len(longer) - Keep + 1}), Len(longer))

-----------------------------------------------------------------------------
(* The rows.                                                               *)

Closes(R) == {r.close : r \in R}
\* The rows in the order of their bars: the i-th is the one after i - 1 others.
ByClose(R) ==
    [i \in 1 .. Cardinality(R) |->
        CHOOSE r \in R : Cardinality({q \in R : q.close < r.close}) = i - 1]
Lasts(seq, n) == SubSeq(seq, SetMax({1, Len(seq) - n + 1}), Len(seq))

\* get_latest_trend_timestamp
Latest(s) == IF rows[s] = {} THEN None ELSE SetMax(Closes(rows[s]))

\* get_trend_history
History(s) == Lasts(ByClose(rows[s]), WarmupRows)

\* get_trend_rows_after, capped: the oldest rows first.
RowsAfter(s, t) ==
    IF t = None THEN History(s)
    ELSE LET later == ByClose({r \in rows[s] : r.close > t})
         IN  SubSeq(later, 1, SetMin({Len(later), ReplayLimit}))

\* The newest bar the service takes as done before it fetches a series.
Since(s) == IF since[s] = None THEN Latest(s) ELSE since[s]

\* _fetch_start: back to the gap, between two bounds.
FetchStart(s, from) ==
    LET floor == end - Length[s] * MinCatchup
        oldest == end - Length[s] * MaxCatchup
        wanted == SetMin({from - Length[s] * RepairBars, floor})
    IN  IF from = None THEN SetMin({end - Lookback, floor})
        ELSE SetMax({wanted, oldest})

\* Mutant of Cutoff: only bars beyond the newest one are written.
CutoffNoRepair(s, from) ==
    IF from = None THEN FetchStart(s, from)
    ELSE SetMax({FetchStart(s, from), from + 1})

\* The oldest row rewritten when the series is fetched again.
Cutoff(s, from) ==
    IF from = None THEN FetchStart(s, from)
    ELSE SetMax({FetchStart(s, from), from - Length[s] * RepairBars + 1})

\* compute_rows drops the bar in progress by the clock it reads after the
\* fetch: a bar that closed in between is stored as it was fetched.
Computed(s, from) ==
    {[close |-> c, whole |-> c <= asOf] :
        c \in {k \in 1 .. now : k % Length[s] = 0 /\ k >= Cutoff(s, from)}}

Upsert(R, new) == {r \in R : r.close \notin Closes(new)} \cup new

-----------------------------------------------------------------------------
Idle ==
    /\ todo = {} /\ end = 0 /\ cur = Nobody /\ asOf = 0 /\ newest = None
    /\ queue = <<>>

Init ==
    /\ now = 0 /\ enabled = Series
    /\ rows = [s \in Series |-> {}]
    /\ hist = [s \in Series |-> <<>>]
    /\ stamp = [s \in Series |-> None]
    /\ up = TRUE /\ pc = "wait" /\ due = 0
    /\ Idle
    /\ since = [s \in Series |-> None]
    /\ lastRun = None
    /\ late = 0 /\ faults = 0 /\ lastFault = None

Fault ==
    /\ faults < MaxFaults
    /\ faults' = faults + 1 /\ lastFault' = now

NoFault == UNCHANGED <<faults, lastFault>>

-----------------------------------------------------------------------------
(* The service: _run_loop and _fetch_once.                                 *)

\* At the bound of the clock the cycles go on, one after the other.
Due == now >= due \/ now = MaxNow

Begin ==
    /\ up /\ pc = "wait" /\ Due
    /\ pc' = "series" /\ todo' = enabled /\ end' = now
    /\ UNCHANGED <<now, enabled, rows, cacheVars, up, due, cur, asOf, newest,
                   queue, since, lastRun, late>>
    /\ NoFault

\* Every host is banned, no symbol resolves, or the cycle raises: the next
\* one is an interval away and nothing is recorded as run.
CycleLost ==
    /\ up /\ pc = "wait" /\ Due
    /\ due' = now + Interval
    /\ Fault
    /\ UNCHANGED <<now, enabled, rows, cacheVars, up, pc, cycleVars, since, lastRun, late>>

\* Nothing of the series can have closed before the cycle began.
UpToDate(s) == Since(s) # None /\ end < Since(s) + Length[s]

Seeded(s) == since' = [since EXCEPT ![s] = Since(s)]

SkipSeries(s) ==
    /\ up /\ pc = "series" /\ s \in todo
    /\ UpToDate(s)
    /\ todo' = todo \ {s} /\ Seeded(s)
    /\ UNCHANGED <<now, enabled, rows, cacheVars, up, pc, due, end, cur, asOf,
                   newest, queue, lastRun, late>>
    /\ NoFault

Fetch(s) ==
    /\ up /\ pc = "series" /\ s \in todo
    /\ ~UpToDate(s)
    /\ cur' = s /\ asOf' = now /\ pc' = "fetched" /\ Seeded(s)
    /\ UNCHANGED <<now, enabled, rows, cacheVars, up, due, todo, end, newest,
                   queue, lastRun, late>>
    /\ NoFault

\* The request fails: the series waits for the next cycle, and a rate limit
\* on every host ends this one.
FetchFails(s) ==
    /\ up /\ pc = "series" /\ s \in todo
    /\ ~UpToDate(s)
    /\ \E left \in {todo \ {s}, {}} : todo' = left
    /\ Seeded(s)
    /\ Fault
    /\ UNCHANGED <<now, enabled, rows, cacheVars, up, pc, due, end, cur, asOf,
                   newest, queue, lastRun, late>>

\* The rows are written in one commit.
Store ==
    /\ up /\ pc = "fetched"
    /\ LET new == Computed(cur, since[cur])
           latest == IF new = {} THEN None ELSE SetMax(Closes(new))
       IN  /\ rows' = [rows EXCEPT ![cur] = Upsert(@, new)]
           /\ newest' = latest
           /\ IF latest # None /\ (since[cur] = None \/ latest > since[cur])
              THEN pc' = "read" /\ UNCHANGED todo
              ELSE pc' = "series" /\ todo' = todo \ {cur}
    /\ UNCHANGED <<now, enabled, cacheVars, up, due, end, cur, asOf, queue,
                   since, lastRun, late>>
    /\ NoFault

\* Mutant of ReadRows: what is done is the newest row written.
ReadRowsNewest ==
    /\ up /\ pc = "read"
    /\ queue' = RowsAfter(cur, since[cur])
    /\ since' = [since EXCEPT ![cur] = newest]
    /\ pc' = "replay"
    /\ UNCHANGED <<now, enabled, rows, cacheVars, up, due, todo, end, cur, asOf,
                   newest, lastRun, late>>
    /\ NoFault

\* The rows that follow since are read for the replay.  What is then done is
\* the last of them.
ReadRows ==
    /\ up /\ pc = "read"
    /\ queue' = RowsAfter(cur, since[cur])
    /\ since' = [since EXCEPT ![cur] = IF queue' = <<>> THEN newest
                                       ELSE queue'[Len(queue')].close]
    /\ pc' = "replay"
    /\ UNCHANGED <<now, enabled, rows, cacheVars, up, due, todo, end, cur, asOf,
                   newest, lastRun, late>>
    /\ NoFault

\* Mutant of StoreFails: the bars of the failed replay count as done.
StoreFailsSkipping ==
    /\ up /\ pc \in {"fetched", "read"}
    /\ pc' = "series" /\ todo' = todo \ {cur}
    /\ since' = [since EXCEPT ![cur] = IF pc = "read" THEN newest ELSE @]
    /\ Fault
    /\ UNCHANGED <<now, enabled, rows, cacheVars, up, due, end, cur, asOf, newest,
                   queue, lastRun, late>>

\* The store or the read fails: since stays, and the bars come again.
StoreFails ==
    /\ up /\ pc \in {"fetched", "read"}
    /\ pc' = "series" /\ todo' = todo \ {cur}
    /\ Fault
    /\ UNCHANGED <<now, enabled, rows, cacheVars, up, due, end, cur, asOf, newest,
                   queue, since, lastRun, late>>

\* update stamps the entry with the time of the replay.
Replay ==
    /\ up /\ pc = "replay" /\ queue # <<>>
    /\ hist' = [hist EXCEPT ![cur] = Appended(@, Head(queue))]
    /\ stamp' = [stamp EXCEPT ![cur] = now]
    /\ queue' = Tail(queue)
    /\ UNCHANGED <<now, enabled, rows, up, pc, due, todo, end, cur, asOf, newest,
                   since, lastRun, late>>
    /\ NoFault

ReplayDone ==
    /\ up /\ pc = "replay" /\ queue = <<>>
    /\ pc' = "series" /\ todo' = todo \ {cur}
    /\ UNCHANGED <<now, enabled, rows, cacheVars, up, due, end, cur, asOf, newest,
                   queue, since, lastRun, late>>
    /\ NoFault

\* The cycle is recorded as run whatever became of its series.
EndCycle ==
    /\ up /\ pc = "series" /\ todo = {}
    /\ pc' = "wait" /\ due' = now + Interval /\ lastRun' = now /\ late' = 0
    /\ end' = 0 /\ cur' = Nobody /\ asOf' = 0 /\ newest' = None
    /\ UNCHANGED <<now, enabled, rows, cacheVars, up, todo, queue, since>>
    /\ NoFault

ServiceStep ==
    \/ Begin \/ Store \/ ReadRows \/ Replay \/ ReplayDone \/ EndCycle
    \/ \E s \in Series : SkipSeries(s) \/ Fetch(s)

FaultStep ==
    \/ CycleLost \/ StoreFails
    \/ \E s \in Series : FetchFails(s)

-----------------------------------------------------------------------------
(* Requests, the process and the clock.                                    *)

\* delete_monitored_symbol: the rows go, then the entry of the cache.
Delete(s) ==
    /\ up /\ s \in enabled
    /\ enabled' = enabled \ {s}
    /\ rows' = [rows EXCEPT ![s] = {}]
    /\ hist' = [hist EXCEPT ![s] = <<>>]
    /\ stamp' = [stamp EXCEPT ![s] = None]
    /\ Fault
    /\ UNCHANGED <<now, up, pc, due, cycleVars, since, lastRun, late>>

Add(s) ==
    /\ up /\ s \notin enabled
    /\ enabled' = enabled \cup {s}
    /\ lastFault' = now
    /\ UNCHANGED <<now, rows, cacheVars, up, pc, due, cycleVars, since, lastRun, late, faults>>

\* The process dies, and with it all but the rows.
Crash ==
    /\ up
    /\ Fault
    /\ up' = FALSE /\ pc' = "wait" /\ late' = 0
    /\ todo' = {} /\ end' = 0 /\ cur' = Nobody /\ asOf' = 0 /\ newest' = None
    /\ queue' = <<>>
    /\ hist' = [s \in Series |-> <<>>]
    /\ stamp' = [s \in Series |-> None]
    /\ since' = [s \in Series |-> None]
    /\ lastRun' = None
    /\ UNCHANGED <<now, enabled, rows, due>>

\* warmup_trend_cache replays the last rows of each series that has a recent
\* one, through update, which stamps them with the time of the replay.  An
\* error ends the warmup and not the start.
Warm(s) == \E c \in Closes(rows[s]) : c >= now - WarmupWindow

Boot ==
    /\ ~up
    /\ up' = TRUE /\ due' = now
    /\ \E W \in {{s \in Series : Warm(s)}, {}} :
         /\ hist' = [s \in Series |-> IF s \in W THEN Lasts(History(s), Keep) ELSE <<>>]
         /\ stamp' = [s \in Series |-> IF s \in W THEN now ELSE None]
    /\ lastFault' = now
    /\ UNCHANGED <<now, enabled, rows, pc, cycleVars, since, lastRun, late, faults>>

Tick ==
    /\ now < MaxNow
    /\ IF up /\ pc = "wait" THEN now < due /\ UNCHANGED late
       ELSE IF up THEN late < MaxDelay /\ late' = late + 1
       ELSE UNCHANGED late
    /\ now' = now + 1
    /\ UNCHANGED <<enabled, rows, cacheVars, up, pc, due, cycleVars, since, lastRun>>
    /\ NoFault

EnvStep == Boot \/ Crash \/ \E s \in Series : Delete(s) \/ Add(s)

FeedNext == ServiceStep \/ FaultStep \/ EnvStep

Next == FeedNext \/ Tick

Spec == Init /\ [][Next]_vars

\* The service thread runs, the clock advances, a symbol deleted is added
\* again and the platform restarts the process.
Fairness ==
    /\ WF_vars(ServiceStep) /\ WF_vars(Tick) /\ WF_vars(Boot)

FairSpec == Spec /\ Fairness

-----------------------------------------------------------------------------
(* Properties.                                                             *)

Rows == [close : 1 .. MaxNow, whole : BOOLEAN]
Times == {None} \cup (0 .. MaxNow)

\* The value of every variable.
TypeOK ==
    /\ now \in 0 .. MaxNow /\ enabled \subseteq Series
    /\ rows \in [Series -> SUBSET Rows]
    /\ \A s \in Series : hist[s] \in Seq(Rows) /\ Len(hist[s]) <= Keep
    /\ stamp \in [Series -> Times] /\ since \in [Series -> Times]
    /\ up \in BOOLEAN /\ lastRun \in Times /\ due \in 0 .. MaxNow + Interval
    /\ pc \in {"wait", "series", "fetched", "read", "replay"}
    /\ todo \subseteq Series /\ cur \in Series \cup {Nobody}
    /\ queue \in Seq(Rows) /\ late \in 0 .. MaxDelay /\ faults \in 0 .. MaxFaults

\* A bar stored before it closed is made whole by the time a newer one is
\* stored: the log heals itself, although a fetch can straddle a close, fail
\* after any step, or be cut short by a restart.
StoredHealed ==
    \A s \in Series : \A r \in rows[s] : r.whole \/ r.close = Latest(s)

\* The histories of the cache hold consecutive bars, each once and in order,
\* through capped replays, failed writes and reads, restarts and deletions.
ReplayedInOrder ==
    \A s \in Series : \A i \in 1 .. Len(hist[s]) - 1 :
        hist[s][i + 1].close = hist[s][i].close + Length[s]

\* The log heals what a fetch took too early, and the cache replays it in order.
LogFaithful == StoredHealed /\ ReplayedInOrder

\* A series that has been fetched is never too old to be read once a bar and
\* a cycle have passed without a fault.
Settled(s) ==
    /\ up /\ s \in enabled /\ hist[s] # <<>>
    /\ \/ lastFault = None
       \/ now > lastFault + 2 * Interval + Length[s] + 2 * MaxDelay
NeverStale == \A s \in Series : Settled(s) => Fresh(s)

\* Again and again the cache has caught up with the newest bar closed, whatever
\* failed on the way.  Two cases are left out: a symbol deleted, and a series
\* the cache has nothing of although the service takes it as done, because it
\* was deleted and added again, or its first replay failed, or the warmup did.
Unwarmed(s) == hist[s] = <<>> /\ since[s] # None
LastClose(s) == now - (now % Length[s])
Reached(s, c) == hist[s] # <<>> /\ hist[s][Len(hist[s])].close >= c
CaughtUp(s) ==
    LastClose(s) = 0 \/ Reached(s, LastClose(s)) \/ Unwarmed(s) \/ s \notin enabled
CatchesUp == []<>(\A s \in Series : CaughtUp(s))

\* What a comment of _fetch_once says: a bar whose replay failed is retried.
DoneIsCached ==
    \A s \in enabled : up /\ pc = "wait" /\ since[s] # None => Reached(s, since[s])

\* What get promises, available and not stale: a trend that is read is of a
\* bar that closed within its limit of age and the delay of the feed.
FreshIsRecent ==
    \A s \in Series :
        Fresh(s) /\ hist[s] # <<>> =>
            now - hist[s][Len(hist[s])].close <=
                EffectiveMaxAge(s) + Length[s] + Interval + MaxDelay

\* What compute_rows promises: the bar in progress is never written.
WholeOnly == \A s \in Series : \A r \in rows[s] : r.whole

=============================================================================
