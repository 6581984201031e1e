---------------------------- MODULE CandleHosts -----------------------------
(***************************************************************************)
(* The requests of the candle feed to its hosts: bans, failover, retries   *)
(* and the cache of the venue's listing.  A cycle asks the listing once    *)
(* for each symbol, through the cache, and then fetches each symbol; each  *)
(* request goes to the hosts in turn.                                      *)
(*                                                                         *)
(* Times are kept as what is left of them.  A ban is lengthened by every   *)
(* request that reaches its host while it lasts.  An answer that never     *)
(* comes takes Timeout units, any other answer none.                       *)
(***************************************************************************)
EXTENDS Integers, Sequences, SequencesExt

CONSTANTS
    Hosts,        \* BINANCE_BASE and its fallback, in order
    Symbols,      \* number of monitored symbols
    Retries,      \* attempts of a request at one host
    Interval,     \* between cycles
    ListingTTL, FailTTL, \* of a listing, and of a failure to read it
    BanTime,      \* length of a ban
    Fallback,     \* what is noted of a ban of untold length
    Pause,        \* until the minute of a host's request weight ends
    Timeout,      \* of a request
    MaxStrikes    \* bound: answers other than data in a behaviour

HostsAssumption ==
    /\ {Symbols, Retries, Interval} \subseteq Nat \ {0}
    /\ {ListingTTL, FailTTL, BanTime, Fallback, Pause, Timeout,
        MaxStrikes} \subseteq Nat

VARIABLES
    ban,       \* of each host: what is left of its ban
    noted,     \* of each host: what is left of the ban as noted here
    listing,   \* what is left of the listing read last
    refused,   \* what is left of the time a failed listing counts
    pc,        \* of the fetcher thread
    symbol,    \* the symbol the cycle is at
    served,    \* symbols fetched in this cycle
    usable,    \* hosts the request may still go to
    soonest,   \* what the request found noted when it began, or was told
    attempt,   \* at the first of them
    last,      \* what the last answer was
    stamp,     \* what is left of FailTTL, counted from the request's start
    sleep,     \* time until the thread goes on
    strikes,   \* answers other than data
    listed,    \* history: requests for the listing in this cycle
    guessed    \* history: a ban has been noted as shorter than it is

venueVars == <<ban, strikes, guessed>>
cacheVars == <<noted, listing, refused>>
requestVars == <<usable, soonest, attempt, last, stamp>>
vars == <<venueVars, cacheVars, pc, symbol, served, requestVars, sleep, listed>>

HostSet == ToSet(Hosts)
Larger(a, b) == IF a >= b THEN a ELSE b
SoonestOf(S) == CHOOSE x \in S : \A y \in S : x <= y

-----------------------------------------------------------------------------
\* banned_until without a host: there is nowhere left to ask.
AllBanned == \A h \in HostSet : noted[h] > 0

\* _candidate_urls: a host under a ban is dropped rather than tried.
CandidateUrls == SelectSeq(Hosts, LAMBDA h : noted[h] = 0)
SoonestUnban ==
    IF CandidateUrls = Hosts THEN 0
    ELSE SoonestOf({noted[h] : h \in {g \in HostSet : noted[g] > 0}})

Init ==
    /\ ban = [h \in HostSet |-> 0] /\ noted = [h \in HostSet |-> 0]
    /\ listing = 0 /\ refused = 0
    /\ pc = "wait" /\ symbol = 1 /\ served = 0 /\ sleep = 0
    /\ usable = <<>> /\ soonest = 0 /\ attempt = 1 /\ last = "none" /\ stamp = 0
    /\ strikes = 0 /\ listed = 0 /\ guessed = FALSE

Awake == sleep = 0

NextCycle ==
    /\ pc' = "wait" /\ sleep' = Interval
    /\ symbol' = 1

-----------------------------------------------------------------------------
(* The cycle: _fetch_once.                                                 *)

SkipBanned ==
    /\ pc = "wait" /\ Awake /\ AllBanned
    /\ NextCycle
    /\ UNCHANGED <<venueVars, cacheVars, served, requestVars, listed>>

Begin ==
    /\ pc = "wait" /\ Awake /\ ~AllBanned
    /\ pc' = "resolve" /\ symbol' = 1 /\ served' = 0 /\ listed' = 0
    /\ UNCHANGED <<venueVars, cacheVars, requestVars, sleep>>

Resolved ==
    IF symbol < Symbols THEN symbol' = symbol + 1 /\ pc' = "resolve"
    ELSE symbol' = 1 /\ pc' = "fetch"

\* listed_symbols answers from a listing, or from a failure, that still counts.
\* An unknown listing blocks no symbol.
ListingCached ==
    /\ pc = "resolve" /\ Awake
    /\ listing > 0 \/ refused > 0
    /\ Resolved
    /\ UNCHANGED <<venueVars, cacheVars, served, requestVars, sleep, listed>>

\* _http_get begins: the hosts it may go to are chosen once.
Request(at) ==
    /\ pc' = at /\ usable' = CandidateUrls /\ soonest' = SoonestUnban
    /\ attempt' = 1 /\ last' = "none" /\ stamp' = FailTTL
    /\ UNCHANGED <<venueVars, cacheVars, symbol, served, sleep>>

ReadListing ==
    /\ pc = "resolve" /\ Awake
    /\ listing = 0 /\ refused = 0
    /\ Request("listing")
    /\ listed' = listed + 1

Fetch ==
    /\ pc = "fetch" /\ Awake
    /\ Request("klines")
    /\ UNCHANGED listed

\* A cycle ends with its last symbol, or with a rate limit on every host.
AfterSymbol ==
    IF symbol < Symbols
    THEN pc' = "fetch" /\ symbol' = symbol + 1 /\ UNCHANGED sleep
    ELSE NextCycle

-----------------------------------------------------------------------------
(* The answers: _http_get.                                                 *)

Asking == pc \in {"listing", "klines"} /\ Awake /\ usable # <<>>
Host == Head(usable)
Strike == strikes < MaxStrikes /\ strikes' = strikes + 1

\* _track_weight pauses when the minute is nearly spent.
Data ==
    /\ Asking /\ ban[Host] = 0
    /\ \E pause \in {0, Pause} :
         /\ pause = 0 \/ strikes < MaxStrikes
         /\ strikes' = IF pause = 0 THEN strikes ELSE strikes + 1
         /\ IF pc = "listing"
            THEN /\ listing' = ListingTTL /\ refused' = 0
                 /\ Resolved
                 /\ sleep' = pause
                 /\ UNCHANGED served
            ELSE /\ served' = served + 1
                 /\ IF symbol < Symbols
                    THEN pc' = "fetch" /\ symbol' = symbol + 1 /\ sleep' = pause
                    ELSE NextCycle
                 /\ UNCHANGED <<listing, refused>>
    /\ UNCHANGED <<ban, guessed, noted, requestVars, listed>>

Limit ==
    /\ Asking
    /\ \/ ban[Host] > 0 /\ UNCHANGED strikes
       \/ ban[Host] = 0 /\ Strike
    /\ ban' = [ban EXCEPT ![Host] = BanTime]
    /\ last' = "limited"
    /\ UNCHANGED <<listing, refused, pc, symbol, served, stamp, listed>>

\* Mutant of RateLimited: the time of the ban is thrown away with the answer.
RateLimitedUnnoted ==
    /\ Limit
    /\ usable' = Tail(usable) /\ attempt' = 1
    /\ UNCHANGED <<noted, soonest, sleep, guessed>>

\* 418 and 429: the ban is noted, as long as it is said to be or by a rule of
\* thumb, and the host is out.  A banned host answers nothing else.
RateLimited ==
    /\ Limit
    /\ \E told \in {BanTime, Fallback} :
         /\ noted' = [noted EXCEPT ![Host] = Larger(@, told)]
         /\ soonest' = Larger(soonest, told)
         /\ guessed' = (guessed \/ noted'[Host] < BanTime)
    /\ usable' = Tail(usable) /\ attempt' = 1
    /\ UNCHANGED sleep

\* 5xx at once, or no answer in time: the ladder doubles its sleep.
Failed ==
    /\ Asking /\ ban[Host] = 0 /\ Strike
    /\ \E waited \in {0, Timeout} : sleep' = waited + 2 ^ (attempt - 1)
    /\ last' = "failed"
    /\ IF attempt < Retries THEN attempt' = attempt + 1 /\ UNCHANGED usable
       ELSE attempt' = 1 /\ usable' = Tail(usable)
    /\ UNCHANGED <<ban, guessed, cacheVars, pc, symbol, served, soonest, stamp, listed>>

\* What the caller makes of a request that raised: a failed listing counts
\* from when the request began; a rate limit ends the cycle, another error
\* the symbol.
Raised(limited) ==
    IF pc = "listing"
    THEN /\ refused' = stamp
         /\ Resolved
         /\ UNCHANGED <<listing, sleep>>
    ELSE /\ IF limited THEN NextCycle ELSE AfterSymbol
         /\ UNCHANGED <<listing, refused>>

\* 401, 403 and 451 will not become an answer by asking again, nor elsewhere.
Rejected ==
    /\ Asking /\ ban[Host] = 0 /\ Strike
    /\ Raised(FALSE)
    /\ UNCHANGED <<ban, guessed, noted, served, requestVars, listed>>

\* Every host is banned, or has been tried in vain.
GaveUp ==
    /\ pc \in {"listing", "klines"} /\ Awake /\ usable = <<>>
    /\ Raised(last \in {"none", "limited"})
    /\ UNCHANGED <<venueVars, noted, served, requestVars, listed>>

ThreadStep ==
    \/ SkipBanned \/ Begin \/ ListingCached \/ ReadListing \/ Fetch
    \/ Data \/ RateLimited \/ Failed \/ Rejected \/ GaveUp

Less(x) == IF x = 0 THEN 0 ELSE x - 1

Tick ==
    /\ ~Awake
    /\ sleep' = sleep - 1
    /\ ban' = [h \in HostSet |-> Less(ban[h])]
    /\ noted' = [h \in HostSet |-> Less(noted[h])]
    /\ listing' = Less(listing) /\ refused' = Less(refused)
    /\ stamp' = Less(stamp) /\ soonest' = Less(soonest)
    /\ UNCHANGED <<pc, symbol, served, usable, attempt, last, strikes, listed,
                   guessed>>

Next == ThreadStep \/ Tick

Spec == Init /\ [][Next]_vars

\* The thread goes on, time passes, and a host that is not banned answers in
\* the end.
FairSpec == Spec /\ WF_vars(Next)

-----------------------------------------------------------------------------
(* Properties.                                                             *)

\* Whatever the hosts answer for a while, the feed serves every symbol again,
\* unless a ban was noted as shorter than it is: the probe of its end then
\* lengthens it each time.
FeedResumes == []<>(served = Symbols) \/ <>guessed

\* What the comment at _LISTING_FAIL_TTL_SEC says: a venue that is down is
\* asked once for its listing in a cycle, not once for each symbol.
OneListing == listed <= 1

\* What BinanceRateLimited says of its time: the first instant any host is
\* usable again.
UntilSoonest ==
    (pc = "klines" /\ Awake /\ usable = <<>> /\ last = "limited" /\ AllBanned) =>
        soonest = SoonestOf({noted[h] : h \in HostSet})

=============================================================================
