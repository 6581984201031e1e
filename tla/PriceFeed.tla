------------------------------ MODULE PriceFeed ------------------------------
(***************************************************************************)
(* The prices everything else is decided on: one pass of                   *)
(* MonitoringService._monitor_prices over the watched symbols, the choice  *)
(* of a price in utils.price_resolution, and PriceCache with its age limit *)
(* and its two spellings of a symbol.  The requests of a pass answer, fail *)
(* or time out one by one, and the market moves between them.              *)
(*                                                                         *)
(* Prices are doubled so that the middle of a book is a whole number.      *)
(***************************************************************************)
EXTENDS Integers, FiniteSets, FiniteSetsExt

CONSTANTS
    None,        \* no book, fill, reference or price
    Tickers,     \* watched symbols
    Spellings,   \* what readers ask for: tickers and other spellings of them
    Alias,       \* the other spelling of a symbol (or None)
    Books,       \* order books: the sets of bid and of ask prices
    Prices,      \* prices of fills and of the reference market
    Ttl,         \* age after which a cached price is not given out
    MaxFillAge,  \* oldest fill that still counts (max_last_fill_age_secs)
    MaxSpread,   \* widest book that still counts, in percent
    MaxDeviation,\* furthest from the reference market, in percent; 0: unchecked
    MaxNow,      \* bound: the clock
    MaxMoves     \* bound: changes of the market

PriceAssumption ==
    /\ Ttl \in Nat /\ MaxFillAge \in Nat /\ Tickers \subseteq Spellings
    /\ Alias \in [Spellings -> Spellings \cup {None}]

VARIABLES
    now,
    book, fill,  \* the market: the book and the last fill of every ticker
    reference,   \* the reference market's price of every ticker
    moves,       \* number of changes used up
    left,        \* the pass: tickers not visited yet
    compared,    \* the pass: reference prices it holds
    cache,       \* PriceCache: price and time of the last update
    seen         \* history: prices at which each ticker traded or was quoted
                 \*   closely, with the time, and the reference in force

vars == <<now, book, fill, reference, moves, left, compared, cache, seen>>

-----------------------------------------------------------------------------
\* book_top: best bid below best ask, both positive, or nothing.
Usable(b) ==
    /\ b # None /\ b.bids # {} /\ b.asks # {}
    /\ Max(b.bids) > 0 /\ Max(b.bids) < Min(b.asks)

BookTop(b) ==
    IF Usable(b) THEN [bid |-> Max(b.bids), ask |-> Min(b.asks),
                       mid |-> (Max(b.bids) + Min(b.asks)) \div 2]
    ELSE None

\* spread_pct > max_spread_pct.
TooWide(top) == (top.ask - top.bid) * 100 > MaxSpread * top.mid

\* Mutant: the last price of /tickers, which has no time, stands in.
LastPriceOfTicker(f) == IF f = None THEN None ELSE f.price
\* fresh_trade_price.
FreshTradePrice(f) == IF f = None \/ now - f.time > MaxFillAge THEN None ELSE f.price

\* resolve_reference_price: the middle of a close book, else a fresh fill.
ResolveReferencePrice(fresh, top) ==
    IF top = None \/ TooWide(top) THEN fresh ELSE top.mid

\* deviation_pct; without a reference there is nothing to compare with.
Deviates(price, ref) ==
    LET apart == IF price > ref THEN price - ref ELSE ref - price
    IN  MaxDeviation > 0 /\ apart * 100 > MaxDeviation * ref

Rejected(price, ref) == ref # None /\ Deviates(price, ref)

\* PriceCache: a price is given out while it is fresh, under either spelling.
Valid(s) == cache[s].time # None /\ now - cache[s].time <= Ttl

ResolveSymbol(s) ==
    IF Valid(s) THEN s
    ELSE IF Alias[s] # None /\ Valid(Alias[s]) THEN Alias[s] ELSE None

GetPrice(s) == IF ResolveSymbol(s) = None THEN None ELSE cache[ResolveSymbol(s)].price

-----------------------------------------------------------------------------
Witnessed(t, b, f) ==
    {[of |-> t, price |-> p, time |-> now] :
        p \in (IF BookTop(b) # None /\ ~ TooWide(BookTop(b)) THEN {BookTop(b).mid} ELSE {})
              \cup (IF f # None /\ f.time = now THEN {f.price} ELSE {})}

Recent(w) == now - w.time <= Ttl + MaxFillAge

Init ==
    /\ now = 0
    /\ book \in [Tickers -> Books \cup {None}]
    /\ fill = [t \in Tickers |-> None]
    /\ reference \in [Tickers -> {None} \cup Prices]
    /\ moves = 0
    /\ left = {}
    /\ compared = [t \in Tickers |-> None]
    /\ cache = [s \in Spellings |-> [price |-> None, time |-> None]]
    /\ seen = UNION {Witnessed(t, book[t], None) : t \in Tickers}

\* The pass starts with one request for all tickers and one for the reference
\* prices.  The first raises when it fails, out of the pass and of the whole
\* monitoring cycle (MonitorCycle); the second is tried twice and then done without.
StartPass(referenced) ==
    /\ left = {}
    /\ left' = Tickers
    /\ compared' = IF referenced THEN reference ELSE [t \in Tickers |-> None]
    /\ UNCHANGED <<now, book, fill, reference, moves, cache, seen>>

\* One ticker: its book; a fill only when the book is no use; the comparison;
\* the cache.  A book that cannot be had is no book; a fill that cannot be had
\* ends the visit.
Visit(t, gotBook, gotFill) ==
    /\ t \in left
    /\ left' = left \ {t}
    /\ LET top == IF gotBook THEN BookTop(book[t]) ELSE None
           asks == top = None \/ TooWide(top)
           price == ResolveReferencePrice(IF asks THEN FreshTradePrice(fill[t]) ELSE None, top)
       IN  cache' = IF (asks /\ ~ gotFill) \/ price = None \/ Rejected(price, compared[t])
                    THEN cache
                    ELSE [cache EXCEPT ![t] = [price |-> price, time |-> now]]
    /\ UNCHANGED <<now, book, fill, reference, moves, compared, seen>>

\* The market.
Moved == moves < MaxMoves /\ moves' = moves + 1

BookMoves(t, b) ==
    /\ Moved
    /\ book' = [book EXCEPT ![t] = b]
    /\ seen' = seen \cup Witnessed(t, b, fill[t])
    /\ UNCHANGED <<now, fill, reference, left, compared, cache>>

Trade(t, p) ==
    /\ Moved
    /\ fill' = [fill EXCEPT ![t] = [price |-> p, time |-> now]]
    /\ seen' = seen \cup {[of |-> t, price |-> p, time |-> now]}
    /\ UNCHANGED <<now, book, reference, left, compared, cache>>

ReferenceMoves(t, p) ==
    /\ Moved
    /\ reference' = [reference EXCEPT ![t] = p]
    /\ UNCHANGED <<now, book, fill, left, compared, cache, seen>>

\* A symbol is taken off the watch list.
RemoveTicker(s) ==
    /\ cache[s].time # None
    /\ cache' = [cache EXCEPT ![s] = [price |-> None, time |-> None]]
    /\ UNCHANGED <<now, book, fill, reference, moves, left, compared, seen>>

\* Time passes between two passes (a pass is short against the age limits);
\* a quote that still stands is seen again.
Tick ==
    /\ now < MaxNow /\ left = {}
    /\ now' = now + 1
    /\ seen' = {w \in seen : now + 1 - w.time <= Ttl + MaxFillAge}
               \cup {[w EXCEPT !.time = now + 1] :
                        w \in UNION {Witnessed(t, book[t], None) : t \in Tickers}}
    /\ UNCHANGED <<book, fill, reference, moves, left, compared, cache>>

Next ==
    \/ \E referenced \in BOOLEAN : StartPass(referenced)
    \/ \E t \in Tickers, gotBook, gotFill \in BOOLEAN : Visit(t, gotBook, gotFill)
    \/ \E t \in Tickers, b \in Books \cup {None} : BookMoves(t, b)
    \/ \E t \in Tickers, p \in Prices : Trade(t, p) \/ ReferenceMoves(t, p)
    \/ \E s \in Tickers : RemoveTicker(s)
    \/ Tick

Spec == Init /\ [][Next]_vars

-----------------------------------------------------------------------------
TypeOK ==
    /\ \A s \in Spellings : cache[s].price = None <=> cache[s].time = None
    /\ now \in 0..MaxNow /\ left \subseteq Tickers

(* No made-up price: whatever a reader gets, under any spelling, is a price   *)
(* the symbol was traded at, or closely quoted at, within the age limits of   *)
(* the cache and of a fill: not the middle of a wide book, not a fill of      *)
(* unknown age, and not an entry that should have gone stale.                 *)
NoPhantom ==
    \A s \in Spellings :
        GetPrice(s) # None =>
            \E w \in seen : /\ w.of \in {s, Alias[s]}
                            /\ w.price = GetPrice(s) /\ Recent(w)
=============================================================================
