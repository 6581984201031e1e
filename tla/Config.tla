------------------------------- MODULE Config --------------------------------
(***************************************************************************)
(* What is read at one moment and used at another: the order sizes         *)
(* (SizeCache, extended), the copies of the profiles, the prompts, the     *)
(* prices, the sessions of the dashboard and the backtest.  They share no  *)
(* state, and a behaviour is about one of them: part says which moves, and *)
(* the others rest.                                                        *)
(***************************************************************************)
EXTENDS SizeCache

CONSTANTS
    ProfileEdits,                                                  \* of ProfileSwap
    Ids, Fallback, PromptEdits,                                    \* of PromptCache
    NoPrice, Tickers, Spellings, Alias, Books, Prices, Ttl,        \* of PriceFeed
    MaxFillAge, MaxSpread, MaxDeviation, PriceTime, MaxMoves,
    Nobody, Users, Founder, Profiles, AccessTtl, RefreshTtl,       \* of Access
    SessionTime, UserEdits,
    Symbols, LastRow, Levels, Ticks, Stop, Slip, Target, Arm, Trail,  \* of Backtest
    RunnerTrail, MaxAge, FireCooldown, Cooldown, MaxOpen, Limit, Lock, NoTrade,
    Rest                                      \* value of a variable at rest

VARIABLES
    part,
    profile, loaded, generator, handler, scan, order, open, mustKnow,  \* of ProfileSwap
    table, writes, reloads, cached, ask, raised, excused,              \* of PromptCache
    clock, book, fill, reference, moves, left, compared, prices, seen, \* of PriceFeed
    users, mappings, browser, moment, edits, held,                     \* of Access
    mode, low, side, symbol, bar, candle, path, gap, phase, pos,       \* of Backtest
    cooling, slots, closes, done

Swap == INSTANCE ProfileSwap WITH
    MaxEdits <- ProfileEdits, row <- profile, api <- handler, due <- mustKnow
Prompt == INSTANCE PromptCache WITH MaxEdits <- PromptEdits, edits <- writes, api <- reloads
Feed == INSTANCE PriceFeed WITH
    None <- NoPrice, MaxNow <- PriceTime, now <- clock, cache <- prices
Session == INSTANCE Access WITH
    Nothing <- Nobody, MaxNow <- SessionTime, MaxEdits <- UserEdits, now <- moment
Replay == INSTANCE Backtest WITH
    Rows <- LastRow, None <- NoTrade, row <- bar, bar <- candle

swapVars == <<profile, loaded, generator, handler, scan, order, open, mustKnow>>
promptVars == <<table, writes, reloads, cached, ask, raised, excused>>
feedVars == <<clock, book, fill, reference, moves, left, compared, prices, seen>>
sessionVars == <<users, mappings, browser, moment, edits, held>>
replayVars == <<mode, low, side, symbol, bar, candle, path, gap, phase, pos,
                cooling, slots, closes, done>>
allVars == <<part, vars, swapVars, promptVars, feedVars, sessionVars, replayVars>>

-----------------------------------------------------------------------------
SizeRests == Init /\ row.is = "none"
SwapRests ==
    /\ profile = Rest /\ loaded = Rest /\ generator = Rest /\ handler = Rest
    /\ scan = Rest /\ order = Rest /\ open = Rest /\ mustKnow = Rest
PromptRests ==
    /\ table = Rest /\ writes = Rest /\ reloads = Rest /\ cached = Rest /\ ask = Rest
    /\ raised = Rest /\ excused = Rest
FeedRests ==
    /\ clock = Rest /\ book = Rest /\ fill = Rest /\ reference = Rest /\ moves = Rest
    /\ left = Rest /\ compared = Rest /\ prices = Rest /\ seen = Rest
SessionRests ==
    /\ users = Rest /\ mappings = Rest /\ browser = Rest /\ moment = Rest
    /\ edits = Rest /\ held = Rest
ReplayRests ==
    /\ mode = Rest /\ low = Rest /\ side = Rest /\ symbol = Rest /\ bar = Rest
    /\ candle = Rest /\ path = Rest /\ gap = Rest /\ phase = Rest /\ pos = Rest
    /\ cooling = Rest /\ slots = Rest /\ closes = Rest /\ done = Rest

EveryInit ==
    /\ part \in {"size", "swap", "prompt", "feed", "session", "replay"}
    /\ IF part = "size"    THEN Init         ELSE SizeRests
    /\ IF part = "swap"    THEN Swap!Init    ELSE SwapRests
    /\ IF part = "prompt"  THEN Prompt!Init  ELSE PromptRests
    /\ IF part = "feed"    THEN Feed!Init    ELSE FeedRests
    /\ IF part = "session" THEN Session!Init ELSE SessionRests
    /\ IF part = "replay"  THEN Replay!Init  ELSE ReplayRests

EveryNext ==
    /\ UNCHANGED part
    /\ IF part = "size"    THEN Next         ELSE UNCHANGED vars
    /\ IF part = "swap"    THEN Swap!Next    ELSE UNCHANGED swapVars
    /\ IF part = "prompt"  THEN Prompt!Next  ELSE UNCHANGED promptVars
    /\ IF part = "feed"    THEN Feed!Next    ELSE UNCHANGED feedVars
    /\ IF part = "session" THEN Session!Next ELSE UNCHANGED sessionVars
    /\ IF part = "replay"  THEN Replay!Next  ELSE UNCHANGED replayVars

EverySpec == EveryInit /\ [][EveryNext]_allVars

-----------------------------------------------------------------------------
\* See ProfileSwap: a scan that begins after an edit runs with it.
EditApplied == part = "swap" => Swap!EditApplied
\* See PromptCache: the cached prompt is the table's.
PromptCurrent == part = "prompt" => Prompt!PromptCurrent
\* See PriceFeed: no reader is given a price the market never had of late.
NoPhantom == part = "feed" => Feed!NoPhantom
\* See Access: what was taken from a user is gone a token's life later.
AccessEnds == part = "session" => Session!AccessEnds
\* See Backtest: a trailing stop is placed by prices of the position's own time,
\* trades follow each other, and a pause is kept.
ReplaySound ==
    part = "replay" => Replay!TrailEarned /\ Replay!TradesInOrder /\ Replay!PauseKept
=============================================================================
