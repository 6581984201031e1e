------------------------------ MODULE Decisions ------------------------------
(***************************************************************************)
(* What is decided about one trade: the review that ends it (ExitReview,   *)
(* extended), the quantity of its order, the outcome booked for its        *)
(* signal, the losing streak it may add to, the confidence of its signal,  *)
(* and the sales and the validation of two positions.  The parts share no  *)
(* state, and a behaviour is about one of them: part says which moves, and *)
(* the others rest.  The last two have the registers r1, ..., r21.         *)
(***************************************************************************)
EXTENDS ExitReview

CONSTANTS
    MAX, Amounts, OrderPrices, RuleBooks, Purse, Whole, Decimals, Floor, Gut,   \* of OrderRules
    MaxMoves,
    Signals, Forward, MaxCandles,                                           \* of SignalOutcome
    Closer, Webhooks, Limit, RecentCloses, MaxCloses, Faults, MaxFaults,   \* of StopLossBreaker
    ScoredProfiles, Markets, Opinions, MinVolume, MinConfidence, RegimeTTL, \* of SignalScore
    RegimeOld,
    NumPositions, Lots, MaxOpen, Webhook, UseTrailing, ExitFaults,          \* of ExitEngine
    MaxExitFaults

VARIABLES
    part,
    account, resting, balances, fetched, market, order, avail, cancels,     \* of OrderRules
    answer, steady, moves,
    feed, logged, position, tool,                                           \* of SignalOutcome
    closes, streak, rows, over, cached, at, ending, since, waived, struck,  \* of StopLossBreaker
    r1, r2, r3, r4, r5, r6, r7, r8, r9, r10, r11, r12, r13, r14, r15,
    r16, r17, r18, r19, r20, r21

Order == INSTANCE OrderRules WITH
    Nothing <- Nil, Prices <- OrderPrices, Markets <- RuleBooks, cached <- balances

Outcome == INSTANCE SignalOutcome WITH Nothing <- Nil, rows <- logged

Streak == INSTANCE StopLossBreaker WITH Monitor <- Closer

Score == INSTANCE SignalScore WITH
    Profiles <- ScoredProfiles, Old <- RegimeOld,
    profile <- r1, market <- r2, regime <- r3, opinion <- r4, outcome <- r5, risky <- r6

Exits == INSTANCE ExitEngine WITH
    Faults <- ExitFaults, MaxFaults <- MaxExitFaults,
    free <- r1, tp <- r2, tpQty <- r3, tpExec <- r4, sold <- r5, cacheFree <- r6,
    cacheTotal <- r7, st <- r8, remaining <- r9, priced <- r10, row <- r11, bpc <- r12,
    buy <- r13, pc <- r14, cur <- r15, todo <- r16, loaded <- r17, second <- r18,
    sent <- r19, done <- r20, struck <- r21

orderVars == <<account, resting, balances, fetched, market, order, avail, cancels,
               answer, steady, moves>>
outcomeVars == <<feed, logged, position, tool>>
streakVars == <<closes, streak, rows, over, cached, at, ending, since, waived, struck>>
r7to21 == <<r7, r8, r9, r10, r11, r12, r13, r14, r15, r16, r17, r18, r19, r20, r21>>
registers == <<r1, r2, r3, r4, r5, r6, r7to21>>
allVars == <<part, vars, orderVars, outcomeVars, streakVars, registers>>

-----------------------------------------------------------------------------
NoReview ==
    /\ profile = (CHOOSE p \in Profiles : TRUE) /\ bar = (CHOOSE b \in Bars : TRUE)
    /\ held = FALSE /\ age = 0 /\ profit = 0 /\ accepted = {} /\ verdict = "none"
OrderRests ==
    /\ account = Nil /\ resting = Nil /\ balances = Nil /\ fetched = Nil /\ market = Nil
    /\ order = Nil /\ avail = Nil /\ cancels = Nil /\ answer = Nil /\ steady = Nil
    /\ moves = Nil
OutcomeRests == feed = Nil /\ logged = Nil /\ position = Nil /\ tool = Nil
StreakRests ==
    /\ closes = Nil /\ streak = Nil /\ rows = Nil /\ over = Nil /\ cached = Nil /\ at = Nil
    /\ ending = Nil /\ since = Nil /\ waived = Nil /\ struck = Nil
From7 ==
    /\ r7 = Nil /\ r8 = Nil /\ r9 = Nil /\ r10 = Nil /\ r11 = Nil /\ r12 = Nil /\ r13 = Nil
    /\ r14 = Nil /\ r15 = Nil /\ r16 = Nil /\ r17 = Nil /\ r18 = Nil /\ r19 = Nil
    /\ r20 = Nil /\ r21 = Nil
RegistersRest ==
    /\ r1 = Nil /\ r2 = Nil /\ r3 = Nil /\ r4 = Nil /\ r5 = Nil /\ r6 = Nil /\ From7

EveryInit ==
    /\ part \in {"review", "order", "outcome", "streak", "score", "exits"}
    /\ IF part = "review"  THEN Init         ELSE NoReview
    /\ IF part = "order"   THEN Order!Init   ELSE OrderRests
    /\ IF part = "outcome" THEN Outcome!Init ELSE OutcomeRests
    /\ IF part = "streak"  THEN Streak!Init  ELSE StreakRests
    /\ CASE part = "score" -> Score!Init /\ From7
         [] part = "exits" -> Exits!Init
         [] OTHER          -> RegistersRest

EveryNext ==
    /\ UNCHANGED part
    /\ IF part = "review"  THEN Next         ELSE UNCHANGED vars
    /\ IF part = "order"   THEN Order!Next   ELSE UNCHANGED orderVars
    /\ IF part = "outcome" THEN Outcome!Next ELSE UNCHANGED outcomeVars
    /\ IF part = "streak"  THEN Streak!Next  ELSE UNCHANGED streakVars
    /\ CASE part = "score" -> Score!Next /\ UNCHANGED r7to21
         [] part = "exits" -> Exits!Next
         [] OTHER          -> UNCHANGED registers

EverySpec == EveryInit /\ [][EveryNext]_allVars

-----------------------------------------------------------------------------
\* See OrderRules: a buy the account can pay is sent whole, one it cannot is not
\* gutted, and what is sent the market accepts.
OrdersRight ==
    part = "order" => Order!WholeIfAffordable /\ Order!NotGutted /\ Order!SentLawful
\* See SignalOutcome: a signal's outcome is the level its candles reached first.
FirstTouch == part = "outcome" => Outcome!FirstTouch
\* See StopLossBreaker: a pause starts from losses in a row after the last pause,
\* starts when they are there, and holds.
PausesRight == part = "streak" => Streak!PausesRight
\* See SignalScore: no scan enters a market that was dangerous all along, and
\* SHADOW admits nothing that RULES would have refused.
SignalsGuarded == part = "score" => Score!DangerStops /\ Score!ShadowNarrows
\* See ExitEngine: validation closes no position whose lots are still held.
ValidationSound == [][part = "exits" => Exits!ValidationKeeps]_allVars
=============================================================================
