----------------------------- MODULE OrderRules -----------------------------
(***************************************************************************)
(* What TradingService does to the quantity of an order between the call   *)
(* and the exchange: the check of the cached balance before a trade        *)
(* (validate_balance_for_trade), the validation of the side that pays      *)
(* (_validate_buy_order, _validate_sell_order with its cancels of the      *)
(* profile's own resting sells), the market rules and the order itself.    *)
(*                                                                         *)
(* The account moves meanwhile: other profiles trade on it, holds are      *)
(* released, resting sells fill, and the monitoring thread fetches the     *)
(* balances and installs them a moment later.                              *)
(*                                                                         *)
(* Amounts are counted in a unit finer than any market's step.  The fee    *)
(* buffers of the code (0.9999 and 0.9995) are one part in Whole here; the *)
(* decimals a buy is cut to are Decimals units.                            *)
(***************************************************************************)
EXTENDS Integers, Sequences

CONSTANTS
    Nothing,     \* no value: an unknown balance, market or price
    MAX,         \* the quantity "MAX"
    Amounts,     \* the quantities an order may ask for
    Prices,      \* prices of one unit of the base asset
    Markets,     \* the market rules known for the symbol (or Nothing)
    Purse,       \* no balance is above this many units
    Whole,       \* a fee buffer takes one part in Whole
    Decimals,    \* a shrunk buy is cut to this many units
    Floor,       \* a free quote balance below this starts no buy ($5)
    Gut,         \* a buy is not shrunk below one part in Gut (0.15)
    MaxMoves     \* bound: what happens to the account besides the order

\* The exchange's steps are positive.
WholeAssumption ==
    /\ Whole \in Nat \ {0} /\ Gut \in Nat \ {0} /\ Decimals \in Nat \ {0} /\ Purse \in Nat
    /\ Amounts \subseteq Nat /\ Prices \subseteq Nat \ {0}
    /\ Markets \ {Nothing} \subseteq [min : Nat, max : Nat, step : Nat \ {0}]
    /\ MAX \notin Nat /\ Nothing \notin Nat \cup {MAX} /\ Nothing \notin [base : Nat, quote : Nat]

Sides == {"BID", "ASK"}

VARIABLES
    account,     \* the exchange: free base and quote
    resting,     \* the exchange: quantities locked in the profile's own limit sells
    cached,      \* BalanceCache: free base and quote, or Nothing
    fetched,     \* balances the monitoring thread has read and not installed yet
    market,      \* MarketInfoCache: the rules of the symbol, or Nothing
    order,       \* the order being validated
    avail,       \* the local variable available of the validation
    cancels,     \* resting sells the sell path has still to cancel
    answer,      \* order_response of the last cancel: "unbound", "none", "bound"
    steady,      \* history: the buy was affordable ever since it was asked for,
                 \*   no older reading of the account was under way, no read failed
    moves        \* number of events used up

vars == <<account, resting, cached, fetched, market, order, avail, cancels,
          answer, steady, moves>>

Idle == [stage |-> "idle", side |-> "BID", asked |-> 0, qty |-> 0, price |-> Nothing]

Init ==
    /\ account \in [base : {0, 3}, quote : {3, Purse}]
    /\ resting \in {<<>>, <<2, 1>>}
    /\ cached \in {Nothing, account}
    /\ fetched = Nothing
    /\ market \in Markets
    /\ order = Idle
    /\ avail = Nothing
    /\ cancels = <<>>
    /\ answer = "unbound"
    /\ steady = TRUE
    /\ moves = 0

-----------------------------------------------------------------------------
\* get_available_balance: nothing cached for the profile is no balance at all.
Available(asset) == IF cached = Nothing THEN Nothing ELSE cached[asset]

Buffered(q) == (q * (Whole - 1)) \div Whole
RoundDown(q, step) == IF step <= 0 THEN q ELSE (q \div step) * step

\* _apply_buffer_and_round.
BufferAndRound(q) == RoundDown(Buffered(q), Decimals)

\* _adjust_quantity_to_balance: a sale close to the balance is bounded by it.
AdjustToBalance(q, available) ==
    IF q * Whole <= available * (Whole - 1) THEN q ELSE Buffered(available)

\* MarketInfo.validate_quantity.
ValidQuantity(q) ==
    /\ q >= market.min
    /\ market.max > 0 => q <= market.max
    /\ market.step > 0 => q % market.step = 0

Needed(o) == o.asked * o.price
Affordable(acc) ==
    \/ order.side = "ASK" \/ order.asked = MAX \/ order.price = Nothing
    \/ Needed(order) <= acc.quote

-----------------------------------------------------------------------------
\* The precheck of the signal generator and of the webhook; it reads the cache.
ValidateBalanceForTrade(side) ==
    LET available == Available(IF side = "ASK" THEN "base" ELSE "quote")
    IN  available # Nothing =>
            /\ available > 0
            /\ side = "BID" => available >= Floor
            /\ (side = "ASK" /\ market # Nothing) =>
                  /\ available >= market.min
                  /\ RoundDown(available, market.step) # 0

Ask(side, asked, price) ==
    /\ order.stage = "idle"
    /\ moves < MaxMoves
    /\ ValidateBalanceForTrade(side)
    /\ order' = [stage |-> "asked", side |-> side, asked |-> asked, qty |-> asked,
                 price |-> price]
    /\ steady' = /\ fetched = Nothing
                 /\ side = "BID" /\ asked # MAX /\ price # Nothing
                 /\ asked * price <= account.quote
    /\ moves' = moves + 1
    /\ UNCHANGED <<account, resting, cached, fetched, market, avail, cancels, answer>>

Proceed(stage, q) == order' = [order EXCEPT !.stage = stage, !.qty = q]
Refuse == Proceed("refused", order.qty)

\* _validate_buy_order up to the re-read: unknown balance or price leaves the
\* order as it is, "MAX" spends what is cached.
ValidateBuy ==
    /\ order.stage = "asked" /\ order.side = "BID"
    /\ avail' = Available("quote")
    /\ LET a == Available("quote")
       IN  IF a = Nothing THEN Proceed("valid", order.qty)
           ELSE IF a <= 0 THEN Refuse
           ELSE IF order.price = Nothing THEN Proceed("valid", order.qty)
           ELSE IF order.asked = MAX
                THEN Proceed("valid", BufferAndRound(a \div order.price))
           ELSE IF Needed(order) <= a THEN Proceed("valid", order.qty)
           ELSE Proceed("reread", order.qty)
    /\ UNCHANGED <<account, resting, cached, fetched, market, cancels, answer, steady, moves>>

\* get_balances for one profile.
Balances == account

\* _refresh_balance_cache_after_trade from inside the order: the balances are
\* read and installed; a failure is logged and leaves the cache.
Refreshed(ok) ==
    /\ cached' = IF ok THEN Balances ELSE cached
    /\ steady' = (steady /\ ok)

\* Mutant: the refresh reads an attribute of the response it was not given and
\* ends in its own error handler.
RereadNoOp(ok) ==
    /\ order.stage = "reread"
    /\ steady' = (steady /\ ok)
    /\ Proceed("reread_done", order.qty)
    /\ UNCHANGED <<account, resting, cached, fetched, market, avail, cancels, answer, moves>>

Reread(ok) ==
    /\ order.stage = "reread"
    /\ Refreshed(ok)
    /\ Proceed("reread_done", order.qty)
    /\ UNCHANGED <<account, resting, fetched, market, avail, cancels, answer, moves>>

\* The rest of _validate_buy_order: the better of the two readings pays for the
\* order, or the order shrinks, or it is refused rather than gutted.
Shrink ==
    /\ order.stage = "reread_done"
    /\ LET again == Available("quote")
           a == IF again # Nothing /\ again > avail THEN again ELSE avail
           q == BufferAndRound(a \div order.price)
       IN  /\ avail' = a
           /\ IF Needed(order) <= a THEN Proceed("valid", order.qty)
              ELSE IF q * Gut < order.asked THEN Refuse
              ELSE Proceed("valid", q)
    /\ UNCHANGED <<account, resting, cached, fetched, market, cancels, answer, steady, moves>>

\* _validate_sell_order up to the list of open orders.  Without a balance "MAX"
\* is refused and a number passes as it is.
ValidateSell ==
    /\ order.stage = "asked" /\ order.side = "ASK"
    /\ avail' = Available("base")
    /\ LET a == Available("base")
       IN  IF a = Nothing THEN IF order.asked = MAX THEN Refuse ELSE Proceed("valid", order.qty)
           ELSE IF order.asked = MAX \/ order.asked > a THEN Proceed("list", order.qty)
           ELSE Proceed("settle", order.qty)
    /\ UNCHANGED <<account, resting, cached, fetched, market, cancels, answer, steady, moves>>

\* get_open_orders, kept to the profile's own limit sells: it answers, or the
\* error is swallowed and nothing is cancelled.
ListOpenOrders(ok) ==
    /\ order.stage = "list"
    /\ cancels' = IF ok THEN resting ELSE <<>>
    /\ answer' = "unbound"
    /\ Proceed(IF ok /\ resting # <<>> THEN "cancel" ELSE "settle", order.qty)
    /\ UNCHANGED <<account, resting, cached, fetched, market, avail, steady, moves>>

Without(s, x) == LET i == CHOOSE j \in DOMAIN s : s[j] = x
                 IN  [j \in 1..(Len(s) - 1) |-> IF j < i THEN s[j] ELSE s[j + 1]]
InSeq(s, x) == \E i \in DOMAIN s : s[i] = x

\* What api_request makes of a call: an answer, no answer for a resource the
\* exchange does not know, an error for everything else; it never calls twice.
ApiRequest == {"answered", "unknown", "error"}

\* cancel_order for the next of them: the exchange cancels it and says so, it
\* is not there any more (api_request turns that into no response), or the call
\* fails; a failed call leaves order_response as it was.
CancelNext(how) ==
    /\ order.stage = "cancel" /\ cancels # <<>>
    /\ cancels' = Tail(cancels)
    /\ CASE how = "answered" ->
              /\ InSeq(resting, Head(cancels))
              /\ resting' = Without(resting, Head(cancels))
              /\ account' = [account EXCEPT !.base = @ + Head(cancels)]
              /\ answer' = "bound"
         [] how = "unknown" ->
              /\ ~ InSeq(resting, Head(cancels))
              /\ answer' = "none"
              /\ UNCHANGED <<account, resting>>
         [] how = "error" -> UNCHANGED <<account, resting, answer>>
    /\ UNCHANGED <<cached, fetched, market, order, avail, steady, moves>>

\* After the cancels the balance is read again, but only when the last cancel
\* that did not fail had a response; when all of them failed, order_response
\* has no value and the error handler ends the block with the first reading.
RereadSell(ok) ==
    /\ order.stage = "cancel" /\ cancels = <<>>
    /\ IF answer = "bound" THEN Refreshed(ok) ELSE UNCHANGED <<cached, steady>>
    /\ Proceed("cancelled", order.qty)
    /\ UNCHANGED <<account, resting, fetched, market, avail, cancels, answer, moves>>

AvailableAgain ==
    /\ order.stage = "cancelled"
    /\ avail' = IF answer = "unbound" THEN avail ELSE Available("base")
    /\ Proceed("settle", order.qty)
    /\ UNCHANGED <<account, resting, cached, fetched, market, cancels, answer, steady, moves>>

\* The end of _validate_sell_order.
Settle ==
    /\ order.stage = "settle"
    /\ IF avail <= 0 THEN Refuse
       ELSE Proceed("valid", IF order.asked = MAX THEN Buffered(avail)
                             ELSE AdjustToBalance(order.asked, avail))
    /\ UNCHANGED <<account, resting, cached, fetched, market, avail, cancels, answer,
                   steady, moves>>

\* _validate_market_rules; a "MAX" that met no balance or no price is not a number.
MarketRules ==
    /\ order.stage = "valid"
    /\ LET q == IF order.qty = MAX THEN 0 ELSE RoundDown(order.qty, market.step)
       IN  IF market = Nothing THEN Proceed("ready", order.qty)
           ELSE IF order.qty = MAX \/ q <= 0 \/ ~ ValidQuantity(q) THEN Refuse
           ELSE Proceed("ready", q)
    /\ UNCHANGED <<account, resting, cached, fetched, market, avail, cancels, answer,
                   steady, moves>>

\* The order and the local variables of its validation are gone.
Done == order' = Idle /\ avail' = Nothing /\ cancels' = <<>> /\ answer' = "unbound" /\ steady' = TRUE

\* ExecuteOrder and the books of ProcessMarketOrder: the exchange refuses what
\* it cannot settle, fills the order in whole or in part, or (IOC) not at all.
Settles(o) ==
    /\ o.qty # MAX
    /\ IF o.side = "ASK" THEN o.qty <= account.base
       ELSE o.qty * (IF o.price = Nothing THEN 1 ELSE o.price) <= account.quote

Execute(executed, ok) ==
    /\ order.stage = "ready"
    /\ Settles(order) /\ executed \in 0..order.qty
    /\ LET p == IF order.price = Nothing THEN 1 ELSE order.price
       IN  account' = IF order.side = "ASK"
                      THEN [base |-> account.base - executed, quote |-> account.quote + executed * p]
                      ELSE [base |-> account.base + executed, quote |-> account.quote - executed * p]
    /\ cached' = IF executed > 0 /\ ok THEN account' ELSE cached
    /\ Done
    /\ UNCHANGED <<resting, fetched, market, moves>>

\* A refused order raises or returns None; nothing is booked either way.
Rejected ==
    /\ \/ order.stage = "refused"
       \/ order.stage = "ready" /\ ~ Settles(order)
    /\ Done
    /\ UNCHANGED <<account, resting, cached, fetched, market, moves>>

-----------------------------------------------------------------------------
\* The monitoring thread's get_balances: read first, installed later.
Fetch ==
    /\ fetched = Nothing /\ moves < MaxMoves
    /\ fetched' = Balances
    /\ moves' = moves + 1
    /\ UNCHANGED <<account, resting, cached, market, order, avail, cancels, answer, steady>>

Install ==
    /\ fetched # Nothing
    /\ cached' = fetched
    /\ fetched' = Nothing
    /\ UNCHANGED <<account, resting, market, order, avail, cancels, answer, steady, moves>>

\* Another profile of the account trades, or one of its holds is released.
Elsewhere(asset, amount) ==
    /\ moves < MaxMoves
    /\ account[asset] + amount \in 0..Purse
    /\ account' = [account EXCEPT ![asset] = @ + amount]
    /\ steady' = (steady /\ Affordable(account'))
    /\ moves' = moves + 1
    /\ UNCHANGED <<resting, cached, fetched, market, order, avail, cancels, answer>>

\* A resting sell fills at the exchange.
RestFills ==
    /\ resting # <<>> /\ moves < MaxMoves
    /\ resting' = Tail(resting)
    /\ moves' = moves + 1
    /\ UNCHANGED <<account, cached, fetched, market, order, avail, cancels, answer, steady>>

Next ==
    \/ \E side \in Sides, asked \in Amounts \cup {MAX}, price \in Prices \cup {Nothing} :
          Ask(side, asked, price)
    \/ ValidateBuy \/ ValidateSell \/ Shrink
    \/ \E ok \in BOOLEAN : Reread(ok) \/ ListOpenOrders(ok) \/ RereadSell(ok)
    \/ \E how \in ApiRequest : CancelNext(how)
    \/ AvailableAgain \/ Settle \/ MarketRules \/ Rejected
    \/ \E executed \in 0..Purse, ok \in BOOLEAN : Execute(executed, ok)
    \/ Fetch \/ Install \/ RestFills
    \/ \E asset \in {"base", "quote"}, amount \in {-2, 3} : Elsewhere(asset, amount)

Spec == Init /\ [][Next]_vars

-----------------------------------------------------------------------------
TypeOK ==
    /\ account \in [base : Nat, quote : Nat]
    /\ cached = Nothing \/ cached \in [base : Nat, quote : Nat]
    /\ order.stage \in {"idle", "asked", "reread", "reread_done", "list", "cancel",
                        "cancelled", "settle", "valid", "ready", "refused"}
    /\ answer \in {"unbound", "none", "bound"}
    /\ moves \in 0..MaxMoves

(* A buy the account could pay for ever since it was asked for, by readings   *)
(* that succeed and with no older reading still on its way to the cache, goes *)
(* to the exchange whole (but for the market's step), however stale the       *)
(* cached balance was: the re-read of _validate_buy_order is there because a  *)
(* hold just released was still counted as spent.                             *)
WholeIfAffordable ==
    (order.stage = "ready" /\ steady) =>
        order.qty = IF market = Nothing THEN order.asked ELSE RoundDown(order.asked, market.step)

(* A buy is never more than the asked quantity and, when it shrinks, never    *)
(* gutted: what is sent is more than one part in Gut of it, less a step.      *)
NotGutted ==
    (order.stage = "ready" /\ order.side = "BID" /\ order.asked # MAX) =>
        /\ order.qty <= order.asked
        /\ market # Nothing => (order.qty + market.step) * Gut > order.asked

(* What is sent obeys the market: a positive multiple of the step between its *)
(* bounds; and it asks for no more than the balance that was last read.       *)
SentLawful ==
    (order.stage = "ready" /\ market # Nothing) =>
        /\ order.qty > 0 /\ ValidQuantity(order.qty)
        /\ (order.side = "ASK" /\ avail # Nothing) => order.qty <= avail
        /\ (order.side = "BID" /\ avail # Nothing /\ order.price # Nothing)
              => order.qty * order.price <= avail

(* A "MAX" sell that has cancelled its resting sells sells what they locked   *)
(* ("Re-fetch balance after cancellation").  Not so when the last of them was *)
(* gone from the exchange: there is no response then, and the re-read, which  *)
(* asks for one, is skipped.                                                  *)
SellsReleased ==
    (order.stage = "ready" /\ order.side = "ASK" /\ order.asked = MAX /\ answer = "none"
        /\ market # Nothing)
    => order.qty + market.step >= Buffered(account.base)
=============================================================================
