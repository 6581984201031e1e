----------------------------- MODULE ExitEngine -----------------------------
(***************************************************************************)
(* The exit half of the monitoring loop for the long positions of one      *)
(* symbol in one Backpack spot account: the resting TAKE_PROFIT order of   *)
(* each position, the exits the loop executes itself (an IOC limit sale    *)
(* that may fill in part), the periodic validation against the wallet, and *)
(* the booking of each of them in the positions table.                     *)
(*                                                                         *)
(* Positions are opened by ProcessMarketOrder, in the signal phase of the  *)
(* loop or, with Webhook, in the API's thread at any time.  Quantities are *)
(* in lots, every position buys Lots of them; fees and rounding are below  *)
(* a lot.  When a price triggers an exit is left open.                     *)
(***************************************************************************)
EXTENDS Integers, FiniteSets, FiniteSetsExt

CONSTANTS
    NumPositions, \* bound: positions bought in a behaviour
    Lots,         \* quantity of a position
    MaxOpen,      \* bound: positions open at the same time
    Webhook,      \* TRUE: the API's thread buys as well
    UseTrailing,  \* use_trailing_stop of the profile
    Faults,       \* which of AllFaults may happen
    MaxFaults     \* bound: faults in a behaviour

AllFaults == {"lag", "cancel", "balance", "ack", "external", "db", "crash", "openTerminal"}

ASSUME ExitAssumption ==
    /\ NumPositions \in Nat \ {0}
    /\ Lots \in Nat \ {0} /\ MaxOpen \in Nat
    /\ Webhook \in BOOLEAN /\ UseTrailing \in BOOLEAN
    /\ Faults \subseteq AllFaults /\ MaxFaults \in Nat

Positions == 1 .. NumPositions

VARIABLES
    \* the venue
    free,       \* lots in the wallet that no order locks
    tp,         \* state of each position's TAKE_PROFIT order
    tpQty,      \* its quantity
    tpExec,     \* lots of it executed
    sold,       \* lots sold by the loop's exits of the position
    \* the balance cache: lots available, and lots available or locked
    cacheFree, cacheTotal,
    \* the database
    st,         \* status of the position; "none" before it is bought,
                \* "bought" until its row is committed
    remaining,  \* remaining_quantity
    priced,     \* lots whose profit was added to the position's profit
    row,        \* status of its TAKE_PROFIT row in the orders table
    \* the thread that buys
    bpc, buy,
    \* the monitoring thread
    pc, cur,
    todo,       \* rows, or positions, the phase has still to treat
    loaded,     \* remaining_quantity of cur as the phase read it
    second,     \* TRUE in the second exit of cur in one phase
    sent,       \* quantity of the exit order sent
    done,       \* lots of it executed
    \* faults so far: their number and their kinds
    struck

orders == <<tp, tpQty, tpExec>>
cache == <<cacheFree, cacheTotal>>
book == <<st, remaining, priced>>
buyer == <<bpc, buy>>
exit == <<cur, loaded, second, sent, done>>
vars == <<free, orders, sold, cache, book, row, buyer, pc, todo, exit, struck>>

Strike(f) ==
    /\ f \in Faults /\ struck.count < MaxFaults
    /\ struck' = [count |-> struck.count + 1, kinds |-> struck.kinds \cup {f}]

\* No fault of K has happened so far.
Spared(K) == struck.kinds \cap K = {}

\* The statuses in which _get_profile_orders and the loop take a row for live.
Live == {"New", "PartiallyFilled"}

NoData == -1

\* Lots locked by the resting TAKE_PROFIT orders of the positions in S.
Locked(S) ==
    LET Left(p) == tpQty[p] - tpExec[p]
    IN  MapThenSumSet(Left, {p \in S : tp[p] = "open"})

\* The resting TAKE_PROFIT orders the loop may cancel: those it has a live
\* row for.
Cancellable == {p \in Positions : tp[p] = "open" /\ row[p] \in Live}

Init ==
    /\ free = 0
    /\ tp = [p \in Positions |-> "none"]
    /\ tpQty = [p \in Positions |-> 0] /\ tpExec = [p \in Positions |-> 0]
    /\ sold = [p \in Positions |-> 0]
    /\ cacheFree = NoData /\ cacheTotal = NoData
    /\ st = [p \in Positions |-> "none"]
    /\ remaining = [p \in Positions |-> 0] /\ priced = [p \in Positions |-> 0]
    /\ row = [p \in Positions |-> "none"]
    /\ bpc = "idle" /\ buy = 1
    /\ pc = "sleep" /\ todo = {}
    /\ cur = 1 /\ loaded = 0 /\ second = FALSE /\ sent = 0 /\ done = 0
    /\ struck = [count |-> 0, kinds |-> {}]

-----------------------------------------------------------------------------
(* The venue, the owner of the account, the process.                       *)

FillTakeProfit(p) ==
    /\ tp[p] = "open"
    /\ tpExec' = [tpExec EXCEPT ![p] = @ + 1]
    /\ tp' = [tp EXCEPT ![p] = IF tpExec[p] + 1 = tpQty[p] THEN "Filled" ELSE @]
    /\ UNCHANGED <<free, tpQty, sold, cache, book, row, buyer, pc, todo, exit, struck>>

\* The owner cancels a TAKE_PROFIT order, or sells, outside the program.
ExternalCancel(p) ==
    /\ Strike("external")
    /\ tp[p] = "open"
    /\ tp' = [tp EXCEPT ![p] = "Cancelled"]
    /\ free' = free + tpQty[p] - tpExec[p]
    /\ UNCHANGED <<tpQty, tpExec, sold, cache, book, row, buyer, pc, todo, exit>>

ExternalSale ==
    /\ Strike("external")
    /\ free > 0
    /\ free' = free - 1
    /\ UNCHANGED <<orders, sold, cache, book, row, buyer, pc, todo, exit>>

Restart ==
    /\ Strike("crash")
    /\ cacheFree' = NoData /\ cacheTotal' = NoData
    /\ bpc' = "idle"
    /\ pc' = "sleep" /\ todo' = {} /\ second' = FALSE
    /\ UNCHANGED <<free, orders, sold, book, row, buy, cur, loaded, sent, done>>

\* _refresh_balance_cache_after_trade and _monitor_balances: the venue's
\* balances replace the cached ones, unless the request fails.
RefreshBalances ==
    \/ /\ cacheFree' = free' /\ cacheTotal' = free' + Locked(Positions)'
       /\ UNCHANGED struck
    \/ Strike("balance") /\ UNCHANGED cache

-----------------------------------------------------------------------------
(* Opening a position: ProcessMarketOrder on an entry, then                *)
(* create_limit_order for its TAKE_PROFIT.                                 *)

\* The loop buys in its signal phase only, the API's thread at any time.
BuyExecutes(p) ==
    /\ bpc = "idle" /\ (pc = "signals" \/ Webhook)
    /\ st[p] = "none" /\ \A q \in Positions : q < p => st[q] # "none"
    /\ Cardinality({q \in Positions : st[q] = "OPEN"}) < MaxOpen
    /\ free' = free + Lots
    /\ st' = [st EXCEPT ![p] = "bought"]
    /\ buy' = p
    /\ bpc' = "bought"
    /\ UNCHANGED <<orders, sold, cache, remaining, priced, row, pc, todo, exit, struck>>

\* save_trade and open_position.
BuyBooked ==
    /\ bpc = "bought"
    /\ st' = [st EXCEPT ![buy] = "OPEN"]
    /\ remaining' = [remaining EXCEPT ![buy] = Lots]
    /\ bpc' = "booked"
    /\ UNCHANGED <<free, orders, sold, cache, priced, row, buy, pc, todo, exit, struck>>

\* Half a second later the balances are refreshed.
BuyRefreshed ==
    /\ bpc = "booked"
    /\ bpc' = "refreshed"
    /\ UNCHANGED <<free, orders, sold, book, row, buy, pc, todo, exit>>
    /\ RefreshBalances

\* How much of a sale of want lots the cached balance covers.
Sellable(want) ==
    IF cacheFree = NoData \/ want <= cacheFree THEN want ELSE cacheFree

\* create_limit_order: like every sale it is sized to the cached balance, and
\* cancels the resting sales when that is short.  The venue rests it, or
\* refuses what the wallet does not hold.
RestTakeProfit ==
    /\ bpc = "refreshed"
    /\ LET short == cacheFree # NoData /\ cacheFree < Lots /\ Cancellable # {}
           left  == IF short THEN free + Locked(Cancellable) ELSE free
           qty   == IF short THEN IF left < Lots THEN left ELSE Lots
                             ELSE Sellable(Lots)
           rests == 0 < qty /\ qty <= left
       IN  /\ free' = IF rests THEN left - qty ELSE left
           /\ tp' = [p \in Positions |->
                       CASE p = buy /\ rests -> "open"
                         [] short /\ p \in Cancellable -> "Cancelled"
                         [] OTHER -> tp[p]]
           /\ tpQty' = IF rests THEN [tpQty EXCEPT ![buy] = qty] ELSE tpQty
           /\ bpc' = IF rests THEN "resting" ELSE "idle"
           /\ UNCHANGED <<tpExec, sold, book, row, buy, pc, todo, exit>>
           /\ IF short THEN RefreshBalances ELSE UNCHANGED <<cache, struck>>

\* Mutant of TakeProfitSaved: the order is not saved.
TakeProfitUnsaved ==
    /\ bpc = "resting"
    /\ bpc' = "idle"
    /\ UNCHANGED <<free, orders, sold, book, row, buy, pc, todo, exit>>
    /\ RefreshBalances

\* save_order, and the refresh that ends ProcessMarketOrder.
TakeProfitSaved ==
    /\ bpc = "resting"
    /\ row' = [row EXCEPT ![buy] = "New"]
    /\ bpc' = "idle"
    /\ UNCHANGED <<free, orders, sold, book, buy, pc, todo, exit>>
    /\ RefreshBalances

\* A write of the entry fails: the failure is logged, nothing follows it.
BuyWriteFails ==
    /\ Strike("db")
    /\ bpc \in {"bought", "resting"}
    /\ bpc' = "idle"
    /\ UNCHANGED <<free, orders, sold, cache, book, row, buy, pc, todo, exit>>

-----------------------------------------------------------------------------
(* One iteration of the loop: the balances, _monitor_orders with           *)
(* process_limit_order, _monitor_open_positions with _execute_close,       *)
(* _validate_open_positions, and the signals.                              *)

BeginCycle ==
    /\ pc = "sleep"
    /\ pc' = "orders"
    /\ todo' = {p \in Positions : row[p] \in Live}
    /\ UNCHANGED <<free, orders, sold, book, row, buyer, exit>>
    /\ RefreshBalances

\* Mutant of CheckTakeProfit: the row follows the venue, whatever it says.
CheckTakeProfitUnbooked(p) ==
    /\ pc = "orders" /\ p \in todo
    /\ todo' = todo \ {p}
    /\ row' = [row EXCEPT ![p] = IF tp[p] # "open" THEN tp[p]
                                ELSE IF tpExec[p] = 0 THEN "New" ELSE "PartiallyFilled"]
    /\ UNCHANGED <<free, orders, sold, cache, book, buyer, pc, exit, struck>>

\* The row follows what the venue says of a TAKE_PROFIT order: an open one is
\* found by the open-order endpoint, one that ended in the history.  A fill of
\* the history is booked before the row is.
CheckTakeProfit(p) ==
    /\ pc = "orders" /\ p \in todo
    /\ todo' = todo \ {p}
    /\ \/ /\ tp[p] = "open"
          /\ row' = [row EXCEPT ![p] = IF tpExec[p] = 0 THEN "New" ELSE "PartiallyFilled"]
          /\ UNCHANGED <<pc, cur>>
       \/ /\ tp[p] = "Cancelled"
          /\ row' = [row EXCEPT ![p] = "Cancelled"]
          /\ UNCHANGED <<pc, cur>>
       \/ /\ tp[p] = "Filled"
          /\ pc' = "bookFill" /\ cur' = p
          /\ UNCHANGED row
    /\ UNCHANGED <<free, orders, sold, cache, book, buyer, loaded, second, sent, done, struck>>

\* A query fails, or the history does not know the order yet.
CheckFails(p) ==
    /\ Strike("lag")
    /\ pc = "orders" /\ p \in todo
    /\ todo' = todo \ {p}
    /\ UNCHANGED <<free, orders, sold, cache, book, row, buyer, pc, exit>>

\* The open-order endpoint itself answers with the filled order: its row takes
\* the status and nothing is booked.  _monitor_orders goes on to announce the
\* close, and the answer lacks what the message names (executedQuantity): the
\* exception ends the iteration.
AnsweredAsFilled(p) ==
    /\ Strike("openTerminal")
    /\ pc = "orders" /\ p \in todo /\ tp[p] = "Filled"
    /\ row' = [row EXCEPT ![p] = "Filled"]
    /\ pc' = "sleep" /\ todo' = {}
    /\ UNCHANGED <<free, orders, sold, cache, book, buyer, exit>>

\* close_position: whatever the position's status, the profit on its
\* remaining quantity, or on its whole quantity when nothing remains.
Close(p) ==
    /\ st' = [st EXCEPT ![p] = "CLOSED"]
    /\ priced' = [priced EXCEPT ![p] = @ + IF remaining[p] = 0 THEN Lots ELSE remaining[p]]
    /\ remaining' = [remaining EXCEPT ![p] = 0]

\* save_limit_trade and close_position.
BookFill ==
    /\ pc = "bookFill"
    /\ Close(cur)
    /\ pc' = "markFilled"
    /\ UNCHANGED <<free, orders, sold, cache, row, buyer, todo, exit, struck>>

MarkFilled ==
    /\ pc = "markFilled"
    /\ row' = [row EXCEPT ![cur] = "Filled"]
    /\ pc' = "orders"
    /\ UNCHANGED <<free, orders, sold, cache, book, buyer, todo, exit, struck>>

FillWriteFails ==
    /\ Strike("db")
    /\ pc \in {"bookFill", "markFilled"}
    /\ pc' = "orders"
    /\ UNCHANGED <<free, orders, sold, cache, book, row, buyer, todo, exit>>

\* The open positions are read once, before the first of them is treated.
BeginPositions ==
    /\ pc = "orders" /\ todo = {}
    /\ pc' = "positions"
    /\ todo' = {p \in Positions : st[p] = "OPEN"}
    /\ UNCHANGED <<free, orders, sold, cache, book, row, buyer, exit, struck>>

HoldPosition(p) ==
    /\ pc = "positions" /\ p \in todo
    /\ todo' = todo \ {p}
    /\ UNCHANGED <<free, orders, sold, cache, book, row, buyer, pc, exit, struck>>

\* A take-profit, stop-loss, trailing, trend or staleness rule fires.
TriggerExit(p) ==
    /\ pc = "positions" /\ p \in todo
    /\ todo' = todo \ {p}
    /\ cur' = p /\ loaded' = remaining[p] /\ second' = FALSE
    /\ pc' = "exitCancel"
    /\ UNCHANGED <<free, orders, sold, cache, book, row, buyer, sent, done, struck>>

\* _validate_sell_order: a balance short of the quantity makes it cancel the
\* profile's resting sales of the symbol.
ExitCancel ==
    /\ pc = "exitCancel"
    /\ IF cacheFree # NoData /\ cacheFree < loaded /\ Cancellable # {}
       THEN /\ free' = free + Locked(Cancellable)
            /\ tp' = [p \in Positions |-> IF p \in Cancellable THEN "Cancelled" ELSE tp[p]]
            /\ pc' = "exitRefresh"
       ELSE /\ pc' = "exitSend"
            /\ UNCHANGED <<free, tp>>
    /\ UNCHANGED <<tpQty, tpExec, sold, cache, book, row, buyer, todo, exit, struck>>

\* Listing or cancelling them fails: it is logged, and nothing is refreshed.
ExitCancelFails ==
    /\ Strike("cancel")
    /\ pc = "exitCancel" /\ cacheFree # NoData /\ cacheFree < loaded
    /\ pc' = "exitSend"
    /\ UNCHANGED <<free, orders, sold, cache, book, row, buyer, todo, exit>>

ExitRefresh ==
    /\ pc = "exitRefresh"
    /\ pc' = "exitSend"
    /\ UNCHANGED <<free, orders, sold, book, row, buyer, todo, exit>>
    /\ RefreshBalances

\* _execute_close is over.  Only the trailing-stop branch goes on to the
\* other rules with the same position.
ExitReturns == pc' = IF UseTrailing /\ ~second THEN "again" ELSE "positions"

\* No balance, or the venue refuses: order_sell returns None.
ExitRefused ==
    /\ pc = "exitSend"
    /\ ExitReturns
    /\ UNCHANGED <<free, orders, sold, cache, book, row, buyer, todo, exit, struck>>

\* The IOC sale executes k lots, none when no bid is above its floor.
ExitExecutes(k) ==
    /\ pc = "exitSend"
    /\ LET qty == Sellable(loaded)
       IN  /\ qty > 0 /\ qty <= free /\ k <= qty
           /\ free' = free - k
           /\ sold' = [sold EXCEPT ![cur] = @ + k]
           /\ sent' = qty /\ done' = k
    /\ \/ k = 0 /\ ExitReturns /\ UNCHANGED struck
       \/ k > 0 /\ pc' = "exitBook" /\ UNCHANGED struck
       \/ k > 0 /\ Strike("ack") /\ ExitReturns  \* the answer is lost: None
    /\ UNCHANGED <<orders, cache, book, row, buyer, todo, cur, loaded, second>>

\* Mutant of ExitBooked: a partial exit does not shrink the position.
ExitBookedUnreduced ==
    /\ pc = "exitBook"
    /\ \/ /\ done < sent
          /\ priced' = [priced EXCEPT ![cur] = @ + done]
          /\ UNCHANGED <<st, remaining>>
       \/ done = sent /\ Close(cur)
    /\ ExitReturns
    /\ UNCHANGED <<free, orders, sold, row, buyer, todo, exit>>
    /\ RefreshBalances

\* save_trade, then reduce_position or close_position, then a refresh.
ExitBooked ==
    /\ pc = "exitBook"
    /\ \/ /\ done < sent
          /\ remaining' = [remaining EXCEPT ![cur] = IF @ < done THEN 0 ELSE @ - done]
          /\ priced' = [priced EXCEPT ![cur] = @ + done]
          /\ UNCHANGED st
       \/ done = sent /\ Close(cur)
    /\ ExitReturns
    /\ UNCHANGED <<free, orders, sold, row, buyer, todo, exit>>
    /\ RefreshBalances

\* A write fails: it is logged, and the sale is returned as executed.
ExitWriteFails ==
    /\ Strike("db")
    /\ pc = "exitBook"
    /\ ExitReturns
    /\ UNCHANGED <<free, orders, sold, cache, book, row, buyer, todo, exit>>

\* After the trailing stop the trend and staleness rules still see the
\* position as it was loaded.
SecondExit ==
    /\ pc = "again"
    /\ second' = TRUE
    /\ pc' \in {"positions", "exitCancel"}
    /\ UNCHANGED <<free, orders, sold, cache, book, row, buyer, todo, cur, loaded, sent, done, struck>>

\* Mutant of Gone: lots locked by a resting order are not counted.
GoneAvailableOnly(p) == cacheFree # NoData /\ 100 * cacheFree < remaining[p]

\* Less than 1 % of the expected quantity is left, by the cached balance.
Gone(p) == cacheTotal # NoData /\ 100 * cacheTotal < remaining[p]

\* Every N-th iteration.
Validate ==
    /\ pc = "positions" /\ todo = {}
    /\ st' = [p \in Positions |-> IF st[p] = "OPEN" /\ Gone(p) THEN "CLOSED" ELSE st[p]]
    /\ pc' = "signals"
    /\ UNCHANGED <<free, orders, sold, cache, remaining, priced, row, buyer, todo, exit, struck>>

SkipValidate ==
    /\ pc = "positions" /\ todo = {}
    /\ pc' = "signals"
    /\ UNCHANGED <<free, orders, sold, cache, book, row, buyer, todo, exit, struck>>

\* A position the loop itself buys is complete before the loop goes on.
EndCycle ==
    /\ pc = "signals" /\ (bpc = "idle" \/ Webhook)
    /\ pc' = "sleep"
    /\ UNCHANGED <<free, orders, sold, cache, book, row, buyer, todo, exit, struck>>

-----------------------------------------------------------------------------
Monitor ==
    \/ BeginCycle \/ BookFill \/ MarkFilled \/ FillWriteFails \/ BeginPositions
    \/ \E p \in Positions :
          \/ CheckTakeProfit(p) \/ CheckFails(p) \/ AnsweredAsFilled(p)
          \/ HoldPosition(p) \/ TriggerExit(p)
    \/ ExitCancel \/ ExitCancelFails \/ ExitRefresh \/ ExitRefused
    \/ \E k \in 0 .. Lots : ExitExecutes(k)
    \/ ExitBooked \/ ExitWriteFails \/ SecondExit
    \/ Validate \/ SkipValidate \/ EndCycle

Buyer ==
    BuyBooked \/ BuyRefreshed \/ RestTakeProfit \/ TakeProfitSaved \/ BuyWriteFails

Environment ==
    \/ \E p \in Positions : FillTakeProfit(p) \/ ExternalCancel(p) \/ BuyExecutes(p)
    \/ ExternalSale \/ Restart

Next == Monitor \/ Buyer \/ Environment

\* Both threads keep running.
Fairness == WF_vars(Monitor) /\ WF_vars(Buyer)

Spec == Init /\ [][Next]_vars

FairSpec == Spec /\ Fairness

-----------------------------------------------------------------------------
(* Properties.                                                             *)

TypeOK ==
    /\ free \in Nat
    /\ tp \in [Positions -> {"none", "open", "Filled", "Cancelled"}]
    /\ tpQty \in [Positions -> 0 .. Lots] /\ tpExec \in [Positions -> 0 .. Lots]
    /\ sold \in [Positions -> Nat]
    /\ cacheFree \in Nat \cup {NoData} /\ cacheTotal \in Nat \cup {NoData}
    /\ st \in [Positions -> {"none", "bought", "OPEN", "CLOSED"}]
    /\ remaining \in [Positions -> 0 .. Lots] /\ priced \in [Positions -> Nat]
    /\ row \in [Positions -> Live \cup {"none", "Filled", "Cancelled"}]
    /\ bpc \in {"idle", "bought", "booked", "refreshed", "resting"} /\ buy \in Positions
    /\ pc \in {"sleep", "orders", "bookFill", "markFilled", "positions", "exitCancel",
               "exitRefresh", "exitSend", "exitBook", "again", "signals"}
    /\ todo \subseteq Positions /\ cur \in Positions
    /\ loaded \in 0 .. Lots /\ second \in BOOLEAN
    /\ sent \in 0 .. Lots /\ done \in 0 .. Lots
    /\ struck \in [count : Nat, kinds : SUBSET AllFaults]

\* "Profit on what is left, plus anything realised by earlier partial exits":
\* the profit of a position never covers more lots than it bought.
ProfitOnce == \A p \in Positions : priced[p] <= Lots

\* With one position at a time on the symbol that holds, whatever the owner
\* does and the venue forgets to answer, until a balance request or a write
\* fails or the process crashes.
PricedOnce == Spared({"balance", "db", "crash"}) => ProfitOnce

\* Profit is booked only for lots that were sold, by one of the position's
\* exits or its TAKE_PROFIT order, until in addition the owner trades by hand.
PricedIsSold ==
    Spared({"balance", "db", "crash", "external"}) =>
        \A p \in Positions : priced[p] <= tpExec[p] + sold[p]

\* The position is closed, and its profit covers what its order executed.
Booked(p) == st[p] = "CLOSED" /\ priced[p] >= tpExec[p]

\* "The exit trade was booked inside process_limit_order": of an order marked
\* filled.  Not so after such an answer, which leaves the position open, its
\* tokens sold.
FilledIsBooked == \A p \in Positions : row[p] = "Filled" => Booked(p)

\* No other fault, and no order of the steps, comes between a fill and its profit.
FillsPriced == Spared({"openTerminal"}) => FilledIsBooked

\* The profit of a position is booked once, for lots that were sold, and not
\* missed when its order fills.
BookedOnce == PricedOnce /\ PricedIsSold /\ FillsPriced

\* A position never sells more than it bought: its exits do not sell what
\* another position, or nobody, holds.
NoPoach ==
    Spared({"balance", "db", "crash"}) =>
        \A p \in Positions : tpExec[p] + sold[p] <= Lots

\* The lots of an open position that are not sold are within its reach: free,
\* or locked by an order the loop has a live row for and so may cancel.
Covered ==
    bpc = "idle" /\ Spared({"db", "crash", "external"}) =>
        MapThenSumSet(LAMBDA p : Lots - tpExec[p] - sold[p],
                      {p \in Positions : st[p] = "OPEN"})
            <= free + Locked(Cancellable)

\* A closed position leaves no sale resting at the venue.
NoOrphanSale ==
    Spared({"balance", "db", "crash"}) =>
        \A p \in Positions : st[p] = "CLOSED" => tp[p] # "open"

\* What an open position has left an exit can reach, and a closed one rests nothing.
InReach == Covered /\ NoOrphanSale

\* "Close positions where the token has been closed externally but our DB
\* wasn't updated": validation closes no position whose lots are still held,
\* but while the API's thread has bought and not yet refreshed the balances,
\* and as long as no balance request and no write has failed.
ValidationKeeps ==
    \A p \in Positions :
        /\ Validate /\ st[p] = "OPEN" /\ st'[p] = "CLOSED"
        /\ Spared({"balance", "db"}) /\ bpc \notin {"bought", "booked"}
        => 100 * (free + Locked(Positions)) < remaining[p]

ValidationSound == [][ValidationKeeps]_vars

\* A filled TAKE_PROFIT order that has a live row is eventually booked and its
\* row marked, whatever fails or crashes on the way; only marked, possibly, once
\* the open-order endpoint has answered with a filled order.
FillBooked ==
    \A p \in Positions :
        (row[p] \in Live /\ tp[p] = "Filled")
            ~> row[p] = "Filled" /\ (Booked(p) \/ ~Spared({"openTerminal"}))

=============================================================================
