----------------------------- MODULE MakerEntry -----------------------------
(***************************************************************************)
(* The entry half of the monitoring loop for one profile in                *)
(* "maker_then_taker" mode: a signal rests a PostOnly limit order, later   *)
(* iterations reconcile the order against the venue, and a timed-out order *)
(* is cancelled and replaced by a market order.  One signal acted on is an *)
(* "entry"; its maker order, its row in the orders table and the position  *)
(* rows booked for it carry the entry's number.                            *)
(*                                                                         *)
(* The monitoring thread runs one step at a time (pc); the venue, the      *)
(* clock and a crash of the process interleave with it between any two     *)
(* steps.  The clock advances only while the loop sleeps: an iteration is  *)
(* shorter than the unit of time.                                          *)
(***************************************************************************)
EXTENDS Integers, FiniteSets

CONSTANTS
    Symbols,      \* the profile's symbols
    Sides,        \* the sides its signals may have: subset of {"BID", "ASK"}
    MaxEntries,   \* bound: signals acted on in a behaviour
    Lots,         \* size of an entry order, in lots
    Timeout,      \* maker_timeout_sec, in units of time
    Cooldown,     \* signal_cooldown_minutes, in units of time
    MaxOpen,      \* max_open_positions: open positions per symbol
    Faults,       \* which of AllFaults may happen
    MaxFaults     \* bound: faults in a behaviour

AllFaults == {"query", "lag", "openTerminal", "cancel", "ack", "tp", "db", "crash"}

ASSUME MakerAssumption ==
    /\ Symbols # {}
    /\ Sides \subseteq {"BID", "ASK"} /\ Sides # {}
    /\ MaxEntries \in Nat /\ Lots \in Nat \ {0}
    /\ Timeout \in Nat /\ Cooldown \in Nat /\ MaxOpen \in Nat \ {0}
    /\ Faults \subseteq AllFaults /\ MaxFaults \in Nat

Entries == 1 .. MaxEntries

VARIABLES
    \* the venue
    exch,       \* state of each entry's maker order
    exec,       \* lots of it executed
    takerExec,  \* market orders executed at the venue for the entry
    \* the database
    ord,        \* status column of the entry's orders row, "none" without a row
    rows,       \* position rows booked from the maker fill
    booked,     \* lots recorded in those rows
    takerRows,  \* position rows booked from the market order
    open,       \* OPEN positions of each symbol
    dbCool,     \* cooldown left, counted from the newest position's created_at
    \* what an entry was created with, and the age of its order
    used, symOf, side, age,
    \* memory of the monitoring thread
    cool,       \* cooldown left, counted from _last_signals
    pc, pass, outcome, cur, todo, scan,
    \* faults so far: their number and their kinds
    struck

venue == <<exch, exec, takerExec>>
ledger == <<rows, booked, takerRows, open, dbCool>>
entry == <<used, symOf, side>>
local == <<pass, outcome, cur, todo, scan>>
vars == <<venue, ord, ledger, entry, age, cool, pc, local, struck>>

\* Fault f happens in this step.
Strike(f) ==
    /\ f \in Faults /\ struck.count < MaxFaults
    /\ struck' = [count |-> struck.count + 1, kinds |-> struck.kinds \cup {f}]

\* No fault of K has happened so far.
Spared(K) == struck.kinds \cap K = {}

ExchStates == {"none", "open", "Filled", "Cancelled", "Expired"}
Terminal == {"Filled", "Cancelled", "Expired"}
\* ACTIVE_ORDER_STATUSES: the rows the loop still tracks.  No ENTRY row is
\* ever written with one of the other two active statuses.
Active == {"New"}
OrderStatuses == Active \cup Terminal \cup {"none"}

Sym == symOf[cur]

Init ==
    /\ exch = [e \in Entries |-> "none"]
    /\ exec = [e \in Entries |-> 0]
    /\ takerExec = [e \in Entries |-> 0]
    /\ ord = [e \in Entries |-> "none"]
    /\ rows = [e \in Entries |-> 0]
    /\ booked = [e \in Entries |-> 0]
    /\ takerRows = [e \in Entries |-> 0]
    /\ open = [s \in Symbols |-> 0]
    /\ dbCool = [s \in Symbols |-> 0]
    /\ used = 0
    /\ symOf = [e \in Entries |-> CHOOSE s \in Symbols : TRUE]
    /\ side = [e \in Entries |-> CHOOSE d \in Sides : TRUE]
    /\ age = [e \in Entries |-> 0]
    /\ cool = [s \in Symbols |-> 0]
    /\ pc = "sleep"
    /\ pass = "first" /\ outcome = "resting" /\ cur = 0
    /\ todo = {} /\ scan = {}
    /\ struck = [count |-> 0, kinds |-> {}]

-----------------------------------------------------------------------------
(* The venue, the clock, the process.                                      *)

\* A lot of a resting order trades.
Fill(e) ==
    /\ exch[e] = "open"
    /\ exec' = [exec EXCEPT ![e] = @ + 1]
    /\ exch' = [exch EXCEPT ![e] = IF exec[e] + 1 = Lots THEN "Filled" ELSE @]
    /\ UNCHANGED <<takerExec, ord, ledger, entry, age, cool, pc, local, struck>>

\* The venue ends a resting order by itself.
VenueEnds(e) ==
    /\ exch[e] = "open"
    /\ \E st \in {"Cancelled", "Expired"} : exch' = [exch EXCEPT ![e] = st]
    /\ UNCHANGED <<exec, takerExec, ord, ledger, entry, age, cool, pc, local, struck>>

Less(n) == IF n = 0 THEN 0 ELSE n - 1

Tick ==
    /\ pc = "sleep"
    /\ age' = [e \in Entries |->
                 IF ord[e] \in Active /\ age[e] < Timeout THEN age[e] + 1 ELSE age[e]]
    /\ cool' = [s \in Symbols |-> Less(cool[s])]
    /\ dbCool' = [s \in Symbols |-> Less(dbCool[s])]
    /\ UNCHANGED <<venue, ord, rows, booked, takerRows, open, entry, pc, local, struck>>

\* The process dies and is restarted: the thread's memory is lost and the
\* cooldowns are rebuilt from the newest position of each symbol.
Restart ==
    /\ Strike("crash")
    /\ pc' = "sleep"
    /\ cool' = dbCool
    /\ pass' = "first" /\ outcome' = "resting" /\ cur' = 0
    /\ todo' = {} /\ scan' = {}
    /\ UNCHANGED <<venue, ord, ledger, entry, age>>

-----------------------------------------------------------------------------
(* The order phase of an iteration: _monitor_orders and, for one order,    *)
(* _reconcile_maker_entry around reconcile_entry_order.                    *)

\* The rows are read once, at the start of the phase.
BeginCycle ==
    /\ pc = "sleep"
    /\ pc' = "orders"
    /\ todo' = {e \in Entries : ord[e] \in Active}
    /\ UNCHANGED <<venue, ord, ledger, entry, age, cool, pass, outcome, cur, scan, struck>>

\* Oldest first.
PickOrder ==
    /\ pc = "orders"
    /\ \E e \in todo :
          /\ \A f \in todo : e <= f
          /\ cur' = e
          /\ todo' = todo \ {e}
    /\ pass' = "first"
    /\ pc' = "query"
    /\ UNCHANGED <<venue, ord, ledger, entry, age, cool, outcome, scan, struck>>

EndOrders ==
    /\ pc = "orders" /\ todo = {}
    /\ pc' = "positions"
    /\ UNCHANGED <<venue, ord, ledger, entry, age, cool, local, struck>>

\* reconcile_entry_order returns o to its caller.
Return(o) ==
    /\ outcome' = o
    /\ pc' = "outcome"
    /\ UNCHANGED <<pass, cur, todo, scan>>

\* get_single_order: an order still in the book, whatever it has executed,
\* is "resting"; one the endpoint does not know is looked up in the history.
QueryOpen ==
    /\ pc = "query"
    /\ \/ exch[cur] = "open" /\ Return("resting")
       \/ exch[cur] # "open" /\ pc' = "history" /\ UNCHANGED local
    /\ UNCHANGED <<venue, ord, ledger, entry, age, cool, struck>>

\* Either endpoint fails: the exception ends the call as "resting".
QueryFails ==
    /\ Strike("query")
    /\ pc \in {"query", "history"}
    /\ Return("resting")
    /\ UNCHANGED <<venue, ord, ledger, entry, age, cool>>

\* The fill branch is taken with the snapshot of the single-order endpoint:
\* save_trade has no parameter "source", and the TypeError ends the call.
BookOpenSnapshot ==
    /\ Strike("openTerminal")
    /\ pc = "query" /\ exch[cur] \in Terminal /\ exec[cur] > 0
    /\ Return("resting")
    /\ UNCHANGED <<venue, ord, ledger, entry, age, cool>>

\* Neither endpoint knows the order (the history lags behind the book).
NotFound ==
    /\ Strike("lag")
    /\ pc = "history"
    /\ Return("gone")
    /\ UNCHANGED <<venue, ord, ledger, entry, age, cool>>

\* Mutant of HasFill: an order that ended after a partial fill counts as gone.
HasFillWholeOnly(e) == exch[e] = "Filled"

HasFill(e) == exch[e] = "Filled" \/ (exec[e] > 0 /\ exch[e] \in {"Cancelled", "Expired"})

\* The history reports a fill, or an end with nothing executed.
ReadHistory ==
    /\ pc = "history" /\ exch[cur] \in Terminal
    /\ \/ HasFill(cur) /\ pc' = "book" /\ UNCHANGED <<ord, local>>
       \/ /\ ~HasFill(cur)
          /\ ord' = [ord EXCEPT ![cur] = exch[cur]]
          /\ Return("gone")
    /\ UNCHANGED <<venue, ledger, entry, age, cool, struck>>

\* save_limit_trade and open_position: the position is committed.
BookFill ==
    /\ pc = "book"
    /\ rows' = [rows EXCEPT ![cur] = @ + 1]
    /\ booked' = [booked EXCEPT ![cur] = @ + exec[cur]]
    /\ open' = [open EXCEPT ![Sym] = @ + 1]
    /\ dbCool' = [dbCool EXCEPT ![Sym] = Cooldown]
    /\ pc' = IF side[cur] = "BID" THEN "tp" ELSE "mark"
    /\ UNCHANGED <<venue, ord, takerRows, entry, age, cool, local, struck>>

\* A long position gets a TAKE_PROFIT order.
RestTakeProfit ==
    /\ pc = "tp"
    /\ pc' = "mark"
    /\ UNCHANGED <<venue, ord, ledger, entry, age, cool, local, struck>>

\* create_limit_order raises (the balance read after the fill is stale, a
\* market rule refuses the quantity): the exception ends the call.
TakeProfitRaises ==
    /\ Strike("tp")
    /\ pc = "tp"
    /\ Return("resting")
    /\ UNCHANGED <<venue, ord, ledger, entry, age, cool>>

MarkFilled ==
    /\ pc = "mark"
    /\ ord' = [ord EXCEPT ![cur] = "Filled"]
    /\ Return("filled")
    /\ UNCHANGED <<venue, ledger, entry, age, cool, struck>>

\* A write of the call fails before it commits.
WriteFails ==
    /\ Strike("db")
    /\ \/ pc \in {"book", "mark"}
       \/ pc = "history" /\ exch[cur] \in Terminal /\ ~HasFill(cur)
    /\ Return("resting")
    /\ UNCHANGED <<venue, ord, ledger, entry, age, cool>>

\* Mutant of Settle: the timeout is never acted on.
SettleNeverTimesOut ==
    /\ pc = "outcome" /\ pass = "first"
    /\ pc' = "orders"
    /\ cool' = IF outcome = "gone" THEN [cool EXCEPT ![Sym] = 0] ELSE cool
    /\ UNCHANGED <<venue, ord, ledger, entry, age, local, struck>>

\* The caller's three branches on the first call.
Settle ==
    /\ pc = "outcome" /\ pass = "first"
    /\ \/ outcome = "filled" /\ pc' = "orders" /\ UNCHANGED cool
       \/ outcome = "gone" /\ pc' = "orders" /\ cool' = [cool EXCEPT ![Sym] = 0]
       \/ /\ outcome = "resting"
          /\ pc' = IF age[cur] < Timeout THEN "orders" ELSE "cancel"
          /\ UNCHANGED cool
    /\ UNCHANGED <<venue, ord, ledger, entry, age, local, struck>>

\* Timed out: cancel, whatever the venue answers, and reconcile once more.
CancelMaker ==
    /\ pc = "cancel"
    /\ \/ /\ exch' = [exch EXCEPT ![cur] = IF @ = "open" THEN "Cancelled" ELSE @]
          /\ UNCHANGED struck
       \/ Strike("cancel") /\ UNCHANGED exch
    /\ pass' = "recheck"
    /\ pc' = "query"
    /\ UNCHANGED <<exec, takerExec, ord, ledger, entry, age, cool, outcome, cur, todo, scan>>

\* A fill raced the cancel: no market order.
SettleRecheck ==
    /\ pc = "outcome" /\ pass = "recheck"
    /\ pc' = IF outcome = "filled" THEN "orders" ELSE "markCancelled"
    /\ UNCHANGED <<venue, ord, ledger, entry, age, cool, local, struck>>

MarkCancelled ==
    /\ pc = "markCancelled"
    /\ \/ ord' = [ord EXCEPT ![cur] = "Cancelled"] /\ UNCHANGED struck
       \/ Strike("db") /\ UNCHANGED ord
    /\ pc' = "taker"
    /\ UNCHANGED <<venue, ledger, entry, age, cool, local>>

-----------------------------------------------------------------------------
(* The market order: the fallback of a timed-out maker order, or of one    *)
(* that never rested.  Where it returns to depends on the pass.            *)

TakerReturn == pc' = IF pass = "entry" THEN "signals" ELSE "orders"

TakerExecutes ==
    /\ pc = "taker"
    /\ takerExec' = [takerExec EXCEPT ![cur] = @ + 1]
    /\ pc' = "takerBook"
    /\ UNCHANGED <<exch, exec, ord, ledger, entry, age, cool, local, struck>>

\* Refused before or by the venue: no entry was opened, the cooldown goes.
TakerRefused ==
    /\ pc = "taker"
    /\ TakerReturn
    /\ cool' = IF pass = "entry" THEN cool ELSE [cool EXCEPT ![Sym] = 0]
    /\ UNCHANGED <<venue, ord, ledger, entry, age, local, struck>>

\* ProcessMarketOrder's bookkeeping.  A failure is logged and the order is
\* returned as executed all the same.
TakerBooked ==
    /\ pc = "takerBook"
    /\ \/ /\ takerRows' = [takerRows EXCEPT ![cur] = @ + 1]
          /\ open' = [open EXCEPT ![Sym] = @ + 1]
          /\ dbCool' = [dbCool EXCEPT ![Sym] = Cooldown]
          /\ UNCHANGED struck
       \/ Strike("db") /\ UNCHANGED <<takerRows, open, dbCool>>
    /\ TakerReturn
    /\ cool' = IF pass = "entry" THEN [cool EXCEPT ![Sym] = Cooldown] ELSE cool
    /\ UNCHANGED <<venue, ord, rows, booked, entry, age, local>>

-----------------------------------------------------------------------------
(* The position phase, reduced to what an entry sees of it, and the signal *)
(* phase: _process_signals_for_profile, _execute_signal,                   *)
(* _place_entry_order and place_maker_entry_order.                         *)

\* A position of s is closed: by the loop, which restarts the cooldown, or
\* by its resting TAKE_PROFIT order or a validation, which does not.
ClosePosition(s) ==
    /\ pc = "positions" /\ open[s] > 0
    /\ open' = [open EXCEPT ![s] = @ - 1]
    /\ \/ cool' = [cool EXCEPT ![s] = Cooldown]
       \/ UNCHANGED cool
    /\ UNCHANGED <<venue, ord, rows, booked, takerRows, dbCool, entry, age, pc, local, struck>>

\* The symbols outside their cooldown are listed once, before any signal.
BeginSignals ==
    /\ pc = "positions"
    /\ pc' = "signals"
    /\ scan' = {s \in Symbols : cool[s] = 0}
    /\ UNCHANGED <<venue, ord, ledger, entry, age, cool, pass, outcome, cur, todo, struck>>

\* A signal for s passes the per-symbol cap and reaches _place_entry_order.
Signal(s, d) ==
    /\ pc = "signals" /\ s \in scan
    /\ open[s] < MaxOpen
    /\ used < MaxEntries
    /\ used' = used + 1
    /\ cur' = used + 1
    /\ symOf' = [symOf EXCEPT ![used + 1] = s]
    /\ side' = [side EXCEPT ![used + 1] = d]
    /\ scan' = scan \ {s}
    /\ pass' = "entry"
    /\ pc' = "place"
    /\ UNCHANGED <<venue, ord, ledger, age, cool, outcome, todo, struck>>

EndSignals ==
    /\ pc = "signals"
    /\ pc' = "sleep"
    /\ scan' = {}
    /\ UNCHANGED <<venue, ord, ledger, entry, age, cool, pass, outcome, cur, todo, struck>>

\* The PostOnly order rests, or is rejected (it would cross the book).
PlaceMaker ==
    /\ pc = "place"
    /\ \/ exch' = [exch EXCEPT ![cur] = "open"] /\ pc' = "saveOrder"
       \/ UNCHANGED exch /\ pc' = "taker"
    /\ UNCHANGED <<exec, takerExec, ord, ledger, entry, age, cool, local, struck>>

\* The venue accepted the order and the answer was lost: None, as rejected.
AckLost ==
    /\ Strike("ack")
    /\ pc = "place"
    /\ exch' = [exch EXCEPT ![cur] = "open"]
    /\ pc' = "taker"
    /\ UNCHANGED <<exec, takerExec, ord, ledger, entry, age, cool, local>>

\* save_order; back in the signal loop the cooldown is stamped.
SaveOrder ==
    /\ pc = "saveOrder"
    /\ ord' = [ord EXCEPT ![cur] = "New"]
    /\ age' = [age EXCEPT ![cur] = 0]
    /\ cool' = [cool EXCEPT ![Sym] = Cooldown]
    /\ pc' = "signals"
    /\ UNCHANGED <<venue, ledger, entry, local, struck>>

\* save_order fails: None, as rejected, though the order rests.
SaveOrderFails ==
    /\ Strike("db")
    /\ pc = "saveOrder"
    /\ pc' = "taker"
    /\ UNCHANGED <<venue, ord, ledger, entry, age, cool, local>>

-----------------------------------------------------------------------------
Reconcile ==
    \/ QueryOpen \/ QueryFails \/ BookOpenSnapshot \/ NotFound \/ ReadHistory
    \/ BookFill \/ RestTakeProfit \/ TakeProfitRaises \/ MarkFilled \/ WriteFails

Monitor ==
    \/ BeginCycle \/ PickOrder \/ EndOrders
    \/ Reconcile \/ Settle \/ CancelMaker \/ SettleRecheck \/ MarkCancelled
    \/ TakerExecutes \/ TakerRefused \/ TakerBooked
    \/ BeginSignals \/ EndSignals
    \/ PlaceMaker \/ AckLost \/ SaveOrder \/ SaveOrderFails

Environment ==
    \/ \E e \in Entries : Fill(e) \/ VenueEnds(e)
    \/ \E s \in Symbols : ClosePosition(s)
    \/ \E s \in Symbols, d \in Sides : Signal(s, d)
    \/ Tick \/ Restart

Next == Monitor \/ Environment

\* The thread keeps taking steps and the clock keeps running; nothing obliges
\* the venue to trade, a signal to fire or a position to close.
Fairness == WF_vars(Monitor) /\ SF_vars(Tick)

Spec == Init /\ [][Next]_vars

FairSpec == Spec /\ Fairness

-----------------------------------------------------------------------------
(* Properties.                                                             *)

\* Every variable holds a value of its type.
TypeOK ==
    /\ exch \in [Entries -> ExchStates]
    /\ exec \in [Entries -> 0 .. Lots]
    /\ takerExec \in [Entries -> Nat]
    /\ ord \in [Entries -> OrderStatuses]
    /\ rows \in [Entries -> Nat] /\ booked \in [Entries -> Nat]
    /\ takerRows \in [Entries -> Nat]
    /\ open \in [Symbols -> Nat]
    /\ dbCool \in [Symbols -> 0 .. Cooldown]
    /\ used \in 0 .. MaxEntries
    /\ symOf \in [Entries -> Symbols] /\ side \in [Entries -> Sides]
    /\ age \in [Entries -> 0 .. Timeout]
    /\ cool \in [Symbols -> 0 .. Cooldown]
    /\ pc \in {"sleep", "orders", "query", "history", "book", "tp", "mark",
               "outcome", "cancel", "markCancelled", "taker", "takerBook",
               "positions", "signals", "place", "saveOrder"}
    /\ pass \in {"first", "recheck", "entry"}
    /\ outcome \in {"resting", "filled", "gone"}
    /\ cur \in 0 .. MaxEntries
    /\ (pc \notin {"sleep", "orders", "positions", "signals"}) => cur \in Entries
    /\ todo \subseteq Entries /\ scan \subseteq Symbols
    /\ struck \in [count : Nat, kinds : SUBSET AllFaults]

\* "... so we never open two positions for one signal": no entry is booked
\* as two positions, by two maker fills, two market orders or one of each.
OneEntryPerSignal == \A e \in Entries : rows[e] + takerRows[e] <= 1

\* That holds through failing queries and cancels, lost answers and a lagging
\* history; what breaks it is an interruption between booking a fill and
\* marking its row, by an exception, a failed write or a crash.
OneEntryUninterrupted == Spared({"tp", "db", "crash"}) => OneEntryPerSignal

\* At the venue too a signal is traded once: an entry whose maker order
\* executed anything is never also bought at market.
TradedOnce == \A e \in Entries : exec[e] > 0 => takerExec[e] = 0

\* A crash, wherever it strikes, does not make a signal trade twice; each of
\* the other faults can.
OneExposure == Spared(AllFaults \ {"crash"}) => TradedOnce

\* The venue holds nothing the orders table does not track: while an order
\* rests, or executed lots are not yet recorded in a position, its row is
\* active (or being written), as long as no fault has happened.
NothingUntracked ==
    Spared(AllFaults) =>
        \A e \in Entries :
            exch[e] = "open" \/ booked[e] # exec[e] =>
                ord[e] \in Active \/ (cur = e /\ pc = "saveOrder")

\* A position is only booked from a maker order that has ended, and every
\* booking records the whole of what the order executed.
RowsBacked ==
    \A e \in Entries :
        /\ rows[e] > 0 => exec[e] > 0 /\ exch[e] \in Terminal
        /\ rows[e] = 1 => booked[e] = exec[e]

\* However often an entry's row is reconciled and whatever fails, crashes
\* included, at most one market order is executed for it, unless a write of
\* its row failed.
OneTakerPerEntry == Spared({"db"}) => \A e \in Entries : takerExec[e] <= 1

\* Every tracked entry order is eventually decided.
EntryDecided ==
    \A e \in Entries : (ord[e] \in Active) ~> (ord[e] \notin Active)

\* An entry that may still open a position.
Pending(e) ==
    \/ ord[e] \in Active
    \/ cur = e /\ pc \in {"place", "saveOrder", "taker", "takerBook"}
    \/ cur = e /\ pc \in {"outcome", "markCancelled"} /\ pass = "recheck"

State ==
    [e \in Entries |->
        CASE e > used -> "idle"
          [] e <= used /\ rows[e] + takerRows[e] > 0 -> "opened"
          [] e <= used /\ rows[e] + takerRows[e] = 0 /\ Pending(e) -> "pending"
          [] OTHER -> "dropped"]

Promise == INSTANCE EntryPromise WITH state <- State, of <- symOf, held <- open

\* The loop implements the promise.
EntryPromised == Promise!PSpec

\* Whatever is to fail later: up to the first fault, the steps of the loop are
\* those of the promise.
StepsPromised ==
    Promise!PInit /\ [][Spared(AllFaults)' => Promise!PNext]_(Promise!pvars)

=============================================================================
