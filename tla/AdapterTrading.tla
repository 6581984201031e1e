---------------------------- MODULE AdapterTrading ----------------------------
(***************************************************************************)
(* One profile trading one symbol through an adapter that places, parses   *)
(* and books its own market orders: Bullet (perp: signed transactions, an  *)
(* IOC price, reduce-only closes, on-chain TP/SL) or Binance (spot).       *)
(* The monitoring loop and a web handler (webhook, manual order) place     *)
(* orders at the same time; between the exchange's answer and the booking  *)
(* Bullet sleeps 5 to 11 seconds to look the fill price up.  Closes are    *)
(* booked first in, first out, whatever position they were sent for.       *)
(* The loop validates the open rows against the exchange now and then.     *)
(***************************************************************************)
EXTENDS Integers, Sequences, FiniteSets, FiniteSetsExt

CONSTANTS
    Size,       \* quantity of an entry
    MaxOpen,    \* max_open_positions
    MaxRows,    \* bound: positions ever booked
    MaxHeld     \* bound: what is held when another entry is placed

AdapterAssumption ==
    /\ Size \in Nat \ {0}
    /\ MaxOpen \in Nat \ {0}
    /\ MaxRows \in Nat \ {0}
    /\ MaxHeld \in Nat

Callers == {"monitor", "web"}
Venues == {"bullet", "binance"}

VARIABLES
    venue,      \* the adapter of the profile
    held,       \* external: what the exchange holds for it
    rows,       \* the positions in the database, oldest first
    order,      \* each thread's order
    seen,       \* the balance in the BalanceCache (spot)
    listed,     \* rows the validation read, or none
    astray      \* history: an answer was lost or misread so that some of what
                \* the exchange holds may have no row
vars == <<venue, held, rows, order, seen, listed, astray>>

Amounts == 0 .. Size
Idle == [at |-> "idle", pid |-> 0, qty |-> 0, got |-> 0, over |-> 0]

TypeOK ==
    /\ venue \in Venues
    /\ held \in Int /\ seen \in Int
    /\ rows \in Seq([left : Amounts, open : BOOLEAN]) /\ Len(rows) <= MaxRows
    /\ order \in [Callers -> [at : {"idle", "sent", "answered"}, pid : 0 .. MaxRows,
                              qty : Amounts, got : Amounts, over : Amounts]]
    /\ listed \subseteq DOMAIN rows
    /\ astray \in BOOLEAN

Init ==
    /\ venue \in Venues
    /\ held = 0 /\ seen = 0 /\ rows = <<>> /\ listed = {}
    /\ order = [t \in Callers |-> Idle]
    /\ astray = FALSE

-----------------------------------------------------------------------------
(* Helpers.                                                                *)

OpenRows == {i \in DOMAIN rows : rows[i].open}
Free(t) == order[t] = Idle /\ (t = "monitor" => listed = {})
Opening(t) == order[t].pid = 0
Busy(t) == \E u \in Callers \ {t} : order[u] # Idle
Sent(t) == order[t].at = "sent"
Lesser(a, b) == IF a <= b THEN a ELSE b

\* What the order may still take: a Bullet close is reduce-only, a Binance
\* close is refused unless the whole of it is held.
MayTake(t) ==
    IF Opening(t) THEN order[t].qty
    ELSE IF venue = "bullet" THEN Lesser(order[t].qty, held)
    ELSE IF held >= order[t].qty THEN order[t].qty ELSE 0

\* The answer says got; took is what the exchange did.
Answered(t, got, took) ==
    [order EXCEPT ![t].at = "answered", ![t].qty = 0, ![t].got = got, ![t].over = got - took]

\* close_positions_fifo.
Before(i) == MapThenSumSet(LAMBDA j : rows[j].left, {j \in OpenRows : j < i})
Taken(i, q) == IF i \notin OpenRows \/ q <= Before(i) THEN 0
               ELSE Lesser(rows[i].left, q - Before(i))
ClosedFifo(q) ==
    [i \in DOMAIN rows |->
        [left |-> rows[i].left - Taken(i, q),
         open |-> rows[i].open /\ (Taken(i, q) = 0 \/ Taken(i, q) < rows[i].left)]]

-----------------------------------------------------------------------------
(* Placing an order.                                                       *)

Ordered(t, i, qty) ==
    [order EXCEPT ![t] = [Idle EXCEPT !.at = "sent", !.pid = i, !.qty = qty]]

\* order_buy or order_sell without a position id; the entry checks count the
\* open rows of the symbol.
Enter(t) ==
    /\ Free(t)
    /\ Cardinality(OpenRows) < MaxOpen
    /\ Len(rows) + Cardinality({u \in Callers : order[u] # Idle /\ Opening(u)}) < MaxRows
    /\ held <= MaxHeld
    /\ order' = Ordered(t, 0, Size)
    /\ UNCHANGED <<venue, held, rows, seen, listed, astray>>

\* order_sell or order_buy with the id of an open position.
Exit(t) ==
    /\ Free(t)
    /\ \E i \in OpenRows : order' = Ordered(t, i, rows[i].left)
    /\ UNCHANGED <<venue, held, rows, seen, listed, astray>>

-----------------------------------------------------------------------------
(* The exchange's answer, as the adapter reads it.                         *)

\* What the exchange holds once an order has taken f.
AfterTaking(t, f) == IF Opening(t) THEN held + f ELSE held - f

\* Mutant of Filled: only the first trade of the answer is read.
FirstTradeOnly(t) ==
    /\ Sent(t) /\ venue = "bullet"
    /\ \E f \in 1 .. MayTake(t) :
         /\ held' = AfterTaking(t, f)
         /\ \E got \in 1 .. f : order' = Answered(t, got, got)
    /\ UNCHANGED <<venue, rows, seen, listed, astray>>

\* Filled, wholly or in part: the taker trades of the answer are summed.
Filled(t) ==
    /\ Sent(t) /\ venue = "bullet"
    /\ \E f \in 1 .. MayTake(t) :
         /\ held' = AfterTaking(t, f)
         /\ order' = Answered(t, f, f)
    /\ UNCHANGED <<venue, rows, seen, listed, astray>>

\* The executedQty of Binance, which may be "0".
ExecutedQty(t) ==
    /\ Sent(t) /\ venue = "binance"
    /\ \E f \in 0 .. MayTake(t) :
         /\ held' = AfterTaking(t, f)
         /\ order' = Answered(t, f, f)
    /\ UNCHANGED <<venue, rows, seen, listed, astray>>

\* Nothing matched: the PlaceOrder event or the order itself stands in for
\* the trade that is missing, with the whole size.
Unmatched(t) ==
    /\ Sent(t) /\ venue = "bullet"
    /\ Opening(t) \/ held > 0
    /\ order' = Answered(t, order[t].qty, 0)
    /\ UNCHANGED <<venue, held, rows, seen, listed, astray>>

\* An answer without events or ids (Bullet): a synthetic fill of the whole size.
Unread(t) ==
    /\ Sent(t) /\ venue = "bullet"
    /\ \E f \in 0 .. MayTake(t) :
         /\ held' = AfterTaking(t, f)
         /\ order' = Answered(t, order[t].qty, f)
    /\ UNCHANGED <<venue, rows, seen, listed, astray>>

\* "size must be positive": the position is flat already, and the close is
\* booked as if it had filled.
AlreadyFlat(t) ==
    /\ Sent(t) /\ venue = "bullet" /\ ~Opening(t) /\ held = 0
    /\ order' = Answered(t, order[t].qty, 0)
    /\ UNCHANGED <<venue, held, rows, seen, listed, astray>>

\* Refused, a receipt that is not successful, or never sent.  (A refused
\* signature is sent once more with a fresh chain hash: a step of "sent".)
Refused(t) ==
    /\ Sent(t)
    /\ order' = [order EXCEPT ![t] = Idle]
    /\ UNCHANGED <<venue, held, rows, seen, listed, astray>>

\* Executed, but the answer is an exception.
Lost(t) ==
    /\ Sent(t)
    /\ \E f \in 1 .. MayTake(t) : held' = AfterTaking(t, f)
    /\ order' = [order EXCEPT ![t] = Idle]
    /\ astray' = (astray \/ Opening(t))
    /\ UNCHANGED <<venue, rows, seen, listed>>

-----------------------------------------------------------------------------
(* Booking, after Bullet's fill price was looked up.                       *)

Opened(qty) == Append(rows, [left |-> qty, open |-> TRUE])

BookBinance(t) ==
    /\ order[t].at = "answered" /\ venue = "binance"
    /\ rows' = IF Opening(t) THEN Opened(order[t].got) ELSE ClosedFifo(order[t].got)
    /\ astray' = (astray \/ (~Opening(t) /\ order[t].over > 0 /\ (held > 0 \/ Busy(t))))
    /\ order' = [order EXCEPT ![t] = Idle]
    /\ UNCHANGED <<venue, held, seen, listed>>

\* A thread whose lookup of the fill price has ended, with a price or without.
LookedUp(t) == order[t].at = "answered" /\ venue = "bullet"

Book(t) ==
    /\ LookedUp(t)
    /\ rows' = IF Opening(t) THEN Opened(order[t].got) ELSE ClosedFifo(order[t].got)
    /\ astray' = (astray \/ (~Opening(t) /\ order[t].over > 0 /\ (held > 0 \/ Busy(t))))
    /\ order' = [order EXCEPT ![t] = Idle]
    /\ UNCHANGED <<venue, held, seen, listed>>

\* The database fails: the error is logged and the response returned.
BookFails(t) ==
    /\ order[t].at = "answered"
    /\ astray' = (astray \/ Opening(t))
    /\ order' = [order EXCEPT ![t] = Idle]
    /\ UNCHANGED <<venue, held, rows, seen, listed>>

-----------------------------------------------------------------------------
(* External: an on-chain take-profit or stop leg fires, or the user trades.*)

Elsewhere ==
    /\ \E f \in 1 .. held : held' = held - f
    /\ UNCHANGED <<venue, rows, order, seen, listed, astray>>

-----------------------------------------------------------------------------
(* The loop's validation of the open rows.                                 *)

MonitorBalances ==
    /\ Free("monitor") /\ venue = "binance"
    /\ seen' = held
    /\ UNCHANGED <<venue, held, rows, order, listed, astray>>

ListOpen ==
    /\ Free("monitor") /\ OpenRows # {}
    /\ listed' = OpenRows
    /\ UNCHANGED <<venue, held, rows, order, seen, astray>>

\* The cached spot balance is below a hundredth of the row.
SoldElsewhere(i) == venue = "binance" /\ seen * 100 < rows[i].left

\* The perp account has no position of the symbol.
EmptyIsNoAnswer(i) == SoldElsewhere(i)
Gone(i) == (venue = "bullet" /\ held = 0) \/ SoldElsewhere(i)

CloseInvalid ==
    /\ listed # {}
    /\ rows' = [i \in DOMAIN rows |->
                  IF i \in listed /\ Gone(i) THEN [left |-> 0, open |-> FALSE] ELSE rows[i]]
    /\ order' = [t \in Callers |->
                   IF order[t].at = "answered" /\ ~Opening(t) /\ (\E i \in listed : Gone(i))
                   THEN [order[t] EXCEPT !.over = order[t].got] ELSE order[t]]
    /\ astray' = (astray \/ (held > 0 /\ \E i \in listed : Gone(i)))
    /\ listed' = {}
    /\ UNCHANGED <<venue, held, seen>>

AccountFails ==
    /\ listed # {}
    /\ listed' = {}
    /\ UNCHANGED <<venue, held, rows, order, seen, astray>>

-----------------------------------------------------------------------------
Trade(t) ==
    \/ Enter(t) \/ Exit(t)
    \/ Filled(t) \/ ExecutedQty(t) \/ Unmatched(t) \/ Unread(t) \/ AlreadyFlat(t)
    \/ Refused(t) \/ Lost(t)
    \/ Book(t) \/ BookBinance(t) \/ BookFails(t)

Next ==
    \/ \E t \in Callers : Trade(t)
    \/ Elsewhere
    \/ MonitorBalances \/ ListOpen \/ CloseInvalid \/ AccountFails

\* The loop comes round to the validation again and again (its counter), an
\* order is answered and booked, and the account can be read now and then.
Concluded(t) == Refused(t) \/ Filled(t) \/ Lost(t)
Fairness ==
    /\ WF_vars(Concluded("monitor")) /\ WF_vars(Book("monitor"))
    /\ SF_vars(ListOpen) /\ SF_vars(CloseInvalid)

Spec == Init /\ [][Next]_vars
FairSpec == Spec /\ Fairness

\* Whatever legs fire and threads close at once, the orders of the adapter
\* never turn a position round: closes are reduce-only, or refused.
NoFlip == held >= 0

\* Everything the exchange holds is in an open row, or on its way into one;
\* partial fills, two closes of one position and rejected or repeated sends
\* included.  (Spared, and named in the findings: answers that are lost or
\* misread, and a close of a flat position that is booked on a later one.)
Left == MapThenSumSet(LAMBDA i : rows[i].left, OpenRows)
InFlight ==
    MapThenSumSet(LAMBDA t : IF Opening(t) THEN order[t].got ELSE order[t].over - order[t].got,
                  {t \in Callers : order[t].at = "answered"})
Tracked == ~astray => held <= Left + InFlight

\* Of a perp position that the exchange has closed, no row stays open.
FlatSettles ==
    (venue = "bullet" /\ held = 0 /\ OpenRows # {}) ~> (OpenRows = {} \/ held > 0)

\* What the adapter books is what the exchange filled ("Use PlaceOrder as
\* fallback if no Trade event found", bullet.py).
BookedWasFilled ==
    \A t \in Callers : order[t].over = 0

=============================================================================
