------------------------------ MODULE ExitRules ------------------------------
(***************************************************************************)
(* The price rules of MonitoringService._monitor_open_positions: take      *)
(* profit, stop loss, the trailing stop with its arming threshold, the     *)
(* price watermarks, and the periodic trend check, for long and short      *)
(* positions.  A price is a whole number of ticks and a percentage is in   *)
(* basis points, so that a level (a price moved by a percentage) is exact  *)
(* when it is kept in 10000ths of a tick.  The profile's settings are      *)
(* fixed while a position is held.                                         *)
(*                                                                         *)
(* The exit itself (_execute_close) succeeds or leaves the position open;  *)
(* ExitEngine models how.                                                  *)
(***************************************************************************)
EXTENDS Integers

CONSTANTS
    Longs, Shorts,      \* the positions, by direction
    Prices,             \* what the price cache may answer
    Entry,              \* the entry price
    ArmBps, TrailBps,   \* arm_trailing_stop_pct, trailing_stop_pct
    TakeBps, StopBps,   \* take_profit_pct, stop_loss_pct
    LockBps,            \* the locked-in gain of an armed stop: 5, +-0.05%
    CheckInterval       \* trend_invalidation_interval

Positions == Longs \cup Shorts

ASSUME ExitRulesAssumption ==
    /\ Longs \cap Shorts = {}
    /\ Prices \subseteq Nat \ {0}
    /\ Entry \in Nat \ {0}
    /\ ArmBps \in Nat \ {0}
    /\ TrailBps \in 1..10000
    /\ TakeBps \in Nat
    /\ StopBps \in Nat
    /\ LockBps \in Nat
    /\ CheckInterval \in Nat \ {0}

VARIABLES
    pos,        \* pos[p]: the row of positions
    counter,    \* _trend_invalidation_counter, no higher than CheckInterval
    due,        \* do_trend_check of the current cycle
    todo,       \* open positions the current cycle has not visited
    best,       \* history: the best price p was evaluated at
    owed        \* history: consecutive cycles p was evaluated, not checked

vars == <<pos, counter, due, todo, best, owed>>

Row == [status: {"None", "OPEN", "CLOSED"}, armed: BOOLEAN,
        stop: Int, high: Nat, low: Nat]

(* 1 for a long, -1 for a short: Sign * price grows with the profit. *)
Sign(p) == IF p \in Longs THEN 1 ELSE -1

(* A price moved by bps in the position's favour (against it when bps < 0). *)
Level(p, price, bps) == price * (10000 + Sign(p) * bps)

(* Whether the price has reached a level from below, or from above. *)
Above(p, price, level) == Sign(p) * price * 10000 >= Sign(p) * level
Below(p, price, level) == Sign(p) * price * 10000 <= Sign(p) * level

TakeHit(p, price) == TakeBps > 0 /\ Above(p, price, Level(p, Entry, TakeBps))
LossHit(p, price) == StopBps > 0 /\ Below(p, price, Level(p, Entry, -StopBps))

(* The better of the trailing distance and the locked-in gain. *)
StopFor(p, price) ==
    LET trail == Level(p, price, -TrailBps)
        lock  == Level(p, Entry, LockBps)
    IN IF Sign(p) * trail >= Sign(p) * lock THEN trail ELSE lock

Better(p, a, b) == Sign(p) * a > Sign(p) * b

(* The column the trailing stop reads. *)
Watermark(p) == IF p \in Longs THEN pos[p].high ELSE pos[p].low

ArmedAt(p, price) ==
    pos[p].armed \/ Above(p, price, Level(p, Entry, ArmBps))

Raises(p, price) == ArmedAt(p, price) /\ Better(p, price, Watermark(p))

StopHit(p, price) ==
    /\ ArmedAt(p, price)
    /\ ~Raises(p, price)
    /\ Below(p, price, pos[p].stop)

(* Mutant: lowest_price, which the short side trails, is never written. *)
MarkedHighOnly(p, price) ==
    LET high == IF Raises(p, price) THEN price ELSE pos[p].high
    IN [high |-> IF price > high THEN price ELSE high, low |-> pos[p].low]

(* Both watermarks after a visit.  A raised trailing stop first writes the *)
(* price to highest_price, for a short too.                                *)
Marked(p, price) ==
    LET high == IF Raises(p, price) THEN price ELSE pos[p].high
    IN [high |-> IF price > high THEN price ELSE high,
        low  |-> IF price < pos[p].low THEN price ELSE pos[p].low]

TypeOK ==
    /\ pos \in [Positions -> Row]
    /\ counter \in 0..CheckInterval
    /\ due \in BOOLEAN
    /\ todo \subseteq Positions
    /\ best \in [Positions -> Nat]
    /\ owed \in [Positions -> Nat]

Init ==
    /\ pos = [p \in Positions |->
                [status |-> "None", armed |-> FALSE, stop |-> 0,
                 high |-> Entry, low |-> Entry]]
    /\ counter = 0
    /\ due = FALSE
    /\ todo = {}
    /\ best = [p \in Positions |-> Entry]
    /\ owed = [p \in Positions |-> 0]

(* open_position, from another thread or an earlier part of the loop: the  *)
(* row starts with the calculator's unarmed trailing stop.                 *)
Open(p) ==
    /\ pos[p].status = "None"
    /\ pos' = [pos EXCEPT ![p].status = "OPEN",
                          ![p].stop = Level(p, Entry, -TrailBps)]
    /\ UNCHANGED <<counter, due, todo, best, owed>>

(* The head of a cycle: count it, decide once whether it checks trends.    *)
BeginCycle ==
    /\ todo = {}
    /\ due' = (counter + 1 >= CheckInterval)
    /\ counter' = IF due' THEN 0 ELSE counter + 1
    /\ todo' = {p \in Positions : pos[p].status = "OPEN"}
    /\ UNCHANGED <<pos, best, owed>>

(* An iteration raises before it reaches the positions, or among them: the *)
(* rest of it is skipped and the loop goes on.                             *)
CycleFails ==
    /\ counter' = IF todo = {} /\ counter < CheckInterval
                    THEN counter + 1 ELSE counter
    /\ owed' = [p \in Positions |-> IF todo = {} \/ p \in todo
                                      THEN 0 ELSE owed[p]]
    /\ todo' = {}
    /\ UNCHANGED <<pos, due, best>>

Visit(p) == p \in todo /\ todo' = todo \ {p} /\ UNCHANGED <<counter, due>>

Attempt(exit, ok) == IF exit /\ ok THEN "CLOSED" ELSE "OPEN"

(* The price cache has no price of the symbol. *)
NoPrice(p) ==
    /\ Visit(p)
    /\ owed' = [owed EXCEPT ![p] = 0]
    /\ UNCHANGED <<pos, best>>

(* Take profit or stop loss: exit, and leave the rest of the visit out. *)
ExitAtLevel(p, price, ok) ==
    /\ Visit(p)
    /\ TakeHit(p, price) \/ LossHit(p, price)
    /\ pos' = [pos EXCEPT ![p].status = Attempt(TRUE, ok)]
    /\ owed' = [owed EXCEPT ![p] = 0]
    /\ UNCHANGED best

(* The rest of a visit: arm, raise or hit the trailing stop, mark the      *)
(* price, and in a due cycle ask position_manager.should_exit_position.    *)
Evaluate(p, price, shouldExit, ok) ==
    /\ Visit(p)
    /\ ~TakeHit(p, price) /\ ~LossHit(p, price)
    /\ pos' = [pos EXCEPT ![p] =
           [status |-> Attempt(StopHit(p, price) \/ (due /\ shouldExit), ok),
            armed  |-> ArmedAt(p, price),
            stop   |-> IF Raises(p, price) THEN StopFor(p, price) ELSE @.stop,
            high   |-> Marked(p, price).high,
            low    |-> Marked(p, price).low]]
    /\ best' = [best EXCEPT ![p] = IF Better(p, price, @) THEN price ELSE @]
    /\ owed' = [owed EXCEPT ![p] = IF due THEN 0 ELSE @ + 1]

Next ==
    \/ BeginCycle
    \/ CycleFails
    \/ \E p \in Positions :
        \/ Open(p)
        \/ NoPrice(p)
        \/ \E price \in Prices, ok \in BOOLEAN :
            \/ ExitAtLevel(p, price, ok)
            \/ \E shouldExit \in BOOLEAN : Evaluate(p, price, shouldExit, ok)

Spec == Init /\ [][Next]_vars

-----------------------------------------------------------------------------
(* The trailing stop of an armed position is where the best price it was   *)
(* ever evaluated at puts it: no raise was missed, none was undone, and    *)
(* arming replaced the stop the position was opened with (lines 647-663    *)
(* and 671-687 of monitoring_service.py, through columns the short side    *)
(* writes in another way than it reads them).                              *)
TrailsBest ==
    \A p \in Positions :
        pos[p].armed => pos[p].stop = StopFor(p, best[p])

(* An armed position's stop is never behind the locked-in gain, although   *)
(* the row was opened with a stop on the losing side of the entry price    *)
(* and arming keeps a stop that is already there.                          *)
GainLocked ==
    \A p \in Positions :
        pos[p].armed =>
            Sign(p) * pos[p].stop >= Sign(p) * Level(p, Entry, LockBps)

(* While a position is held, an armed trailing stop stays armed and only   *)
(* moves in the position's favour ("Once armed, it stays armed for the     *)
(* life of the position").                                                 *)
OnlyTightens ==
    [][\A p \in Positions :
         pos[p].armed =>
             /\ pos'[p].armed
             /\ Sign(p) * pos'[p].stop >= Sign(p) * pos[p].stop]_vars

(* A position that is priced and held through CheckInterval consecutive    *)
(* cycles is trend-checked in one of them, whatever other positions are    *)
(* open: no other position uses up the check.                              *)
NoneStarved == \A p \in Positions : owed[p] < CheckInterval

=============================================================================
