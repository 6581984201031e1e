--------------------------- MODULE ExitRules_proofs ---------------------------
(***************************************************************************)
(* The trailing stop's properties for every profile, set of positions and  *)
(* course of prices.  The inductive invariant ties the three things the    *)
(* trailing logic keeps apart: the watermark it reads is the best price    *)
(* seen, an unarmed position has not reached the arming level, and an      *)
(* armed stop is where the best price puts it.                             *)
(***************************************************************************)
EXTENDS Watch, TLAPS

MarkOK == \A p \in Positions : Watermark(p) = best[p]

(* So the price that arms a position is also a new best price. *)
UnarmedOK ==
    \A p \in Positions :
        ~pos[p].armed => ~Above(p, best[p], Level(p, Entry, ArmBps))

(* A position is opened unarmed, with the stop of the calculator. *)
FreshOK == \A p \in Positions : pos[p].status = "None" => ~pos[p].armed

IInv == TypeOK /\ MarkOK /\ UnarmedOK /\ FreshOK /\ TrailsBest

-----------------------------------------------------------------------------
LEMMA SignIs == ASSUME NEW p \in Positions PROVE Sign(p) = 1 \/ Sign(p) = -1
BY DEF Sign

LEMMA LevelInt ==
    ASSUME NEW p \in Positions, NEW price \in Int, NEW bps \in Int
    PROVE  Level(p, price, bps) \in Int
BY SignIs DEF Level

LEMMA StopInt ==
    ASSUME NEW p \in Positions, NEW price \in Int
    PROVE  StopFor(p, price) \in Int
<1>1. Entry \in Int /\ -TrailBps \in Int /\ LockBps \in Int
  BY ExitRulesAssumption
<1> QED BY <1>1, LevelInt DEF StopFor

(* The entry price itself never arms: the arming threshold is positive. *)
LEMMA EntryUnarmed ==
    ASSUME NEW p \in Positions
    PROVE  ~Above(p, Entry, Level(p, Entry, ArmBps))
<1>1. Entry \in Nat \ {0} /\ ArmBps \in Nat \ {0} BY ExitRulesAssumption
<1>2. Entry * ArmBps > 0 BY <1>1
<1>3. CASE Sign(p) = 1
  <2>1. Level(p, Entry, ArmBps) = Entry * 10000 + Entry * ArmBps
    BY <1>1, <1>3 DEF Level
  <2> QED BY <1>1, <1>2, <1>3, <2>1 DEF Above
<1>4. CASE Sign(p) = -1
  <2>1. Level(p, Entry, ArmBps) = Entry * 10000 - Entry * ArmBps
    BY <1>1, <1>4 DEF Level
  <2> QED BY <1>1, <1>2, <1>4, <2>1 DEF Above
<1> QED BY <1>3, <1>4, SignIs

(* A better price never puts the stop further away. *)
LEMMA StopMonotone ==
    ASSUME NEW p \in Positions, NEW a \in Nat, NEW b \in Nat, Better(p, b, a)
    PROVE  Sign(p) * StopFor(p, b) >= Sign(p) * StopFor(p, a)
<1> DEFINE k == 10000 - Sign(p) * TrailBps
<1>1. TrailBps \in 1..10000 /\ LockBps \in Nat /\ Entry \in Nat
  BY ExitRulesAssumption
<1>2. k \in Nat
  <2>1. CASE Sign(p) = 1 BY <1>1, <2>1
  <2>2. CASE Sign(p) = -1 BY <1>1, <2>2
  <2> QED BY <2>1, <2>2, SignIs
<1>3. Level(p, a, -TrailBps) = a * k /\ Level(p, b, -TrailBps) = b * k
  BY <1>1, SignIs DEF Level
<1>4. Level(p, Entry, LockBps) \in Int BY <1>1, LevelInt
<1> HIDE DEF k
<1>5. CASE Sign(p) = 1
  <2>1. b > a BY <1>5 DEF Better
  <2>2. b * k >= a * k BY <2>1, <1>2
  <2>3. a * k \in Int /\ b * k \in Int BY <1>2
  <2> QED BY <1>3, <1>4, <1>5, <2>2, <2>3 DEF StopFor
<1>6. CASE Sign(p) = -1
  <2>1. b < a BY <1>6 DEF Better
  <2>2. b * k <= a * k BY <2>1, <1>2
  <2>3. a * k \in Int /\ b * k \in Int BY <1>2
  <2> QED BY <1>3, <1>4, <1>6, <2>2, <2>3 DEF StopFor
<1> QED BY <1>5, <1>6, SignIs

LEMMA StopLocked ==
    ASSUME NEW p \in Positions, NEW price \in Nat
    PROVE  Sign(p) * StopFor(p, price) >= Sign(p) * Level(p, Entry, LockBps)
<1>1. Level(p, price, -TrailBps) \in Int /\ Level(p, Entry, LockBps) \in Int
  BY LevelInt, ExitRulesAssumption
<1> QED BY <1>1, SignIs DEF StopFor

-----------------------------------------------------------------------------
LEMMA InitInv == Init => IInv
<1> SUFFICES ASSUME Init PROVE IInv OBVIOUS
<1>1. Entry \in Nat /\ CheckInterval \in Nat BY ExitRulesAssumption
<1>2. TypeOK
  <2>1. [status |-> "None", armed |-> FALSE, stop |-> 0,
         high |-> Entry, low |-> Entry] \in Row
    BY <1>1 DEF Row
  <2>2. pos \in [Positions -> Row] BY <2>1 DEF Init
  <2>3. /\ best \in [Positions -> Nat] /\ owed \in [Positions -> Nat]
        /\ counter \in 0..CheckInterval
    BY <1>1 DEF Init
  <2>4. due \in BOOLEAN /\ todo \subseteq Positions BY DEF Init
  <2> QED BY <2>2, <2>3, <2>4 DEF TypeOK
<1>3. MarkOK BY DEF Init, MarkOK, Watermark, Positions
<1>4. UnarmedOK BY EntryUnarmed DEF Init, UnarmedOK
<1>5. FreshOK /\ TrailsBest BY DEF Init, FreshOK, TrailsBest
<1> QED BY <1>2, <1>3, <1>4, <1>5 DEF IInv

(* What one full visit does to the position it visits. *)
LEMMA EvaluateInv ==
    ASSUME IInv, NEW p \in Positions, NEW price \in Prices,
           NEW shouldExit \in BOOLEAN, NEW ok \in BOOLEAN,
           Evaluate(p, price, shouldExit, ok)
    PROVE  IInv' /\ pos'[p].armed = ArmedAt(p, price)
                 /\ (pos[p].armed =>
                       Sign(p) * pos'[p].stop >= Sign(p) * pos[p].stop)
<1> USE DEF IInv
<1>0. price \in Nat /\ best[p] \in Nat /\ pos \in [Positions -> Row]
      /\ best \in [Positions -> Nat] /\ pos[p] \in Row
      /\ pos[p].high \in Nat /\ pos[p].low \in Nat /\ pos[p].stop \in Int
      /\ pos[p].armed \in BOOLEAN
  BY ExitRulesAssumption DEF TypeOK, Row
<1> DEFINE new == [status |-> Attempt(StopHit(p, price) \/ (due /\ shouldExit), ok),
            armed  |-> ArmedAt(p, price),
            stop   |-> IF Raises(p, price) THEN StopFor(p, price) ELSE pos[p].stop,
            high   |-> Marked(p, price).high,
            low    |-> Marked(p, price).low]
           newBest == IF Better(p, price, best[p]) THEN price ELSE best[p]
<1>1. pos' = [pos EXCEPT ![p] = new] /\ best' = [best EXCEPT ![p] = newBest]
  BY DEF Evaluate
<1>2. ArmedAt(p, price) \in BOOLEAN BY <1>0 DEF ArmedAt, Above
<1>3. StopFor(p, price) \in Int BY <1>0, StopInt
<1>4. Marked(p, price).high \in Nat /\ Marked(p, price).low \in Nat
  BY <1>0 DEF Marked
<1>5. new \in Row BY <1>0, <1>2, <1>3, <1>4 DEF Row, Attempt
<1>6. newBest \in Nat BY <1>0
<1>7. pos'[p] = new /\ best'[p] = newBest
      /\ \A q \in Positions \ {p} : pos'[q] = pos[q] /\ best'[q] = best[q]
  BY <1>0, <1>1
<1>8. Watermark(p) = best[p] BY DEF MarkOK
<1>9. Raises(p, price) <=> ArmedAt(p, price) /\ Better(p, price, best[p])
  BY <1>8 DEF Raises
<1>10. TypeOK'
  <2>1. pos' \in [Positions -> Row] /\ best' \in [Positions -> Nat]
    BY <1>0, <1>1, <1>5, <1>6
  <2>2. owed' \in [Positions -> Nat] BY DEF TypeOK, Evaluate
  <2>3. todo' \subseteq Positions /\ counter' = counter /\ due' = due
    BY DEF TypeOK, Evaluate, Visit
  <2> QED BY <2>1, <2>2, <2>3 DEF TypeOK
<1>11. MarkOK'
  <2>1. (IF p \in Longs THEN new.high ELSE new.low) = newBest
    <3>1. CASE p \in Longs
      BY <1>0, <1>8, <1>9, <3>1 DEF Marked, Watermark, Better, Sign
    <3>2. CASE p \notin Longs
      BY <1>0, <1>8, <1>9, <3>2 DEF Marked, Watermark, Better, Sign
    <3> QED BY <3>1, <3>2
  <2> QED BY <1>7, <2>1 DEF MarkOK, Watermark
<1>12. UnarmedOK'
  <2>1. ~new.armed => ~Above(p, newBest, Level(p, Entry, ArmBps))
    BY DEF UnarmedOK, ArmedAt
  <2> QED BY <1>7, <2>1 DEF UnarmedOK
<1>13. new.armed => new.stop = StopFor(p, newBest)
  <2>1. CASE pos[p].armed BY <2>1, <1>9 DEF TrailsBest, ArmedAt
  <2>2. CASE ~pos[p].armed /\ ArmedAt(p, price)
    <3>1. Above(p, price, Level(p, Entry, ArmBps)) BY <2>2 DEF ArmedAt
    <3>2. ~Above(p, best[p], Level(p, Entry, ArmBps)) BY <2>2 DEF UnarmedOK
    <3>3. Level(p, Entry, ArmBps) \in Int BY LevelInt, ExitRulesAssumption
    <3>4. Better(p, price, best[p])
      BY <1>0, <3>1, <3>2, <3>3, SignIs DEF Above, Better
    <3> QED BY <2>2, <3>4, <1>9
  <2>3. CASE ~ArmedAt(p, price) BY <2>3
  <2> QED BY <2>1, <2>2, <2>3
<1>14. TrailsBest' BY <1>7, <1>13 DEF TrailsBest
<1>15. pos[p].armed => Sign(p) * new.stop >= Sign(p) * pos[p].stop
  <2> SUFFICES ASSUME pos[p].armed
               PROVE  Sign(p) * new.stop >= Sign(p) * pos[p].stop
    OBVIOUS
  <2>1. pos[p].stop = StopFor(p, best[p]) BY DEF TrailsBest
  <2>2. CASE Raises(p, price)
    BY <2>1, <2>2, <1>0, <1>9, StopMonotone
  <2>3. CASE ~Raises(p, price) BY <2>3, <1>0, SignIs
  <2> QED BY <2>2, <2>3
<1>16. FreshOK' BY <1>7 DEF FreshOK, Attempt
<1> QED BY <1>7, <1>10, <1>11, <1>12, <1>14, <1>15, <1>16

LEMMA StepInv == IInv /\ [Next]_vars => IInv'
<1> SUFFICES ASSUME IInv, [Next]_vars PROVE IInv' OBVIOUS
<1> USE DEF IInv
<1>0. pos \in [Positions -> Row] BY DEF TypeOK
<1>1. CASE BeginCycle
  <2>1. TypeOK'
    <3>1. due' \in BOOLEAN /\ todo' \subseteq Positions BY <1>1 DEF BeginCycle
    <3>2. counter' \in 0..CheckInterval
      <4>1. counter \in Nat /\ CheckInterval \in Nat \ {0}
        BY ExitRulesAssumption DEF TypeOK
      <4>2. CASE counter + 1 >= CheckInterval
        <5>1. counter' = 0 BY <1>1, <4>2 DEF BeginCycle
        <5> QED BY <4>1, <5>1
      <4>3. CASE ~(counter + 1 >= CheckInterval)
        <5>1. counter' = counter + 1 BY <1>1, <4>3 DEF BeginCycle
        <5> QED BY <4>1, <4>3, <5>1
      <4> QED BY <4>2, <4>3
    <3>3. pos' = pos /\ best' = best /\ owed' = owed BY <1>1 DEF BeginCycle
    <3> QED BY <3>1, <3>2, <3>3 DEF TypeOK
  <2> QED BY <1>1, <2>1
    DEF BeginCycle, MarkOK, UnarmedOK, FreshOK, TrailsBest, Watermark
<1>2. CASE CycleFails
  <2>1. counter' \in 0..CheckInterval
    BY <1>2, ExitRulesAssumption DEF CycleFails, TypeOK
  <2>2. owed' \in [Positions -> Nat] BY <1>2 DEF CycleFails, TypeOK
  <2>3. TypeOK' BY <1>2, <2>1, <2>2 DEF CycleFails, TypeOK
  <2> QED BY <1>2, <2>3
    DEF CycleFails, MarkOK, UnarmedOK, FreshOK, TrailsBest, Watermark
<1>3. ASSUME NEW p \in Positions, Open(p) PROVE IInv'
  <2>1. Level(p, Entry, -TrailBps) \in Int BY LevelInt, ExitRulesAssumption
  <2>2. pos' \in [Positions -> Row] BY <1>0, <1>3, <2>1 DEF Open, Row
  <2>3. \A q \in Positions : /\ pos'[q].armed = pos[q].armed
                             /\ pos'[q].high = pos[q].high
                             /\ pos'[q].low = pos[q].low
                             /\ q # p => pos'[q] = pos[q]
    BY <1>0, <1>3 DEF Open, Row
  <2>4. ~pos[p].armed BY <1>3 DEF Open, FreshOK
  <2>5. TypeOK' BY <1>3, <2>2 DEF Open, TypeOK
  <2>6. MarkOK' /\ UnarmedOK' /\ best' = best
    BY <1>3, <2>3 DEF Open, MarkOK, UnarmedOK, Watermark
  <2>7. FreshOK' BY <2>3, <2>4 DEF FreshOK
  <2>8. TrailsBest' BY <2>3, <2>4, <2>6 DEF TrailsBest
  <2> QED BY <2>5, <2>6, <2>7, <2>8
<1>4. ASSUME NEW p \in Positions, NoPrice(p) PROVE IInv'
  BY <1>4
  DEF NoPrice, Visit, TypeOK, MarkOK, UnarmedOK, FreshOK, TrailsBest, Watermark
<1>5. ASSUME NEW p \in Positions, NEW price \in Prices, NEW ok \in BOOLEAN,
             ExitAtLevel(p, price, ok)
      PROVE  IInv'
  <2>1. pos' \in [Positions -> Row]
    BY <1>0, <1>5 DEF ExitAtLevel, Row, Attempt
  <2>2. \A q \in Positions : /\ pos'[q].armed = pos[q].armed
                             /\ pos'[q].high = pos[q].high
                             /\ pos'[q].low = pos[q].low
                             /\ pos'[q].stop = pos[q].stop
                             /\ pos'[q].status = pos[q].status \/ pos'[q].status # "None"
    BY <1>0, <1>5 DEF ExitAtLevel, Row, Attempt
  <2> QED BY <1>5, <2>1, <2>2
    DEF ExitAtLevel, Visit, TypeOK, MarkOK, UnarmedOK, FreshOK, TrailsBest, Watermark
<1>6. ASSUME NEW p \in Positions, NEW price \in Prices, NEW ok \in BOOLEAN,
             NEW shouldExit \in BOOLEAN, Evaluate(p, price, shouldExit, ok)
      PROVE  IInv'
  BY <1>6, EvaluateInv
<1>7. CASE UNCHANGED vars
  BY <1>7 DEF vars, TypeOK, MarkOK, UnarmedOK, FreshOK, TrailsBest, Watermark
<1> QED BY <1>1, <1>2, <1>3, <1>4, <1>5, <1>6, <1>7 DEF Next

LEMMA Invariant == Spec => []IInv
BY InitInv, StepInv, PTL DEF Spec

-----------------------------------------------------------------------------
(* The rows, the counter and the histories keep their types. *)
THEOREM RulesTyped == Spec => []TypeOK
<1>1. IInv => TypeOK BY DEF IInv
<1> QED BY <1>1, Invariant, PTL

(* The armed stop is where the best price the position was evaluated at    *)
(* puts it, for longs and shorts, whatever the prices and the percentages. *)
THEOREM TrailsBestAlways == Spec => []TrailsBest
<1>1. IInv => TrailsBest BY DEF IInv
<1> QED BY <1>1, Invariant, PTL

(* An armed stop never falls behind the locked-in gain. *)
THEOREM GainLockedAlways == Spec => []GainLocked
<1>1. IInv => GainLocked
  <2> SUFFICES ASSUME IInv, NEW p \in Positions, pos[p].armed
               PROVE  Sign(p) * pos[p].stop >= Sign(p) * Level(p, Entry, LockBps)
    BY DEF GainLocked
  <2>1. best[p] \in Nat BY DEF IInv, TypeOK
  <2>2. pos[p].stop = StopFor(p, best[p]) BY DEF IInv, TrailsBest
  <2> QED BY <2>1, <2>2, StopLocked
<1> QED BY <1>1, Invariant, PTL

(* While a position is held its armed stop only tightens. *)
THEOREM OnlyTightensAlways == Spec => OnlyTightens
<1> DEFINE Tightens(p) ==
      pos[p].armed => /\ pos'[p].armed
                      /\ Sign(p) * pos'[p].stop >= Sign(p) * pos[p].stop
<1>1. IInv /\ [Next]_vars => [\A p \in Positions : Tightens(p)]_vars
  <2> SUFFICES ASSUME IInv, Next, NEW q \in Positions, pos[q].armed
               PROVE  Tightens(q)
    OBVIOUS
  <2>0. pos \in [Positions -> Row] /\ pos[q].stop \in Int
    BY DEF IInv, TypeOK, Row
  <2>1. Sign(q) * pos[q].stop >= Sign(q) * pos[q].stop BY <2>0, SignIs
  <2>2. CASE BeginCycle \/ CycleFails BY <2>1, <2>2 DEF BeginCycle, CycleFails
  <2>3. ASSUME NEW p \in Positions, Open(p) PROVE Tightens(q)
    <3>1. p # q BY <2>3 DEF Open, IInv, FreshOK
    <3> QED BY <2>0, <2>1, <2>3, <3>1 DEF Open
  <2>4. ASSUME NEW p \in Positions, NoPrice(p) PROVE Tightens(q)
    BY <2>1, <2>4 DEF NoPrice
  <2>5. ASSUME NEW p \in Positions, NEW price \in Prices, NEW ok \in BOOLEAN,
               ExitAtLevel(p, price, ok)
        PROVE  Tightens(q)
    BY <2>0, <2>1, <2>5 DEF ExitAtLevel, Row
  <2>6. ASSUME NEW p \in Positions, NEW price \in Prices, NEW ok \in BOOLEAN,
               NEW shouldExit \in BOOLEAN, Evaluate(p, price, shouldExit, ok)
        PROVE  Tightens(q)
    <3>1. CASE p = q BY <2>6, <3>1, EvaluateInv DEF ArmedAt
    <3>2. CASE p # q BY <2>0, <2>1, <2>6, <3>2 DEF Evaluate
    <3> QED BY <3>1, <3>2
  <2> QED BY <2>2, <2>3, <2>4, <2>5, <2>6 DEF Next
<1>2. IInv /\ [Next]_vars => [Next /\ \A p \in Positions : Tightens(p)]_vars
  BY <1>1
<1> QED BY <1>1, Invariant, PTL DEF Spec, OnlyTightens

-----------------------------------------------------------------------------
(* The counter bounds what every held position is owed: one less while its *)
(* visit in a cycle without a check is still to come.                      *)
OwedOK(p) ==
    /\ owed[p] < CheckInterval
    /\ pos[p].status = "None" => owed[p] = 0 /\ p \notin todo
    /\ p \notin todo /\ pos[p].status = "OPEN" => owed[p] <= counter
    /\ p \in todo /\ ~due => owed[p] < counter /\ counter < CheckInterval

OwedInv == \A p \in Positions : OwedOK(p)

LEMMA OwedStep == TypeOK /\ TypeOK' /\ OwedInv /\ [Next]_vars => OwedInv'
<1> SUFFICES ASSUME TypeOK, TypeOK', OwedInv, [Next]_vars, NEW q \in Positions
             PROVE  OwedOK(q)'
  BY DEF OwedInv
<1>0. /\ CheckInterval \in Nat \ {0} /\ counter \in Nat /\ counter' \in Nat
      /\ counter <= CheckInterval /\ due \in BOOLEAN /\ OwedOK(q)
      /\ owed[q] \in Nat /\ pos \in [Positions -> Row] /\ pos[q] \in Row
      /\ owed \in [Positions -> Nat] /\ pos[q].status \in {"None", "OPEN", "CLOSED"}
  BY ExitRulesAssumption DEF TypeOK, OwedInv, Row
<1>1. CASE BeginCycle
  <2>1. pos' = pos /\ owed' = owed /\ todo = {}
        /\ (q \in todo' <=> pos[q].status = "OPEN")
    BY <1>1 DEF BeginCycle
  <2>2. CASE counter + 1 >= CheckInterval
    <3>1. due' /\ counter' = 0 BY <1>1, <2>2 DEF BeginCycle
    <3> QED BY <1>0, <2>1, <3>1 DEF OwedOK
  <2>3. CASE ~(counter + 1 >= CheckInterval)
    <3>1. ~due' /\ counter' = counter + 1 BY <1>1, <2>3 DEF BeginCycle
    <3> QED BY <1>0, <2>1, <2>3, <3>1 DEF OwedOK
  <2> QED BY <2>2, <2>3
<1>2. CASE CycleFails
  <2>1. pos' = pos /\ todo' = {} /\ counter' >= counter
    BY <1>0, <1>2 DEF CycleFails
  <2>2. owed'[q] = 0 \/ (owed'[q] = owed[q] /\ q \notin todo)
    BY <1>2 DEF CycleFails
  <2> QED BY <1>0, <2>1, <2>2 DEF OwedOK
<1>3. ASSUME NEW p \in Positions, Open(p) PROVE OwedOK(q)'
  <2>1. UNCHANGED <<counter, due, todo, owed>> BY <1>3 DEF Open
  <2>2. CASE p = q
    <3>1. pos[q].status = "None" BY <1>3, <2>2 DEF Open
    <3>2. pos'[q].status = "OPEN" BY <1>0, <1>3, <2>2 DEF Open
    <3> QED BY <1>0, <2>1, <3>1, <3>2 DEF OwedOK
  <2>3. CASE p # q
    <3>1. pos'[q] = pos[q] BY <1>0, <1>3, <2>3 DEF Open
    <3> QED BY <1>0, <2>1, <3>1 DEF OwedOK
  <2> QED BY <2>2, <2>3
<1>4. ASSUME NEW p \in Positions,
             owed'[p] = 0 \/ (~due /\ owed'[p] = owed[p] + 1),
             pos'[p].status # "None", p \in todo, Visit(p),
             p # q => owed'[q] = owed[q] /\ pos'[q] = pos[q]
      PROVE  OwedOK(q)'
  <2>1. counter' = counter /\ due' = due /\ todo' = todo \ {p}
    BY <1>4 DEF Visit
  <2>2. CASE p = q BY <1>0, <1>4, <2>1, <2>2 DEF OwedOK
  <2>3. CASE p # q BY <1>0, <1>4, <2>1, <2>3 DEF OwedOK
  <2> QED BY <2>2, <2>3
<1>5. ASSUME NEW p \in Positions, NoPrice(p) PROVE OwedOK(q)'
  <2>1. p \in todo /\ Visit(p) /\ pos' = pos BY <1>5 DEF NoPrice, Visit
  <2>2. owed'[p] = 0 /\ (p # q => owed'[q] = owed[q])
    BY <1>0, <1>5 DEF NoPrice
  <2>3. pos'[p].status # "None" BY <2>1 DEF OwedInv, OwedOK
  <2> QED BY <1>4, <2>1, <2>2, <2>3
<1>6. ASSUME NEW p \in Positions, NEW price \in Prices, NEW ok \in BOOLEAN,
             ExitAtLevel(p, price, ok)
      PROVE  OwedOK(q)'
  <2>1. p \in todo /\ Visit(p) BY <1>6 DEF ExitAtLevel, Visit
  <2>2. owed'[p] = 0 /\ (p # q => owed'[q] = owed[q] /\ pos'[q] = pos[q])
    BY <1>0, <1>6 DEF ExitAtLevel
  <2>3. pos'[p].status # "None"
    BY <1>0, <1>6 DEF ExitAtLevel, Attempt, Row
  <2> QED BY <1>4, <2>1, <2>2, <2>3
<1>7. ASSUME NEW p \in Positions, NEW price \in Prices, NEW ok \in BOOLEAN,
             NEW shouldExit \in BOOLEAN, Evaluate(p, price, shouldExit, ok)
      PROVE  OwedOK(q)'
  <2>1. p \in todo /\ Visit(p) BY <1>7 DEF Evaluate, Visit
  <2>2. owed'[p] = IF due THEN 0 ELSE owed[p] + 1 BY <1>0, <1>7 DEF Evaluate
  <2>3. p # q => owed'[q] = owed[q] /\ pos'[q] = pos[q]
    BY <1>0, <1>7 DEF Evaluate
  <2>4. pos'[p].status # "None" BY <1>0, <1>7 DEF Evaluate, Attempt
  <2> QED BY <1>4, <2>1, <2>2, <2>3, <2>4
<1>8. CASE UNCHANGED vars BY <1>0, <1>8 DEF vars, OwedOK
<1> QED BY <1>1, <1>2, <1>3, <1>5, <1>6, <1>7, <1>8 DEF Next

(* No position is starved of its trend check by the others. *)
THEOREM NoneStarvedAlways == Spec => []NoneStarved
<1>1. Init => OwedInv
  BY ExitRulesAssumption DEF Init, OwedInv, OwedOK
<1>2. IInv => TypeOK BY DEF IInv
<1>3. OwedInv => NoneStarved BY DEF OwedInv, OwedOK, NoneStarved
<1> QED BY <1>1, <1>2, <1>3, OwedStep, Invariant, PTL DEF Spec

-----------------------------------------------------------------------------
(* The health checks.  Times left and ages are tied to each other.         *)

Stale == "trend_cache_stale"

HealthTyped ==
    /\ fetcher \in {"ok", "failing", "stuck", "stopped"}
    /\ cycle \in 0 .. FetchInterval /\ next \in 0 .. HealthInterval /\ grace \in Nat
    /\ monitored \subseteq Series /\ outage \in Nat
    /\ fresh \in [Series -> BOOLEAN] /\ trendAge \in [Series -> Nat]
    /\ close \in [Series -> Nat] /\ \A s \in Series : close[s] \in 1 .. Length[s]
    /\ active \subseteq Health!Issues /\ cooling \in [Health!Issues -> Nat]

\* A trend is no older than its bar, or than the cycle that fetches the next
\* one, unless the fetcher failed since that cycle was due.
BarsOK ==
    \A s \in monitored :
        /\ ~fresh[s] => trendAge[s] <= Length[s] - close[s]
        /\ fresh[s] => \/ trendAge[s] <= Length[s] + FetchInterval - cycle
                       \/ outage <= FetchInterval - cycle

\* An active issue over trends dates from a check soon after a failure.
AlarmOK ==
    /\ fetcher # "ok" => outage = 0
    /\ grace > 0 => active = {}
    /\ Stale \in active =>
          /\ Series # {}
          /\ monitored = Series => outage <= FetchInterval + HealthInterval - next
    /\ cooling[Stale] > 0 => Stale \in active

\* What is not noticed has aged since the last check only.
NoticeOK ==
    \A s \in monitored :
        /\ grace > 0 => trendAge[s] <= GracePeriod - grace
        /\ grace = 0 /\ Stale \notin active =>
              trendAge[s] <= Health!TrendAllowedAge(s) + HealthInterval - next

AlertsInv == HealthTyped /\ BarsOK /\ AlarmOK /\ NoticeOK

LEMMA OlderIs ==
    ASSUME Health!AlertsAssumption, NEW a \in Nat
    PROVE  Health!Older(a) \in Nat /\ Health!Older(a) <= a + 1
<1>1. Old \in Nat
  BY DEF Health!AlertsAssumption
<1>2. a # Health!None
  BY DEF Health!None
<1>3. Health!Older(a) = IF a < Old THEN a + 1 ELSE Old
  BY <1>2 DEF Health!Older
<1> QED BY <1>1, <1>3

LEMMA AllowedIs ==
    ASSUME Health!AlertsAssumption, NEW s \in Series
    PROVE  /\ Health!TrendAllowedAge(s) \in Nat /\ Length[s] \in Nat \ {0}
           /\ Health!TrendAllowedAge(s) >= TrendMaxAge
           /\ Health!TrendAllowedAge(s) >= Length[s] + FetchInterval
  BY DEF Health!TrendAllowedAge, Health!Larger, Health!AlertsAssumption

LEMMA AlertsInit == ASSUME Health!AlertsAssumption, Health!Init PROVE AlertsInv
<1>1. /\ GracePeriod \in Nat /\ Old \in Nat /\ FetchInterval \in Nat /\ HealthInterval \in Nat
      /\ Length \in [Series -> Nat \ {0}]
  BY DEF Health!AlertsAssumption
<1>2. /\ fetcher = "ok" /\ cycle = 0 /\ close = Length /\ fresh = [s \in Series |-> FALSE]
      /\ trendAge = [s \in Series |-> 0] /\ monitored = Series /\ next = 0
      /\ grace = GracePeriod /\ active = {} /\ cooling = [i \in Health!Issues |-> 0]
      /\ outage = Old
  BY DEF Health!Init
<1>3. HealthTyped
  BY <1>1, <1>2 DEF HealthTyped
<1>4. BarsOK
  BY <1>1, <1>2 DEF BarsOK
<1>5. AlarmOK
  BY <1>2 DEF AlarmOK, Stale, Health!Issues
<1>6. NoticeOK
  <2> SUFFICES ASSUME NEW s \in Series
               PROVE  0 <= Health!TrendAllowedAge(s) + HealthInterval - 0
    BY <1>1, <1>2 DEF NoticeOK
  <2> QED BY <1>1, AllowedIs
<1> QED BY <1>3, <1>4, <1>5, <1>6 DEF AlertsInv

LEMMA ChecksStep ==
    ASSUME Health!AlertsAssumption, AlertsInv, Health!RunChecks
    PROVE  AlertsInv'
<1>1. /\ next' = HealthInterval /\ grace = 0
      /\ UNCHANGED <<fetcher, cycle, close, fresh, trendAge, monitored, grace, outage>>
  BY DEF Health!RunChecks, Health!feedVars
<1>2. PICK judged \in {monitored, Series} :
         LET V == [i \in Health!Issues |-> Health!Verdict(i, judged)]
         IN  /\ active' = (active \cup Health!Triggered(V)) \ Health!Recovered(V)
             /\ cooling' = Health!Cooled(V)
  BY DEF Health!RunChecks
<1> DEFINE V == [i \in Health!Issues |-> Health!Verdict(i, judged)]
<1>3. Stale \in Health!Issues /\ V[Stale] = Health!TrendCache(judged)
  BY DEF Stale, Health!Issues, Health!Verdict
<1>4. V[Stale] \in {"good", "bad"}
  BY <1>3 DEF Health!TrendCache
<1>5. /\ active' = (active \cup Health!Triggered(V)) \ Health!Recovered(V)
      /\ cooling' = Health!Cooled(V)
  BY <1>2
<1> HIDE DEF V
<1>6. Stale \in active' <=> V[Stale] = "bad"
  BY <1>3, <1>4, <1>5 DEF Health!Triggered, Health!Recovered, AlertsInv, AlarmOK, HealthTyped
<1>7. cooling' \in [Health!Issues -> Nat] /\ active' \subseteq Health!Issues
  BY <1>5 DEF Health!Cooled, Health!Triggered, Health!Recovered, Health!AlertsAssumption,
      AlertsInv, HealthTyped
<1>8. cooling'[Stale] > 0 => Stale \in active'
  <2>1. CASE V[Stale] = "good" /\ Stale \in active
    <3>1. Stale \in Health!Recovered(V) /\ Stale \notin Health!Triggered(V)
      BY <2>1 DEF Health!Recovered, Health!Triggered
    <3>2. cooling'[Stale] = 0
      BY <1>3, <1>5, <3>1 DEF Health!Cooled
    <3> QED BY <3>2
  <2>2. CASE V[Stale] = "good" /\ Stale \notin active
    <3>1. Stale \notin Health!Recovered(V) /\ Stale \notin Health!Triggered(V)
      BY <2>2 DEF Health!Recovered, Health!Triggered
    <3>2. cooling'[Stale] = cooling[Stale]
      BY <1>3, <1>5, <3>1 DEF Health!Cooled
    <3> QED BY <2>2, <3>2 DEF AlertsInv, AlarmOK
  <2> QED BY <1>4, <1>6, <2>1, <2>2
<1>9. ASSUME NEW s \in judged PROVE s \in Series
  BY <1>2, <1>9 DEF AlertsInv, HealthTyped
<1>10. HealthTyped'
  BY <1>1, <1>7 DEF AlertsInv, HealthTyped, Health!AlertsAssumption
<1>11. BarsOK'
  BY <1>1 DEF AlertsInv, BarsOK
<1>12. AlarmOK'
  <2>1. ASSUME Stale \in active'
        PROVE  Series # {} /\ (monitored = Series => outage <= FetchInterval)
    <3>1. PICK s \in judged : trendAge[s] > Health!TrendAllowedAge(s)
      BY <1>3, <1>6, <2>1 DEF Health!TrendCache
    <3>2. s \in Series
      BY <1>9
    <3>3. ASSUME monitored = Series PROVE outage <= FetchInterval
      <4>1. /\ trendAge[s] \in Nat /\ close[s] \in Nat /\ cycle \in 0 .. FetchInterval
            /\ outage \in Nat /\ FetchInterval \in Nat
        BY <3>2 DEF AlertsInv, HealthTyped, Health!AlertsAssumption
      <4>2. trendAge[s] > Length[s] + FetchInterval /\ Length[s] \in Nat
        BY <3>1, <3>2, <4>1, AllowedIs
      <4>3. \/ trendAge[s] <= Length[s] - close[s]
            \/ trendAge[s] <= Length[s] + FetchInterval - cycle
            \/ outage <= FetchInterval - cycle
        BY <3>2, <3>3 DEF AlertsInv, HealthTyped, BarsOK
      <4> QED BY <4>1, <4>2, <4>3
    <3> QED BY <3>2, <3>3
  <2>2. HealthInterval \in Nat /\ FetchInterval \in Nat /\ outage \in Nat
    BY DEF AlertsInv, HealthTyped, Health!AlertsAssumption
  <2> QED BY <1>1, <1>8, <2>1, <2>2 DEF AlertsInv, AlarmOK
<1>13. NoticeOK'
  <2> SUFFICES ASSUME NEW s \in monitored, Stale \notin active'
               PROVE  trendAge[s] <= Health!TrendAllowedAge(s) + HealthInterval - HealthInterval
    BY <1>1 DEF NoticeOK, Health!TrendAllowedAge
  <2>1. s \in judged /\ s \in Series
    BY <1>2 DEF AlertsInv, HealthTyped
  <2>2. ~(trendAge[s] > Health!TrendAllowedAge(s))
    BY <1>3, <1>4, <1>6, <2>1 DEF Health!TrendCache
  <2>3. trendAge[s] \in Nat /\ HealthInterval \in Nat
    BY <2>1 DEF AlertsInv, HealthTyped, Health!AlertsAssumption
  <2> QED BY <2>1, <2>2, <2>3, AllowedIs
<1> QED BY <1>10, <1>11, <1>12, <1>13 DEF AlertsInv

LEMMA HealthTick ==
    ASSUME Health!AlertsAssumption, GracePeriod <= TrendMaxAge, AlertsInv, Health!Tick
    PROVE  AlertsInv'
<1>1. /\ next > 0 /\ (cycle > 0 \/ fetcher \in {"stuck", "stopped"})
      /\ next' = next - 1 /\ cycle' = Health!Less(cycle) /\ grace' = Health!Less(grace)
      /\ close' = [s \in Series |-> IF close[s] = 1 THEN Length[s] ELSE close[s] - 1]
      /\ fresh' = [s \in Series |-> s \in monitored /\ (fresh[s] \/ close[s] = 1)]
      /\ trendAge' = [s \in Series |-> Health!Older(trendAge[s])]
      /\ cooling' = [i \in Health!Issues |-> Health!Less(cooling[i])]
      /\ outage' = IF fetcher = "ok" THEN Health!Older(outage) ELSE 0
      /\ UNCHANGED <<fetcher, monitored, active>>
  BY DEF Health!Tick
<1>2. /\ GracePeriod \in Nat /\ FetchInterval \in Nat /\ HealthInterval \in Nat
      /\ TrendMaxAge \in Nat /\ Length \in [Series -> Nat \ {0}]
  BY DEF Health!AlertsAssumption
<1>3. /\ next \in 0 .. HealthInterval /\ cycle \in 0 .. FetchInterval /\ grace \in Nat
      /\ outage \in Nat /\ monitored \subseteq Series
  BY DEF AlertsInv, HealthTyped
<1>4. /\ cycle' = IF cycle = 0 THEN 0 ELSE cycle - 1
      /\ grace' = IF grace = 0 THEN 0 ELSE grace - 1
  BY <1>1 DEF Health!Less
<1>5. /\ outage' \in Nat /\ outage' <= outage + 1 /\ (fetcher # "ok" => outage' = 0)
  BY <1>1, <1>3, OlderIs
<1>6. \A s \in Series : trendAge'[s] \in Nat /\ trendAge[s] \in Nat /\ trendAge'[s] <= trendAge[s] + 1
  BY <1>1, OlderIs DEF AlertsInv, HealthTyped
<1>7. \A s \in Series : close[s] \in 1 .. Length[s] /\ Length[s] \in Nat \ {0}
  BY <1>2 DEF AlertsInv, HealthTyped
<1>8. \A i \in Health!Issues : cooling'[i] \in Nat /\ (cooling'[i] > 0 => cooling[i] > 0)
  BY <1>1 DEF AlertsInv, HealthTyped, Health!Less
<1>9. HealthTyped'
  <2>1. cooling' \in [Health!Issues -> Nat] /\ trendAge' \in [Series -> Nat]
    BY <1>1, <1>6, <1>8
  <2>2. close' \in [Series -> Nat] /\ \A s \in Series : close'[s] \in 1 .. Length[s]
    BY <1>1, <1>7
  <2>3. fresh' \in [Series -> BOOLEAN]
    BY <1>1
  <2> QED BY <1>1, <1>2, <1>3, <1>4, <1>5, <2>1, <2>2, <2>3 DEF AlertsInv, HealthTyped
<1>10. BarsOK'
  <2> SUFFICES ASSUME NEW s \in monitored
               PROVE  /\ ~fresh'[s] => trendAge'[s] <= Length[s] - close'[s]
                      /\ fresh'[s] => \/ trendAge'[s] <= Length[s] + FetchInterval - cycle'
                                     \/ outage' <= FetchInterval - cycle'
    BY <1>1 DEF BarsOK
  <2>1. s \in Series
    BY <1>3
  <2>2. /\ fresh'[s] <=> (fresh[s] \/ close[s] = 1)
        /\ close'[s] = IF close[s] = 1 THEN Length[s] ELSE close[s] - 1
    BY <1>1, <2>1
  <2>3. /\ ~fresh[s] => trendAge[s] <= Length[s] - close[s]
        /\ fresh[s] => \/ trendAge[s] <= Length[s] + FetchInterval - cycle
                       \/ outage <= FetchInterval - cycle
    BY DEF AlertsInv, BarsOK
  <2>4. CASE ~fresh[s]
    BY <1>2, <1>3, <1>4, <1>6, <1>7, <2>1, <2>2, <2>3, <2>4
  <2>5. CASE fresh[s] /\ cycle = 0
    BY <1>1, <1>2, <1>4, <1>5, <2>2, <2>5
  <2>6. CASE fresh[s] /\ cycle # 0
    BY <1>2, <1>3, <1>4, <1>5, <1>6, <1>7, <2>1, <2>2, <2>3, <2>6
  <2> QED BY <2>4, <2>5, <2>6
<1>11. AlarmOK'
  <2>1. Stale \in Health!Issues
    BY DEF Stale, Health!Issues
  <2>2. cooling'[Stale] > 0 => Stale \in active
    BY <1>8, <2>1 DEF AlertsInv, AlarmOK
  <2>3. grace' > 0 => active = {}
    BY <1>3, <1>4 DEF AlertsInv, AlarmOK
  <2>4. ASSUME Stale \in active
        PROVE  Series # {} /\ (monitored = Series => outage' <= FetchInterval + HealthInterval - next')
    BY <1>1, <1>2, <1>3, <1>5, <2>4 DEF AlertsInv, AlarmOK
  <2> QED BY <1>1, <1>5, <2>2, <2>3, <2>4 DEF AlarmOK
<1>12. NoticeOK'
  <2> SUFFICES ASSUME NEW s \in monitored
               PROVE  /\ grace' > 0 => trendAge'[s] <= GracePeriod - grace'
                      /\ grace' = 0 /\ Stale \notin active =>
                            trendAge'[s] <= Health!TrendAllowedAge(s) + HealthInterval - next'
    BY <1>1 DEF NoticeOK, Health!TrendAllowedAge
  <2>1. s \in Series
    BY <1>3
  <2>2. /\ grace > 0 => trendAge[s] <= GracePeriod - grace
        /\ grace = 0 /\ Stale \notin active =>
              trendAge[s] <= Health!TrendAllowedAge(s) + HealthInterval - next
    BY DEF AlertsInv, NoticeOK
  <2>3. Health!TrendAllowedAge(s) \in Nat /\ Health!TrendAllowedAge(s) >= TrendMaxAge
    BY <2>1, AllowedIs
  <2> QED BY <1>1, <1>2, <1>3, <1>4, <1>6, <2>1, <2>2, <2>3
<1> QED BY <1>9, <1>10, <1>11, <1>12 DEF AlertsInv

LEMMA AlertsStep ==
    ASSUME Health!AlertsAssumption, GracePeriod <= TrendMaxAge, AlertsInv,
           [Health!Next]_Health!vars
    PROVE  AlertsInv'
<1> USE DEF AlertsInv, HealthTyped, BarsOK, AlarmOK, NoticeOK, Health!feedVars,
        Health!worldVars, Health!serviceVars
<1>1. FetchInterval \in Nat /\ HealthInterval \in Nat
  BY DEF Health!AlertsAssumption
<1>2. CASE Health!InGrace
  <2>1. UNCHANGED <<fetcher, cycle, close, fresh, trendAge, monitored, grace, active, cooling, outage>>
    BY <1>2 DEF Health!InGrace
  <2>2. next' = HealthInterval /\ next = 0 /\ grace > 0
    BY <1>2 DEF Health!InGrace
  <2>3. HealthTyped' /\ BarsOK' /\ NoticeOK'
    BY <1>1, <2>1, <2>2 DEF Health!TrendAllowedAge
  <2>4. AlarmOK'
    BY <1>1, <2>1, <2>2
  <2> QED BY <2>3, <2>4
<1>3. CASE Health!FetchCycle
  <2>1. /\ cycle = 0 /\ cycle' = FetchInterval /\ fetcher \in {"ok", "failing"}
        /\ UNCHANGED <<fetcher, close, monitored, next, grace, active, cooling, outage>>
    BY <1>3 DEF Health!FetchCycle
  <2>2. CASE fetcher = "ok"
    <3>1. /\ trendAge' = [s \in Series |-> IF fresh[s] THEN 0 ELSE trendAge[s]]
          /\ fresh' = [s \in Series |-> FALSE]
      BY <1>3, <2>2 DEF Health!FetchCycle
    <3>2. HealthTyped'
      BY <1>1, <2>1, <3>1
    <3>3. \A s \in Series : /\ Length[s] \in Nat /\ close[s] \in 1 .. Length[s]
                            /\ trendAge[s] \in Nat /\ Health!TrendAllowedAge(s) \in Nat
                            /\ trendAge'[s] = IF fresh[s] THEN 0 ELSE trendAge[s]
      BY <3>1, AllowedIs
    <3>4. BarsOK'
      BY <1>1, <2>1, <3>1, <3>3
    <3>5. AlarmOK'
      BY <2>1
    <3>6. NoticeOK'
      <4> SUFFICES ASSUME NEW s \in monitored
                   PROVE  /\ grace > 0 => trendAge'[s] <= GracePeriod - grace
                          /\ grace = 0 /\ Stale \notin active =>
                                trendAge'[s] <= Health!TrendAllowedAge(s) + HealthInterval - next
        BY <2>1 DEF Health!TrendAllowedAge
      <4>1. /\ grace > 0 => trendAge[s] <= GracePeriod - grace
            /\ grace = 0 /\ Stale \notin active =>
                  trendAge[s] <= Health!TrendAllowedAge(s) + HealthInterval - next
        OBVIOUS
      <4>2. trendAge'[s] \in Nat /\ trendAge'[s] <= trendAge[s] /\ trendAge[s] \in Nat
        BY <3>3
      <4> QED BY <1>1, <3>3, <4>1, <4>2 DEF Health!AlertsAssumption
    <3> QED BY <3>2, <3>4, <3>5, <3>6
  <2>3. CASE fetcher # "ok"
    <3>1. UNCHANGED <<trendAge, fresh>> /\ outage = 0
      BY <1>3, <2>3 DEF Health!FetchCycle
    <3> QED BY <1>1, <2>1, <3>1 DEF Health!TrendAllowedAge
  <2> QED BY <2>2, <2>3
<1>4. CASE Health!FetcherBreaks
  <2>1. /\ fetcher' \in {"failing", "stuck", "stopped"} /\ outage' = 0
        /\ UNCHANGED <<cycle, close, fresh, trendAge, monitored, next, grace, active, cooling>>
    BY <1>4 DEF Health!FetcherBreaks
  <2> QED BY <1>1, <2>1 DEF Health!TrendAllowedAge
<1>5. CASE Health!FetcherMended
  <2>1. /\ fetcher' = "ok"
        /\ UNCHANGED <<cycle, close, fresh, trendAge, monitored, next, grace, active, cooling, outage>>
    BY <1>5 DEF Health!FetcherMended
  <2> QED BY <2>1 DEF Health!TrendAllowedAge
<1>6. ASSUME NEW s \in Series, Health!Disable(s) PROVE AlertsInv'
  <2>1. /\ monitored' = monitored \ {s} /\ monitored' # Series
        /\ UNCHANGED <<fetcher, cycle, close, fresh, trendAge, next, grace, active, cooling, outage>>
    BY <1>6 DEF Health!Disable
  <2> QED BY <2>1 DEF Health!TrendAllowedAge
<1>7. CASE \/ Health!LoopDies \/ Health!ApiChanges \/ Health!TelegramChanges
           \/ UNCHANGED Health!vars
  <2>1. UNCHANGED <<fetcher, cycle, close, fresh, trendAge, monitored, next, grace, active,
                    cooling, outage>>
    BY <1>7 DEF Health!LoopDies, Health!ApiChanges, Health!TelegramChanges, Health!vars
  <2> QED BY <2>1 DEF Health!TrendAllowedAge
<1> QED
  BY <1>2, <1>3, <1>4, <1>5, <1>6, <1>7, ChecksStep, HealthTick
  DEF Health!Next, Health!ServiceStep, Health!WorldStep

\* Alarms over trends are neither false nor missing, for any series, bars,
\* intervals, limits and cooldowns, when the startup grace is no longer than a
\* trend may be old (120 s against 1200 s by default; alert_startup_grace_period
\* and alert_trend_max_age).
THEOREM AlarmsRightAlways ==
    ASSUME Health!AlertsAssumption, GracePeriod <= TrendMaxAge
    PROVE  EverySpec => []AlarmsRight
<1>1. AlertsInv => Health!NoFalseAlarm /\ Health!StaleNoticed
  <2> SUFFICES ASSUME AlertsInv PROVE Health!NoFalseAlarm /\ Health!StaleNoticed
    OBVIOUS
  <2>1. FetchInterval \in Nat /\ HealthInterval \in Nat /\ next \in 0 .. HealthInterval
        /\ outage \in Nat
    BY DEF AlertsInv, HealthTyped, Health!AlertsAssumption
  <2>2. ASSUME monitored = Series, Stale \in active
        PROVE  \E s \in Series : outage <= Length[s] + FetchInterval + HealthInterval
    <3>1. PICK s \in Series : TRUE
      BY <2>2 DEF AlertsInv, AlarmOK
    <3>2. outage <= FetchInterval + HealthInterval - next /\ Length[s] \in Nat
      BY <2>2, AllowedIs DEF AlertsInv, AlarmOK
    <3> QED BY <2>1, <3>2
  <2>3. ASSUME NEW s \in monitored, grace = 0, Stale \notin active
        PROVE  ~(trendAge[s] > Health!TrendAllowedAge(s) + HealthInterval)
    <3>1. s \in Series /\ trendAge[s] \in Nat
      BY DEF AlertsInv, HealthTyped
    <3>2. trendAge[s] <= Health!TrendAllowedAge(s) + HealthInterval - next
      BY <2>3 DEF AlertsInv, NoticeOK
    <3> QED BY <2>1, <3>1, <3>2, AllowedIs
  <2> QED BY <2>2, <2>3 DEF Health!NoFalseAlarm, Health!StaleNoticed, Stale
<1>2. EveryInit => (part = "health" => AlertsInv)
  BY AlertsInit DEF EveryInit
<1>3. (part = "health" => AlertsInv) /\ [EveryNext]_allVars => (part = "health" => AlertsInv)'
  <2>1. ASSUME [EveryNext]_allVars
        PROVE  part' = part /\ (part = "health" => [Health!Next]_Health!vars)
    <3>1. UNCHANGED allVars => part' = part /\ UNCHANGED health
      BY DEF allVars
    <3>2. UNCHANGED health => UNCHANGED Health!vars
      BY DEF health, Health!vars, Health!feedVars, Health!worldVars, Health!serviceVars
    <3> QED BY <2>1, <3>1, <3>2 DEF EveryNext
  <2> QED BY <2>1, AlertsStep
<1> QED
  BY <1>1, <1>2, <1>3, PTL DEF EverySpec, AlarmsRight
=============================================================================
