------------------------- MODULE MakerEntry_proofs -------------------------
(***************************************************************************)
(* Theorems about MakerEntry for every number of symbols, entries, lots    *)
(* and faults, and every timeout, cooldown and cap.                        *)
(*                                                                         *)
(* An inductive invariant that holds whatever fails (Inv), and four that   *)
(* each hold until a fault of certain kinds happens (the sets below); the  *)
(* later ones rest on the earlier ones.  A last one (PromiseOK), until any *)
(* fault, makes every step one of EntryPromise.                            *)
(***************************************************************************)
EXTENDS MakerEntry, TLAPS

\* Nothing has happened to entry e yet.
Untouched(e) ==
    /\ exch[e] = "none" /\ exec[e] = 0 /\ takerExec[e] = 0
    /\ ord[e] = "none"
    /\ rows[e] = 0 /\ booked[e] = 0 /\ takerRows[e] = 0

\* The state of a maker order bounds what it has executed.
BookOK ==
    \A e \in Entries :
        /\ exch[e] = "none" => exec[e] = 0
        /\ exch[e] = "open" => exec[e] < Lots
        /\ exch[e] = "Filled" => exec[e] = Lots

\* Entries are numbered in the order they are acted on, and a maker order is
\* only placed for an untouched one.
NumberOK ==
    /\ cur <= used
    /\ \A e \in todo : e <= used
    /\ \A e \in Entries : e > used => Untouched(e)
    /\ pc = "place" => Untouched(cur)
    /\ pc = "saveOrder" => ord[cur] = "none" /\ takerExec[cur] = 0

\* The reconciliation books nothing but a maker order that has ended filled.
BookingOK ==
    /\ pc = "book" => HasFill(cur)
    /\ \A e \in Entries :
          /\ rows[e] = 0 => booked[e] = 0
          /\ rows[e] > 0 => exec[e] > 0 /\ exch[e] \in Terminal
          /\ rows[e] = 1 => booked[e] = exec[e]

Inv == TypeOK /\ BookOK /\ NumberOK /\ BookingOK

\* A row the thread has read and still has to reconcile is an active one.
TodoOK ==
    /\ \A e \in todo : ord[e] \in Active
    /\ pc \in {"query", "history", "book", "tp", "mark", "outcome", "cancel",
               "markCancelled"} => cur \notin todo

\* No market order was executed for an entry that may still come to one.
TakerOK ==
    /\ \A e \in Entries :
          takerExec[e] <= 1 /\ (takerExec[e] = 1 => ord[e] \notin Active)
    /\ pc \in {"query", "history", "book", "tp", "mark", "outcome", "cancel",
               "markCancelled", "taker"} => takerExec[cur] = 0
    /\ pc = "taker" => ord[cur] \notin Active

\* The kinds of fault that interrupt the bookkeeping of a fill.
Interruptions == {"tp", "db", "crash"}

\* Until such a fault, an entry is booked once: wherever the thread may still
\* book the entry it works on, nothing is booked for it, and a row is active
\* no longer than until its order's fill is booked.
EntryOK ==
    /\ \A e \in Entries :
          /\ rows[e] + takerRows[e] <= 1
          /\ ord[e] \in Active =>
                /\ takerRows[e] = 0
                /\ rows[e] = 0 \/ (cur = e /\ pc \in {"tp", "mark"})
    /\ pc \in {"query", "history", "book", "cancel", "markCancelled", "taker",
               "takerBook", "place", "saveOrder"} =>
          rows[cur] = 0 /\ takerRows[cur] = 0
    /\ pc \in {"tp", "mark"} => rows[cur] = 1
    /\ pc \in {"taker", "takerBook"} => ord[cur] \notin Active
    /\ pc = "outcome" /\ outcome # "filled" => rows[cur] = 0 /\ takerRows[cur] = 0

\* Until any fault but a crash, the market order is only reached with the
\* maker order ended and nothing of it executed.
ExposureOK ==
    /\ \A e \in Entries : takerExec[e] > 0 => exec[e] = 0 /\ exch[e] # "open"
    /\ pass = "recheck" /\ pc \in {"query", "history", "book", "tp", "mark", "outcome"} =>
          exch[cur] # "open"
    /\ pass = "recheck" /\ pc = "outcome" =>
          outcome = "filled" \/ (outcome = "gone" /\ exec[cur] = 0)
    /\ pc \in {"markCancelled", "taker", "takerBook"} =>
          exec[cur] = 0 /\ exch[cur] # "open"

\* Until any fault, a row is active exactly as long as its order rests or
\* has executed lots to book.
TrackOK ==
    /\ \A e \in Entries :
          exch[e] = "open" \/ booked[e] # exec[e] =>
              ord[e] \in Active \/ (cur = e /\ pc = "saveOrder")
    /\ pc \in {"query", "history", "book", "tp", "mark", "cancel"} =>
          ord[cur] \in Active
    /\ pc = "outcome" /\ outcome = "resting" => ord[cur] \in Active

TakerInv == TodoOK /\ (Spared({"db"}) => TakerOK)
EntryInv == Spared(Interruptions) => EntryOK
ExposureInv == Spared(AllFaults \ {"crash"}) => ExposureOK
TrackInv == Spared(AllFaults) => TrackOK
-----------------------------------------------------------------------------
LEMMA InvInit == Init => Inv
<1> SUFFICES ASSUME Init PROVE Inv
  OBVIOUS
<1> USE DEF Init
<1>1. (CHOOSE x \in Symbols : TRUE) \in Symbols /\ (CHOOSE d \in Sides : TRUE) \in Sides
  BY MakerAssumption
<1>2. TypeOK
  BY <1>1, MakerAssumption DEF TypeOK, ExchStates, OrderStatuses
<1>3. BookOK /\ NumberOK /\ BookingOK
  BY MakerAssumption DEF BookOK, NumberOK, BookingOK, Untouched
<1>. QED
  BY <1>2, <1>3 DEF Inv

LEMMA StrikeTyped ==
    ASSUME struck \in [count : Nat, kinds : SUBSET AllFaults], NEW f, Strike(f)
    PROVE  struck' \in [count : Nat, kinds : SUBSET AllFaults]
  BY MakerAssumption DEF Strike

LEMMA TypeStep == ASSUME TypeOK, BookOK PROVE [Next]_vars => TypeOK'
<1> USE DEF TypeOK, vars, venue, ledger, entry, local
<1>1. ASSUME NEW e \in Entries, Fill(e) PROVE TypeOK'
  BY MakerAssumption, <1>1 DEF Fill, BookOK, ExchStates
<1>2. ASSUME NEW e \in Entries, VenueEnds(e) PROVE TypeOK'
  BY <1>2 DEF VenueEnds, ExchStates
<1>3. ASSUME NEW s \in Symbols, ClosePosition(s) PROVE TypeOK'
  BY MakerAssumption, <1>3 DEF ClosePosition
<1>4. ASSUME NEW s \in Symbols, NEW d \in Sides, Signal(s, d) PROVE TypeOK'
  <2>1. used + 1 \in Entries /\ used + 1 \in 0 .. MaxEntries
    BY <1>4, MakerAssumption DEF Signal, Entries
  <2>. QED
    BY <1>4, <2>1 DEF Signal
<1>5. CASE Tick
  BY MakerAssumption, <1>5 DEF Tick, Less
<1>6. CASE Restart
  <2>1. 0 \in 0 .. MaxEntries /\ struck' \in [count : Nat, kinds : SUBSET AllFaults]
    BY <1>6, MakerAssumption, StrikeTyped DEF Restart
  <2>. QED
    BY <1>6, <2>1 DEF Restart
<1>7. CASE BeginCycle
  BY <1>7 DEF BeginCycle
<1>8. CASE PickOrder
  <2>1. Entries \subseteq 0 .. MaxEntries
    BY MakerAssumption DEF Entries
  <2>. QED
    BY <1>8, <2>1 DEF PickOrder
<1>9. CASE EndOrders
  BY <1>9 DEF EndOrders
<1>10. CASE QueryOpen
  BY <1>10 DEF QueryOpen, Return
<1>11. CASE QueryFails
  BY StrikeTyped, <1>11 DEF QueryFails, Return
<1>12. CASE BookOpenSnapshot
  BY StrikeTyped, <1>12 DEF BookOpenSnapshot, Return
<1>13. CASE NotFound
  BY StrikeTyped, <1>13 DEF NotFound, Return
<1>14. CASE ReadHistory
  BY <1>14 DEF ReadHistory, Return, HasFill, Terminal, OrderStatuses
<1>15. CASE BookFill
  BY MakerAssumption, <1>15 DEF BookFill, Sym, Terminal
<1>16. CASE RestTakeProfit
  BY <1>16 DEF RestTakeProfit
<1>17. CASE TakeProfitRaises
  BY StrikeTyped, <1>17 DEF TakeProfitRaises, Return
<1>18. CASE MarkFilled
  BY <1>18 DEF MarkFilled, Return, Terminal, OrderStatuses
<1>19. CASE WriteFails
  BY StrikeTyped, <1>19 DEF WriteFails, Return, HasFill
<1>20. CASE Settle
  BY MakerAssumption, <1>20 DEF Settle, Sym
<1>21. CASE CancelMaker
  BY StrikeTyped, <1>21 DEF CancelMaker, ExchStates
<1>22. CASE SettleRecheck
  BY <1>22 DEF SettleRecheck
<1>23. CASE MarkCancelled
  BY StrikeTyped, <1>23 DEF MarkCancelled, Terminal, OrderStatuses
<1>24. CASE TakerExecutes
  BY <1>24 DEF TakerExecutes
<1>25. CASE TakerRefused
  BY MakerAssumption, <1>25 DEF TakerRefused, TakerReturn, Sym
<1>26. CASE TakerBooked
  BY StrikeTyped, MakerAssumption, <1>26 DEF TakerBooked, TakerReturn, Sym
<1>27. CASE BeginSignals
  BY <1>27 DEF BeginSignals
<1>28. CASE EndSignals
  BY <1>28 DEF EndSignals
<1>29. CASE PlaceMaker
  BY <1>29 DEF PlaceMaker, ExchStates
<1>30. CASE AckLost
  BY StrikeTyped, <1>30 DEF AckLost, ExchStates
<1>31. CASE SaveOrder
  BY MakerAssumption, <1>31 DEF SaveOrder, Sym, OrderStatuses, Active
<1>32. CASE SaveOrderFails
  BY StrikeTyped, <1>32 DEF SaveOrderFails
<1>33. CASE UNCHANGED vars
  BY <1>33
<1>34. QED
  BY <1>1, <1>2, <1>3, <1>4, <1>5, <1>6, <1>7, <1>8, <1>9, <1>10, <1>11, <1>12, <1>13, <1>14, <1>15, <1>16, <1>17, <1>18, <1>19, <1>20, <1>21, <1>22, <1>23, <1>24, <1>25, <1>26, <1>27, <1>28, <1>29, <1>30, <1>31, <1>32, <1>33 DEF Next, Monitor, Reconcile, Environment

\* Only five actions change what the venue says of a maker order.
LEMMA VenueFrame ==
    [Next]_vars =>
        \/ \E e \in Entries : Fill(e) \/ VenueEnds(e)
        \/ CancelMaker \/ PlaceMaker \/ AckLost
        \/ UNCHANGED <<exch, exec>>
  BY DEF Next, Monitor, Reconcile, Environment, vars, venue,
     ClosePosition, Signal, Tick, Restart, BeginCycle, PickOrder, EndOrders,
     QueryOpen, QueryFails, BookOpenSnapshot, NotFound, ReadHistory, BookFill,
     RestTakeProfit, TakeProfitRaises, MarkFilled, WriteFails, Settle,
     SettleRecheck, MarkCancelled, TakerExecutes, TakerRefused, TakerBooked,
     BeginSignals, EndSignals, SaveOrder, SaveOrderFails

LEMMA BookStep == ASSUME TypeOK, BookOK, NumberOK PROVE [Next]_vars => BookOK'
<1> USE DEF BookOK
<1>1. ASSUME NEW e \in Entries, Fill(e) PROVE BookOK'
  BY <1>1, MakerAssumption DEF Fill, TypeOK
<1>2. ASSUME NEW e \in Entries, VenueEnds(e) PROVE BookOK'
  BY <1>2 DEF VenueEnds, TypeOK
<1>3. CASE CancelMaker
  BY <1>3 DEF CancelMaker, TypeOK
<1>4. CASE PlaceMaker
  BY <1>4, MakerAssumption DEF PlaceMaker, TypeOK, NumberOK, Untouched
<1>5. CASE AckLost
  BY <1>5, MakerAssumption DEF AckLost, TypeOK, NumberOK, Untouched
<1>6. CASE UNCHANGED <<exch, exec>>
  BY <1>6
<1>. QED
  BY <1>1, <1>2, <1>3, <1>4, <1>5, <1>6, VenueFrame

LEMMA NumberStep == ASSUME TypeOK, BookOK, NumberOK PROVE [Next]_vars => NumberOK'
<1> USE DEF TypeOK, NumberOK, Untouched, vars, venue, ledger, entry, local
<1>1. ASSUME NEW e \in Entries, Fill(e) PROVE NumberOK'
  BY <1>1 DEF Fill, BookOK
<1>2. ASSUME NEW e \in Entries, VenueEnds(e) PROVE NumberOK'
  BY <1>2 DEF VenueEnds
<1>3. ASSUME NEW s \in Symbols, ClosePosition(s) PROVE NumberOK'
  BY <1>3 DEF ClosePosition
<1>4. ASSUME NEW s \in Symbols, NEW d \in Sides, Signal(s, d) PROVE NumberOK'
  <2>1. /\ used + 1 \in Entries /\ used + 1 > used
        /\ \A e \in Entries : e \in Int /\ (e > used + 1 => e > used)
    BY <1>4, MakerAssumption DEF Signal, Entries
  <2>2. \A e \in todo : e <= used + 1
    BY <2>1
  <2>3. UNCHANGED <<exch, exec, takerExec, ord, rows, booked, takerRows, todo>>
    BY <1>4 DEF Signal
  <2>4. used' = used + 1 /\ cur' = used + 1 /\ pc' = "place"
    BY <1>4 DEF Signal
  <2>. QED
    BY <2>1, <2>2, <2>3, <2>4
<1>5. CASE Tick
  BY <1>5 DEF Tick, Less
<1>6. CASE Restart
  BY MakerAssumption, <1>6 DEF Restart, Strike
<1>7. CASE BeginCycle
  <2>1. \A e \in Entries : e \in Int
    BY MakerAssumption DEF Entries
  <2>. QED
    BY <1>7, <2>1 DEF BeginCycle, Active
<1>8. CASE PickOrder
  BY <1>8 DEF PickOrder
<1>9. CASE EndOrders
  BY <1>9 DEF EndOrders
<1>10. CASE QueryOpen
  BY <1>10 DEF QueryOpen, Return
<1>11. CASE QueryFails
  BY <1>11 DEF QueryFails, Return, Strike
<1>12. CASE BookOpenSnapshot
  BY <1>12 DEF BookOpenSnapshot, Return, Strike
<1>13. CASE NotFound
  BY <1>13 DEF NotFound, Return, Strike
<1>14. CASE ReadHistory
  BY <1>14 DEF ReadHistory, Return, HasFill
<1>15. CASE BookFill
  BY <1>15 DEF BookFill, Sym
<1>16. CASE RestTakeProfit
  BY <1>16 DEF RestTakeProfit
<1>17. CASE TakeProfitRaises
  BY <1>17 DEF TakeProfitRaises, Return, Strike
<1>18. CASE MarkFilled
  BY <1>18 DEF MarkFilled, Return
<1>19. CASE WriteFails
  BY <1>19 DEF WriteFails, Return, Strike, HasFill
<1>20. CASE Settle
  BY <1>20 DEF Settle, Sym
<1>21. CASE CancelMaker
  BY <1>21 DEF CancelMaker, Strike
<1>22. CASE SettleRecheck
  BY <1>22 DEF SettleRecheck
<1>23. CASE MarkCancelled
  BY <1>23 DEF MarkCancelled, Strike
<1>24. CASE TakerExecutes
  BY <1>24 DEF TakerExecutes
<1>25. CASE TakerRefused
  BY <1>25 DEF TakerRefused, TakerReturn, Sym
<1>26. CASE TakerBooked
  BY <1>26 DEF TakerBooked, TakerReturn, Sym, Strike
<1>27. CASE BeginSignals
  BY <1>27 DEF BeginSignals
<1>28. CASE EndSignals
  BY <1>28 DEF EndSignals
<1>29. CASE PlaceMaker
  BY <1>29 DEF PlaceMaker
<1>30. CASE AckLost
  BY <1>30 DEF AckLost, Strike
<1>31. CASE SaveOrder
  BY <1>31 DEF SaveOrder, Sym
<1>32. CASE SaveOrderFails
  BY <1>32 DEF SaveOrderFails, Strike
<1>33. CASE UNCHANGED vars
  BY <1>33
<1>34. QED
  BY <1>1, <1>2, <1>3, <1>4, <1>5, <1>6, <1>7, <1>8, <1>9, <1>10, <1>11,
     <1>12, <1>13, <1>14, <1>15, <1>16, <1>17, <1>18, <1>19, <1>20, <1>21,
     <1>22, <1>23, <1>24, <1>25, <1>26, <1>27, <1>28, <1>29, <1>30, <1>31,
     <1>32, <1>33
  DEF Next, Monitor, Reconcile, Environment

LEMMA BookingStep == ASSUME TypeOK, BookOK, NumberOK, BookingOK PROVE [Next]_vars => BookingOK'
<1> USE DEF TypeOK, BookingOK, vars, venue, ledger, entry, local
<1>1. ASSUME NEW e \in Entries, Fill(e) PROVE BookingOK'
  BY <1>1 DEF Fill, Terminal, HasFill
<1>2. ASSUME NEW e \in Entries, VenueEnds(e) PROVE BookingOK'
  BY <1>2 DEF VenueEnds, HasFill, Terminal
<1>3. ASSUME NEW s \in Symbols, ClosePosition(s) PROVE BookingOK'
  BY <1>3 DEF ClosePosition
<1>4. ASSUME NEW s \in Symbols, NEW d \in Sides, Signal(s, d) PROVE BookingOK'
  BY <1>4 DEF Signal
<1>5. CASE Tick
  BY <1>5 DEF Tick, Less
<1>6. CASE Restart
  BY <1>6 DEF Restart, Strike
<1>7. CASE BeginCycle
  BY <1>7 DEF BeginCycle
<1>8. CASE PickOrder
  BY <1>8 DEF PickOrder
<1>9. CASE EndOrders
  BY <1>9 DEF EndOrders
<1>10. CASE QueryOpen
  BY <1>10 DEF QueryOpen, Return
<1>11. CASE QueryFails
  BY <1>11 DEF QueryFails, Return, Strike
<1>12. CASE BookOpenSnapshot
  BY <1>12 DEF BookOpenSnapshot, Return, Strike
<1>13. CASE NotFound
  BY <1>13 DEF NotFound, Return, Strike
<1>14. CASE ReadHistory
  BY <1>14 DEF ReadHistory, Return, HasFill
<1>15. CASE BookFill
  BY MakerAssumption, <1>15 DEF BookFill, Sym, Terminal, BookOK, HasFill
<1>16. CASE RestTakeProfit
  BY <1>16 DEF RestTakeProfit
<1>17. CASE TakeProfitRaises
  BY <1>17 DEF TakeProfitRaises, Return, Strike
<1>18. CASE MarkFilled
  BY <1>18 DEF MarkFilled, Return
<1>19. CASE WriteFails
  BY <1>19 DEF WriteFails, Return, Strike, HasFill
<1>20. CASE Settle
  BY <1>20 DEF Settle, Sym
<1>21. CASE CancelMaker
  BY <1>21 DEF CancelMaker, Strike, Terminal, HasFill
<1>22. CASE SettleRecheck
  BY <1>22 DEF SettleRecheck
<1>23. CASE MarkCancelled
  BY <1>23 DEF MarkCancelled, Strike
<1>24. CASE TakerExecutes
  BY <1>24 DEF TakerExecutes
<1>25. CASE TakerRefused
  BY <1>25 DEF TakerRefused, TakerReturn, Sym
<1>26. CASE TakerBooked
  BY <1>26 DEF TakerBooked, TakerReturn, Sym, Strike
<1>27. CASE BeginSignals
  BY <1>27 DEF BeginSignals
<1>28. CASE EndSignals
  BY <1>28 DEF EndSignals
<1>29. CASE PlaceMaker
  BY <1>29 DEF PlaceMaker, NumberOK, Untouched
<1>30. CASE AckLost
  BY <1>30 DEF AckLost, Strike, NumberOK, Untouched
<1>31. CASE SaveOrder
  BY <1>31 DEF SaveOrder, Sym
<1>32. CASE SaveOrderFails
  BY <1>32 DEF SaveOrderFails, Strike
<1>33. CASE UNCHANGED vars
  BY <1>33 DEF HasFill
<1>34. QED
  BY <1>1, <1>2, <1>3, <1>4, <1>5, <1>6, <1>7, <1>8, <1>9, <1>10, <1>11,
     <1>12, <1>13, <1>14, <1>15, <1>16, <1>17, <1>18, <1>19, <1>20, <1>21,
     <1>22, <1>23, <1>24, <1>25, <1>26, <1>27, <1>28, <1>29, <1>30, <1>31,
     <1>32, <1>33
  DEF Next, Monitor, Reconcile, Environment

\* Whatever fails, Inv is an invariant.
LEMMA InvAlways == Spec => []Inv
<1>1. Inv /\ [Next]_vars => Inv'
  BY TypeStep, BookStep, NumberStep, BookingStep DEF Inv
<1>. QED
  BY <1>1, InvInit, PTL DEF Spec

\* Every variable keeps its type: no lot more than an order's size is ever
\* executed, no counter of a cooldown or an age leaves its range, and the
\* thread never works on an entry that does not exist.
THEOREM TypeCorrect == Spec => []TypeOK
  BY InvAlways, PTL DEF Inv

\* Whatever fails, crashes included, _reconcile_maker_entry books a position
\* only from a maker order that has ended, and records all it executed.
THEOREM RowsBackedAlways == Spec => []RowsBacked
<1>1. Inv => RowsBacked
  BY DEF Inv, BookingOK, RowsBacked
<1>. QED
  BY <1>1, InvAlways, PTL

-----------------------------------------------------------------------------
(* At most one market order for an entry, as long as no write fails.       *)

LEMMA TodoStep == ASSUME TypeOK, NumberOK, TodoOK PROVE [Next]_vars => TodoOK'
<1> USE DEF TypeOK, TodoOK, vars, venue, ledger, entry, local
<1>1. ASSUME NEW e \in Entries, Fill(e) PROVE TodoOK'
  BY <1>1 DEF Fill
<1>2. ASSUME NEW e \in Entries, VenueEnds(e) PROVE TodoOK'
  BY <1>2 DEF VenueEnds
<1>3. ASSUME NEW s \in Symbols, ClosePosition(s) PROVE TodoOK'
  BY <1>3 DEF ClosePosition
<1>4. ASSUME NEW s \in Symbols, NEW d \in Sides, Signal(s, d) PROVE TodoOK'
  BY <1>4 DEF Signal, NumberOK
<1>5. CASE Tick
  BY <1>5 DEF Tick, Less
<1>6. CASE Restart
  BY <1>6 DEF Restart, Strike
<1>7. CASE BeginCycle
  BY <1>7 DEF BeginCycle
<1>8. CASE PickOrder
  BY <1>8 DEF PickOrder
<1>9. CASE EndOrders
  BY <1>9 DEF EndOrders
<1>10. CASE QueryOpen
  BY <1>10 DEF QueryOpen, Return
<1>11. CASE QueryFails
  BY <1>11 DEF QueryFails, Return, Strike
<1>12. CASE BookOpenSnapshot
  BY <1>12 DEF BookOpenSnapshot, Return, Strike
<1>13. CASE NotFound
  BY <1>13 DEF NotFound, Return, Strike
<1>14. CASE ReadHistory
  BY <1>14 DEF ReadHistory, Return, HasFill
<1>15. CASE BookFill
  BY <1>15 DEF BookFill, Sym
<1>16. CASE RestTakeProfit
  BY <1>16 DEF RestTakeProfit
<1>17. CASE TakeProfitRaises
  BY <1>17 DEF TakeProfitRaises, Return, Strike
<1>18. CASE MarkFilled
  BY <1>18 DEF MarkFilled, Return
<1>19. CASE WriteFails
  BY <1>19 DEF WriteFails, Return, Strike, HasFill
<1>20. CASE Settle
  BY <1>20 DEF Settle, Sym
<1>21. CASE CancelMaker
  BY <1>21 DEF CancelMaker, Strike
<1>22. CASE SettleRecheck
  BY <1>22 DEF SettleRecheck
<1>23. CASE MarkCancelled
  BY <1>23 DEF MarkCancelled, Strike
<1>24. CASE TakerExecutes
  BY <1>24 DEF TakerExecutes
<1>25. CASE TakerRefused
  BY <1>25 DEF TakerRefused, TakerReturn, Sym
<1>26. CASE TakerBooked
  BY <1>26 DEF TakerBooked, TakerReturn, Sym, Strike
<1>27. CASE BeginSignals
  BY <1>27 DEF BeginSignals
<1>28. CASE EndSignals
  BY <1>28 DEF EndSignals
<1>29. CASE PlaceMaker
  BY <1>29 DEF PlaceMaker
<1>30. CASE AckLost
  BY <1>30 DEF AckLost, Strike
<1>31. CASE SaveOrder
  BY <1>31 DEF SaveOrder, Sym, Active
<1>32. CASE SaveOrderFails
  BY <1>32 DEF SaveOrderFails, Strike
<1>33. CASE UNCHANGED vars
  BY <1>33
<1>34. QED
  BY <1>1, <1>2, <1>3, <1>4, <1>5, <1>6, <1>7, <1>8, <1>9, <1>10, <1>11,
     <1>12, <1>13, <1>14, <1>15, <1>16, <1>17, <1>18, <1>19, <1>20, <1>21,
     <1>22, <1>23, <1>24, <1>25, <1>26, <1>27, <1>28, <1>29, <1>30, <1>31,
     <1>32, <1>33
  DEF Next, Monitor, Reconcile, Environment

\* A kind of fault that has not happened by the next state has not happened.
LEMMA SparedBefore ==
    ASSUME [Next]_vars, NEW K, Spared(K)' PROVE Spared(K)
<1>1. struck.kinds \subseteq struck'.kinds
  BY DEF Next, Monitor, Reconcile, Environment, vars, Strike,
     Fill, VenueEnds, ClosePosition, Signal, Tick, Restart, BeginCycle,
     PickOrder, EndOrders, QueryOpen, QueryFails, BookOpenSnapshot, NotFound,
     ReadHistory, BookFill, RestTakeProfit, TakeProfitRaises, MarkFilled,
     WriteFails, Settle, CancelMaker, SettleRecheck, MarkCancelled,
     TakerExecutes, TakerRefused, TakerBooked, BeginSignals, EndSignals,
     PlaceMaker, AckLost, SaveOrder, SaveOrderFails
<1>. QED
  BY <1>1 DEF Spared

\* A fault that happens is on record.
LEMMA StrikeMarks ==
    ASSUME NEW K, NEW f \in K, Strike(f) PROVE ~Spared(K)'
  BY DEF Strike, Spared

LEMMA TakerStep == 
    ASSUME TypeOK, NumberOK, TodoOK, TakerOK, Spared({"db"})'
    PROVE  [Next]_vars => TakerOK'
<1> USE DEF TypeOK, TakerOK, vars, venue, ledger, entry, local, Spared
<1>1. ASSUME NEW e \in Entries, Fill(e) PROVE TakerOK'
  BY <1>1 DEF Fill
<1>2. ASSUME NEW e \in Entries, VenueEnds(e) PROVE TakerOK'
  BY <1>2 DEF VenueEnds
<1>3. ASSUME NEW s \in Symbols, ClosePosition(s) PROVE TakerOK'
  BY <1>3 DEF ClosePosition
<1>4. ASSUME NEW s \in Symbols, NEW d \in Sides, Signal(s, d) PROVE TakerOK'
  BY MakerAssumption, <1>4 DEF Signal, Entries, NumberOK, Untouched
<1>5. CASE Tick
  BY <1>5 DEF Tick, Less
<1>6. CASE Restart
  BY <1>6 DEF Restart, Strike
<1>7. CASE BeginCycle
  BY <1>7 DEF BeginCycle
<1>8. CASE PickOrder
  BY <1>8 DEF PickOrder, TodoOK
<1>9. CASE EndOrders
  BY <1>9 DEF EndOrders
<1>10. CASE QueryOpen
  BY <1>10 DEF QueryOpen, Return
<1>11. CASE QueryFails
  BY <1>11 DEF QueryFails, Return, Strike
<1>12. CASE BookOpenSnapshot
  BY <1>12 DEF BookOpenSnapshot, Return, Strike
<1>13. CASE NotFound
  BY <1>13 DEF NotFound, Return, Strike
<1>14. CASE ReadHistory
  BY <1>14 DEF ReadHistory, Return, HasFill, Active, Terminal
<1>15. CASE BookFill
  BY <1>15 DEF BookFill, Sym
<1>16. CASE RestTakeProfit
  BY <1>16 DEF RestTakeProfit
<1>17. CASE TakeProfitRaises
  BY <1>17 DEF TakeProfitRaises, Return, Strike
<1>18. CASE MarkFilled
  BY <1>18 DEF MarkFilled, Return, Active
<1>19. CASE WriteFails
  BY <1>19 DEF WriteFails, Return, Strike, HasFill
<1>20. CASE Settle
  BY <1>20 DEF Settle, Sym
<1>21. CASE CancelMaker
  BY <1>21 DEF CancelMaker, Strike
<1>22. CASE SettleRecheck
  BY <1>22 DEF SettleRecheck
<1>23. CASE MarkCancelled
  BY <1>23 DEF MarkCancelled, Strike, Active
<1>24. CASE TakerExecutes
  BY <1>24 DEF TakerExecutes
<1>25. CASE TakerRefused
  BY <1>25 DEF TakerRefused, TakerReturn, Sym
<1>26. CASE TakerBooked
  BY <1>26 DEF TakerBooked, TakerReturn, Sym, Strike
<1>27. CASE BeginSignals
  BY <1>27 DEF BeginSignals
<1>28. CASE EndSignals
  BY <1>28 DEF EndSignals
<1>29. CASE PlaceMaker
  BY <1>29 DEF PlaceMaker, NumberOK, Untouched, Active
<1>30. CASE AckLost
  BY <1>30 DEF AckLost, Strike, NumberOK, Untouched, Active
<1>31. CASE SaveOrder
  BY <1>31 DEF SaveOrder, Sym, NumberOK
<1>32. CASE SaveOrderFails
  BY <1>32 DEF SaveOrderFails, Strike
<1>33. CASE UNCHANGED vars
  BY <1>33
<1>34. QED
  BY <1>1, <1>2, <1>3, <1>4, <1>5, <1>6, <1>7, <1>8, <1>9, <1>10, <1>11,
     <1>12, <1>13, <1>14, <1>15, <1>16, <1>17, <1>18, <1>19, <1>20, <1>21,
     <1>22, <1>23, <1>24, <1>25, <1>26, <1>27, <1>28, <1>29, <1>30, <1>31,
     <1>32, <1>33
  DEF Next, Monitor, Reconcile, Environment

LEMMA TakerAlways == Spec => []TakerInv
<1>1. Init => TakerInv
  BY DEF Init, TakerInv, TodoOK, TakerOK
<1>2. Inv /\ TakerInv /\ [Next]_vars => TakerInv'
  BY TodoStep, TakerStep, SparedBefore DEF Inv, TakerInv
<1>. QED
  BY <1>1, <1>2, InvAlways, PTL DEF Spec

\* However often an entry's row is reconciled, queries, cancels and
\* acknowledgements fail and the process restarts, at most one market order
\* is executed for it, provided its row could be written: the market order is
\* only sent once the row is no longer active, or never was.
THEOREM OneTakerAlways == Spec => []OneTakerPerEntry
<1>1. TakerInv => OneTakerPerEntry
  BY DEF TakerInv, TakerOK, OneTakerPerEntry
<1>. QED
  BY <1>1, TakerAlways, PTL

-----------------------------------------------------------------------------
(* One position for a signal, until the bookkeeping is interrupted.        *)

LEMMA EntryStep ==
    ASSUME TypeOK, NumberOK, BookingOK, TodoOK, EntryOK,
           Spared(Interruptions)'
    PROVE  [Next]_vars => EntryOK'
<1> USE DEF TypeOK, EntryOK, Interruptions, Spared, vars, venue, ledger, entry, local
<1>0. ~Strike("db")
  BY StrikeMarks
<1>1. ASSUME NEW e \in Entries, Fill(e) PROVE EntryOK'
  BY <1>1 DEF Fill
<1>2. ASSUME NEW e \in Entries, VenueEnds(e) PROVE EntryOK'
  BY <1>2 DEF VenueEnds
<1>3. ASSUME NEW s \in Symbols, ClosePosition(s) PROVE EntryOK'
  BY <1>3 DEF ClosePosition
<1>4. ASSUME NEW s \in Symbols, NEW d \in Sides, Signal(s, d) PROVE EntryOK'
  BY MakerAssumption, <1>4 DEF Signal, NumberOK, Untouched, Entries
<1>5. CASE Tick
  BY <1>5 DEF Tick, Less
<1>6. CASE Restart
  BY <1>6 DEF Restart, Strike
<1>7. CASE BeginCycle
  BY <1>7 DEF BeginCycle
<1>8. CASE PickOrder
  BY <1>8 DEF PickOrder, TodoOK
<1>9. CASE EndOrders
  BY <1>9 DEF EndOrders
<1>10. CASE QueryOpen
  BY <1>10 DEF QueryOpen, Return
<1>11. CASE QueryFails
  BY <1>11 DEF QueryFails, Return, Strike
<1>12. CASE BookOpenSnapshot
  BY <1>12 DEF BookOpenSnapshot, Return, Strike
<1>13. CASE NotFound
  BY <1>13 DEF NotFound, Return, Strike
<1>14. CASE ReadHistory
  BY <1>14 DEF ReadHistory, Return, HasFill, Active, Terminal
<1>15. CASE BookFill
  BY <1>15 DEF BookFill, Sym
<1>16. CASE RestTakeProfit
  BY <1>16 DEF RestTakeProfit
<1>17. CASE TakeProfitRaises
  BY <1>17 DEF TakeProfitRaises, Return, Strike
<1>18. CASE MarkFilled
  BY <1>18 DEF MarkFilled, Return, Active
<1>19. CASE WriteFails
  BY <1>19 DEF WriteFails, Return, Strike, HasFill
<1>20. CASE Settle
  BY <1>20 DEF Settle, Sym
<1>21. CASE CancelMaker
  BY <1>21 DEF CancelMaker, Strike
<1>22. CASE SettleRecheck
  BY <1>22 DEF SettleRecheck
<1>23. CASE MarkCancelled
  BY <1>0, <1>23 DEF MarkCancelled, Active
<1>24. CASE TakerExecutes
  BY <1>24 DEF TakerExecutes
<1>25. CASE TakerRefused
  BY <1>25 DEF TakerRefused, TakerReturn, Sym
<1>26. CASE TakerBooked
  BY <1>0, <1>26 DEF TakerBooked, TakerReturn, Sym
<1>27. CASE BeginSignals
  BY <1>27 DEF BeginSignals
<1>28. CASE EndSignals
  BY <1>28 DEF EndSignals
<1>29. CASE PlaceMaker
  BY <1>29 DEF PlaceMaker, NumberOK, Untouched, Active
<1>30. CASE AckLost
  BY <1>30 DEF AckLost, Strike, NumberOK, Untouched, Active
<1>31. CASE SaveOrder
  BY <1>31 DEF SaveOrder, Sym, Active
<1>32. CASE SaveOrderFails
  BY <1>32 DEF SaveOrderFails, Strike
<1>33. CASE UNCHANGED vars
  BY <1>33
<1>34. QED
  BY <1>1, <1>2, <1>3, <1>4, <1>5, <1>6, <1>7, <1>8, <1>9, <1>10, <1>11,
     <1>12, <1>13, <1>14, <1>15, <1>16, <1>17, <1>18, <1>19, <1>20, <1>21,
     <1>22, <1>23, <1>24, <1>25, <1>26, <1>27, <1>28, <1>29, <1>30, <1>31,
     <1>32, <1>33
  DEF Next, Monitor, Reconcile, Environment

LEMMA EntryAlways == Spec => []EntryInv
<1>1. Init => EntryInv
  BY MakerAssumption DEF Init, EntryInv, EntryOK
<1>2. Inv /\ TakerInv /\ EntryInv /\ [Next]_vars => EntryInv'
  BY EntryStep, SparedBefore DEF Inv, TakerInv, EntryInv
<1>. QED
  BY <1>1, <1>2, InvAlways, TakerAlways, PTL DEF Spec

\* "... so we never open two positions for one signal": no interleaving of
\* the loop with fills, expiries, failing queries and cancels, lost answers
\* and a lagging history books an entry as two positions.
THEOREM OneEntryAlways == Spec => []OneEntryUninterrupted
<1>1. EntryInv => OneEntryUninterrupted
  BY DEF EntryInv, EntryOK, Interruptions, OneEntryPerSignal, OneEntryUninterrupted
<1>. QED
  BY <1>1, EntryAlways, PTL

-----------------------------------------------------------------------------
(* One trade for a signal at the venue, crashes included.                  *)

LEMMA ExposureStep ==
    ASSUME TypeOK, BookOK, NumberOK, ExposureOK,
           Spared(AllFaults \ {"crash"})'
    PROVE  [Next]_vars => ExposureOK'
<1> USE DEF TypeOK, ExposureOK, AllFaults, Spared, vars, venue, ledger, entry, local
<1>0. \A f \in AllFaults \ {"crash"} : ~Strike(f)
  BY StrikeMarks, Zenon
<1>1. ASSUME NEW e \in Entries, Fill(e) PROVE ExposureOK'
  BY <1>1 DEF Fill
<1>2. ASSUME NEW e \in Entries, VenueEnds(e) PROVE ExposureOK'
  BY <1>2 DEF VenueEnds
<1>3. ASSUME NEW s \in Symbols, ClosePosition(s) PROVE ExposureOK'
  BY <1>3 DEF ClosePosition
<1>4. ASSUME NEW s \in Symbols, NEW d \in Sides, Signal(s, d) PROVE ExposureOK'
  BY <1>4 DEF Signal, NumberOK, Untouched, Entries
<1>5. CASE Tick
  BY <1>5 DEF Tick, Less
<1>6. CASE Restart
  BY <1>6 DEF Restart, Strike
<1>7. CASE BeginCycle
  BY <1>7 DEF BeginCycle
<1>8. CASE PickOrder
  BY <1>8 DEF PickOrder
<1>9. CASE EndOrders
  BY <1>9 DEF EndOrders
<1>10. CASE QueryOpen
  BY <1>10 DEF QueryOpen, Return
<1>11. CASE QueryFails
  BY <1>0, <1>11 DEF QueryFails, Return
<1>12. CASE BookOpenSnapshot
  BY <1>0, <1>12 DEF BookOpenSnapshot, Return
<1>13. CASE NotFound
  BY <1>0, <1>13 DEF NotFound, Return
<1>14. CASE ReadHistory
  BY <1>14 DEF ReadHistory, Return, HasFill, Terminal
<1>15. CASE BookFill
  BY <1>15 DEF BookFill, Sym
<1>16. CASE RestTakeProfit
  BY <1>16 DEF RestTakeProfit
<1>17. CASE TakeProfitRaises
  BY <1>0, <1>17 DEF TakeProfitRaises, Return
<1>18. CASE MarkFilled
  BY <1>18 DEF MarkFilled, Return, BookOK
<1>19. CASE WriteFails
  BY <1>0, <1>19 DEF WriteFails, Return, HasFill
<1>20. CASE Settle
  BY <1>20 DEF Settle, Sym
<1>21. CASE CancelMaker
  BY <1>0, <1>21 DEF CancelMaker
<1>22. CASE SettleRecheck
  BY <1>22 DEF SettleRecheck
<1>23. CASE MarkCancelled
  BY <1>0, <1>23 DEF MarkCancelled
<1>24. CASE TakerExecutes
  BY <1>24 DEF TakerExecutes, NumberOK
<1>25. CASE TakerRefused
  BY <1>25 DEF TakerRefused, TakerReturn, Sym
<1>26. CASE TakerBooked
  BY <1>0, <1>26 DEF TakerBooked, TakerReturn, Sym
<1>27. CASE BeginSignals
  BY <1>27 DEF BeginSignals
<1>28. CASE EndSignals
  BY <1>28 DEF EndSignals
<1>29. CASE PlaceMaker
  BY <1>29 DEF PlaceMaker, NumberOK, Untouched
<1>30. CASE AckLost
  BY <1>0, <1>30 DEF AckLost
<1>31. CASE SaveOrder
  BY <1>31 DEF SaveOrder, Sym, NumberOK
<1>32. CASE SaveOrderFails
  BY <1>0, <1>32 DEF SaveOrderFails
<1>33. CASE UNCHANGED vars
  BY <1>33
<1>34. QED
  BY <1>1, <1>2, <1>3, <1>4, <1>5, <1>6, <1>7, <1>8, <1>9, <1>10, <1>11,
     <1>12, <1>13, <1>14, <1>15, <1>16, <1>17, <1>18, <1>19, <1>20, <1>21,
     <1>22, <1>23, <1>24, <1>25, <1>26, <1>27, <1>28, <1>29, <1>30, <1>31,
     <1>32, <1>33
  DEF Next, Monitor, Reconcile, Environment

LEMMA ExposureAlways == Spec => []ExposureInv
<1>1. Init => ExposureInv
  BY MakerAssumption DEF Init, ExposureInv, ExposureOK
<1>2. Inv /\ ExposureInv /\ [Next]_vars => ExposureInv'
  BY ExposureStep, SparedBefore DEF Inv, ExposureInv
<1>. QED
  BY <1>1, <1>2, InvAlways, PTL DEF Spec

\* An entry whose maker order executed any part is never bought at market as
\* well, though the process may crash between any two steps.
THEOREM OneExposureAlways == Spec => []OneExposure
<1>1. Inv /\ ExposureInv => OneExposure
  BY DEF Inv, TypeOK, ExposureInv, ExposureOK, TradedOnce, OneExposure
<1>. QED
  BY <1>1, InvAlways, ExposureAlways, PTL

-----------------------------------------------------------------------------
(* The orders table tracks the venue until something fails.                *)

LEMMA TrackStep ==
    ASSUME TypeOK, NumberOK, BookingOK, TodoOK, EntryOK, ExposureOK, TrackOK,
           Spared(AllFaults)'
    PROVE  [Next]_vars => TrackOK'
<1> USE DEF TypeOK, TrackOK, AllFaults, Spared, vars, venue, ledger, entry, local
<1>1. ASSUME NEW e \in Entries, Fill(e) PROVE TrackOK'
  BY <1>1 DEF Fill, BookingOK, Terminal
<1>2. ASSUME NEW e \in Entries, VenueEnds(e) PROVE TrackOK'
  BY <1>2 DEF VenueEnds
<1>3. ASSUME NEW s \in Symbols, ClosePosition(s) PROVE TrackOK'
  BY <1>3 DEF ClosePosition
<1>4. ASSUME NEW s \in Symbols, NEW d \in Sides, Signal(s, d) PROVE TrackOK'
  BY <1>4 DEF Signal
<1>5. CASE Tick
  BY <1>5 DEF Tick, Less
<1>6. CASE Restart
  BY <1>6 DEF Restart, Strike
<1>7. CASE BeginCycle
  BY <1>7 DEF BeginCycle
<1>8. CASE PickOrder
  BY <1>8 DEF PickOrder, TodoOK
<1>9. CASE EndOrders
  BY <1>9 DEF EndOrders
<1>10. CASE QueryOpen
  BY <1>10 DEF QueryOpen, Return
<1>11. CASE QueryFails
  BY <1>11 DEF QueryFails, Return, Strike
<1>12. CASE BookOpenSnapshot
  BY <1>12 DEF BookOpenSnapshot, Return, Strike
<1>13. CASE NotFound
  BY <1>13 DEF NotFound, Return, Strike
<1>14. CASE ReadHistory
  BY <1>14 DEF ReadHistory, Return, HasFill, BookingOK, EntryOK, Terminal, Active
<1>15. CASE BookFill
  BY <1>15 DEF BookFill, Sym, BookingOK, EntryOK
<1>16. CASE RestTakeProfit
  BY <1>16 DEF RestTakeProfit
<1>17. CASE TakeProfitRaises
  BY <1>17 DEF TakeProfitRaises, Return, Strike
<1>18. CASE MarkFilled
  BY <1>18 DEF MarkFilled, Return, BookingOK, EntryOK, Active, Terminal
<1>19. CASE WriteFails
  BY <1>19 DEF WriteFails, Return, Strike, HasFill
<1>20. CASE Settle
  BY <1>20 DEF Settle, Sym, ExposureOK
<1>21. CASE CancelMaker
  BY <1>21 DEF CancelMaker, Strike
<1>22. CASE SettleRecheck
  BY <1>22 DEF SettleRecheck
<1>23. CASE MarkCancelled
  BY <1>23 DEF MarkCancelled, Strike, BookingOK, EntryOK, ExposureOK, Active
<1>24. CASE TakerExecutes
  BY <1>24 DEF TakerExecutes
<1>25. CASE TakerRefused
  BY <1>25 DEF TakerRefused, TakerReturn, Sym
<1>26. CASE TakerBooked
  BY <1>26 DEF TakerBooked, TakerReturn, Sym, Strike
<1>27. CASE BeginSignals
  BY <1>27 DEF BeginSignals
<1>28. CASE EndSignals
  BY <1>28 DEF EndSignals
<1>29. CASE PlaceMaker
  BY <1>29 DEF PlaceMaker, NumberOK, Untouched, Active
<1>30. CASE AckLost
  BY <1>30 DEF AckLost, Strike
<1>31. CASE SaveOrder
  BY <1>31 DEF SaveOrder, Sym, Active
<1>32. CASE SaveOrderFails
  BY <1>32 DEF SaveOrderFails, Strike
<1>33. CASE UNCHANGED vars
  BY <1>33
<1>34. QED
  BY <1>1, <1>2, <1>3, <1>4, <1>5, <1>6, <1>7, <1>8, <1>9, <1>10, <1>11,
     <1>12, <1>13, <1>14, <1>15, <1>16, <1>17, <1>18, <1>19, <1>20, <1>21,
     <1>22, <1>23, <1>24, <1>25, <1>26, <1>27, <1>28, <1>29, <1>30, <1>31,
     <1>32, <1>33
  DEF Next, Monitor, Reconcile, Environment

LEMMA TrackAlways == Spec => []TrackInv
<1>1. Init => TrackInv
  BY MakerAssumption DEF Init, TrackInv, TrackOK
<1>2. Spared(AllFaults) => Spared(Interruptions) /\ Spared(AllFaults \ {"crash"})
  BY DEF Spared, AllFaults, Interruptions
<1>3. Inv /\ TakerInv /\ EntryInv /\ ExposureInv /\ TrackInv /\ [Next]_vars => TrackInv'
  BY <1>2, TrackStep, SparedBefore DEF Inv, TakerInv, EntryInv, ExposureInv, TrackInv
<1>. QED
  BY <1>1, <1>3, InvAlways, TakerAlways, EntryAlways, ExposureAlways, PTL DEF Spec

\* Until something fails, the orders table tracks every resting order and
\* every executed lot that no position records yet.
THEOREM NothingUntrackedAlways == Spec => []NothingUntracked
<1>1. TrackInv => NothingUntracked
  BY DEF TrackInv, TrackOK, NothingUntracked
<1>. QED
  BY <1>1, TrackAlways, PTL

-----------------------------------------------------------------------------
(* The promise, until a fault.                                             *)

\* The places of the thread where it works on an entry.
Reconciling == {"query", "history", "book", "tp", "mark", "outcome", "cancel",
                "markCancelled"}
Working == Reconciling \cup {"taker", "takerBook", "place", "saveOrder"}
Entering ==
    pc \in {"signals", "place", "saveOrder"} \/ (pc \in {"taker", "takerBook"} /\ pass = "entry")

\* Entry e has an active row, or the thread works on it.
Busy(e) == ord[e] \in Active \/ (cur = e /\ pc \in Working)

\* Until any fault, a symbol has one entry under way at a time, and room for
\* its position: the cooldown holds off another signal while it lasts, and
\* if it is not shorter than the timeout it lasts until the row is due.
AgeOK ==
    \A e \in Entries : ord[e] \in Active =>
        e <= used /\ (age[e] < Timeout => cool[symOf[e]] >= Cooldown - age[e])
AloneOK ==
    \A e, f \in Entries : Busy(e) /\ Busy(f) /\ symOf[e] = symOf[f] => e = f
RoomOK ==
    \A e \in Entries : Busy(e) /\ rows[e] + takerRows[e] = 0 => open[symOf[e]] < MaxOpen

\* A row that is due is decided before the loop looks for signals.
DueOK ==
    \A e \in Entries : ord[e] \in Active /\ age[e] >= Timeout =>
        /\ pc # "positions"
        /\ pc = "orders" => e \in todo
        /\ pc \in Reconciling => e \in todo \/ e = cur
        /\ pc \in {"taker", "takerBook"} /\ pass # "entry" => e \in todo
ScanOK == Entering => \A e \in Entries : Busy(e) => symOf[e] \notin scan

\* What the first and the second call of reconcile_entry_order return.
ReturnOK ==
    pc = "outcome" =>
        /\ outcome # "resting" => ord[cur] \notin Active
        /\ outcome = "filled" => rows[cur] = 1
PassOK ==
    /\ pc = "markCancelled" => pass = "recheck"
    /\ pc \in Reconciling => pass # "entry"
    /\ pc \in {"place", "saveOrder"} => pass = "entry"

PromiseOK == AgeOK /\ AloneOK /\ RoomOK /\ DueOK /\ ScanOK /\ ReturnOK /\ PassOK

\* The steps without a fault.
Faultless ==
    \/ \E e \in Entries : Fill(e) \/ VenueEnds(e)
    \/ \E s \in Symbols : ClosePosition(s)
    \/ \E s \in Symbols, d \in Sides : Signal(s, d)
    \/ Tick \/ BeginCycle \/ PickOrder \/ EndOrders
    \/ QueryOpen \/ ReadHistory \/ BookFill \/ RestTakeProfit \/ MarkFilled
    \/ Settle \/ CancelMaker \/ SettleRecheck \/ MarkCancelled
    \/ TakerExecutes \/ TakerRefused \/ TakerBooked
    \/ BeginSignals \/ EndSignals \/ PlaceMaker \/ SaveOrder
    \/ UNCHANGED vars

LEMMA FaultlessNext ==
    ASSUME [Next]_vars, Spared(AllFaults)'
    PROVE  Faultless /\ \A f \in AllFaults : ~Strike(f)
<1>1. \A f \in AllFaults : ~Strike(f)
  BY StrikeMarks, Zenon
<1> QED
  BY <1>1 DEF Faultless, Next, Monitor, Reconcile, Environment, AllFaults, Restart, QueryFails,
     BookOpenSnapshot, NotFound, TakeProfitRaises, WriteFails, AckLost, SaveOrderFails

LEMMA AgeOKStep ==
    ASSUME TypeOK, NumberOK, BookingOK, TodoOK, EntryOK, ExposureOK, TrackOK, PromiseOK,
           Timeout <= Cooldown, Spared(AllFaults)'
    PROVE  [Next]_vars => AgeOK'
<1> USE DEF TypeOK, PromiseOK, AgeOK, Working, Reconciling, Entering, Active, vars, venue, ledger,
        entry, local
<1>0. \A f \in AllFaults : ~Strike(f)
  BY StrikeMarks, Zenon
<1>1. ASSUME NEW e \in Entries, Fill(e) PROVE AgeOK'
  BY <1>1 DEF Fill
<1>2. ASSUME NEW e \in Entries, VenueEnds(e) PROVE AgeOK'
  BY <1>2 DEF VenueEnds
<1>3. ASSUME NEW s \in Symbols, ClosePosition(s) PROVE AgeOK'
  BY <1>3, MakerAssumption DEF ClosePosition
<1>4. ASSUME NEW s \in Symbols, NEW d \in Sides, Signal(s, d) PROVE AgeOK'
  <2> SUFFICES ASSUME NEW e \in Entries, ord'[e] \in Active
               PROVE  e <= used' /\ (age'[e] < Timeout => cool'[symOf'[e]] >= Cooldown - age'[e])
    OBVIOUS
  <2>1. /\ used' = used + 1 /\ symOf' = [symOf EXCEPT ![used + 1] = s]
        /\ UNCHANGED <<ord, age, cool>>
    BY <1>4 DEF Signal
  <2>2. e <= used /\ e \in Nat /\ used \in Nat
    BY <2>1, MakerAssumption DEF AgeOK, Entries
  <2>3. symOf'[e] = symOf[e]
    BY <2>1, <2>2
  <2> QED BY <2>1, <2>2, <2>3 DEF AgeOK
<1>5. CASE Tick
  BY <1>5, MakerAssumption DEF Tick, Less
<1>6. CASE BeginCycle
  BY <1>6 DEF BeginCycle
<1>7. CASE PickOrder
  BY <1>7 DEF PickOrder
<1>8. CASE EndOrders
  BY <1>8 DEF EndOrders
<1>9. CASE QueryOpen
  BY <1>9 DEF QueryOpen, Return
<1>10. CASE ReadHistory
  BY <1>10 DEF ReadHistory, Return, HasFill, Terminal
<1>11. CASE BookFill
  BY <1>11 DEF BookFill, Sym
<1>12. CASE RestTakeProfit
  BY <1>12 DEF RestTakeProfit
<1>13. CASE MarkFilled
  BY <1>13 DEF MarkFilled, Return
<1>14. CASE Settle
  <2>1. /\ pc = "outcome" /\ cur \in Entries
        /\ outcome = "gone" => ord[cur] \notin Active
        /\ cool' = cool \/ (outcome = "gone" /\ cool' = [cool EXCEPT ![symOf[cur]] = 0])
        /\ UNCHANGED <<ord, age, used, symOf>>
    BY <1>14 DEF Settle, Sym, ReturnOK
  <2>2. outcome = "gone" => \A e \in Entries : ord[e] \in Active => symOf[e] # symOf[cur]
    BY <2>1 DEF AloneOK, Busy
  <2> QED BY <2>1, <2>2
<1>15. CASE CancelMaker
  BY <1>0, <1>15 DEF CancelMaker, AllFaults
<1>16. CASE SettleRecheck
  BY <1>16 DEF SettleRecheck
<1>17. CASE MarkCancelled
  BY <1>0, <1>17 DEF MarkCancelled, AllFaults
<1>18. CASE TakerExecutes
  BY <1>18 DEF TakerExecutes
<1>19. CASE TakerRefused
  <2>1. /\ pc = "taker" /\ cur \in Entries /\ ord[cur] \notin Active
        /\ cool' = cool \/ cool' = [cool EXCEPT ![symOf[cur]] = 0]
        /\ UNCHANGED <<ord, age, used, symOf>>
    BY <1>19 DEF TakerRefused, Sym, EntryOK
  <2>2. \A e \in Entries : ord[e] \in Active => symOf[e] # symOf[cur]
    BY <2>1 DEF AloneOK, Busy
  <2> QED BY <2>1, <2>2
<1>20. CASE TakerBooked
  BY <1>0, <1>20, MakerAssumption DEF TakerBooked, AllFaults, Sym, TakerReturn
<1>21. CASE BeginSignals
  BY <1>21 DEF BeginSignals
<1>22. CASE EndSignals
  BY <1>22 DEF EndSignals
<1>23. CASE PlaceMaker
  BY <1>23 DEF PlaceMaker
<1>24. CASE SaveOrder
  <2>1. /\ cur \in Entries /\ cur <= used /\ ord' = [ord EXCEPT ![cur] = "New"]
        /\ age' = [age EXCEPT ![cur] = 0] /\ cool' = [cool EXCEPT ![symOf[cur]] = Cooldown]
        /\ UNCHANGED <<used, symOf>>
    BY <1>24 DEF SaveOrder, Sym, NumberOK
  <2>2. \A x \in Symbols : cool'[x] >= cool[x]
    BY <2>1, MakerAssumption
  <2> SUFFICES ASSUME NEW e \in Entries, ord'[e] \in Active
               PROVE  e <= used /\ (age'[e] < Timeout => cool'[symOf[e]] >= Cooldown - age'[e])
    BY <2>1
  <2>3. CASE e = cur
    BY <2>1, <2>3, MakerAssumption
  <2>4. CASE e # cur
    BY <2>1, <2>2, <2>4, MakerAssumption DEF AgeOK
  <2> QED BY <2>3, <2>4
<1>25. CASE UNCHANGED vars
  BY <1>25
<1> QED
  BY <1>1, <1>2, <1>3, <1>4, <1>5, <1>6, <1>7, <1>8, <1>9, <1>10, <1>11,
     <1>12, <1>13, <1>14, <1>15, <1>16, <1>17, <1>18, <1>19, <1>20, <1>21, <1>22,
     <1>23, <1>24, <1>25, FaultlessNext DEF Faultless

LEMMA AloneOKStep ==
    ASSUME TypeOK, NumberOK, BookingOK, TodoOK, EntryOK, ExposureOK, TrackOK, PromiseOK,
           Timeout <= Cooldown, Spared(AllFaults)'
    PROVE  [Next]_vars => AloneOK'
<1> USE DEF TypeOK, PromiseOK, AloneOK, Working, Reconciling, Entering, Active, vars, venue, ledger,
        entry, local
<1>0. \A f \in AllFaults : ~Strike(f)
  BY StrikeMarks, Zenon
<1>1. ASSUME NEW e \in Entries, Fill(e) PROVE AloneOK'
  BY <1>1 DEF Fill, Busy
<1>2. ASSUME NEW e \in Entries, VenueEnds(e) PROVE AloneOK'
  BY <1>2 DEF VenueEnds, Busy
<1>3. ASSUME NEW s \in Symbols, ClosePosition(s) PROVE AloneOK'
  BY <1>3 DEF ClosePosition, Busy
<1>4. ASSUME NEW s \in Symbols, NEW d \in Sides, Signal(s, d) PROVE AloneOK'
  <2> SUFFICES ASSUME NEW e \in Entries, NEW f \in Entries, Busy(e)', Busy(f)',
                      (symOf[e] = symOf[f])'
               PROVE  e = f
    OBVIOUS
  <2>1. /\ pc = "signals" /\ s \in scan /\ cur' = used + 1 /\ used + 1 \in Entries
        /\ symOf' = [symOf EXCEPT ![used + 1] = s] /\ ord' = ord
    BY <1>4, MakerAssumption DEF Signal, Entries
  <2>2. ASSUME NEW x \in Entries, Busy(x)'
        PROVE  x = used + 1 \/ (x # used + 1 /\ Busy(x) /\ symOf'[x] = symOf[x] /\ symOf[x] # s)
    BY <2>1, <2>2 DEF Busy, ScanOK
  <2>3. symOf'[used + 1] = s
    BY <2>1
  <2> QED BY <2>2, <2>3 DEF AloneOK
<1>5. CASE Tick
  BY <1>5 DEF Tick, Less, Busy
<1>6. CASE BeginCycle
  BY <1>6 DEF BeginCycle, Busy
<1>7. CASE PickOrder
  BY <1>7 DEF PickOrder, TodoOK, Busy
<1>8. CASE EndOrders
  BY <1>8 DEF EndOrders, Busy
<1>9. CASE QueryOpen
  BY <1>9 DEF QueryOpen, Return, Busy
<1>10. CASE ReadHistory
  BY <1>10 DEF ReadHistory, Return, HasFill, Terminal, Busy
<1>11. CASE BookFill
  BY <1>11 DEF BookFill, Sym, Busy
<1>12. CASE RestTakeProfit
  BY <1>12 DEF RestTakeProfit, Busy
<1>13. CASE MarkFilled
  BY <1>13 DEF MarkFilled, Return, Busy
<1>14. CASE Settle
  BY <1>14 DEF Settle, Sym, Busy
<1>15. CASE CancelMaker
  BY <1>0, <1>15 DEF CancelMaker, AllFaults, Busy
<1>16. CASE SettleRecheck
  BY <1>16 DEF SettleRecheck, Busy
<1>17. CASE MarkCancelled
  BY <1>0, <1>17 DEF MarkCancelled, AllFaults, Busy
<1>18. CASE TakerExecutes
  BY <1>18 DEF TakerExecutes, Busy
<1>19. CASE TakerRefused
  BY <1>19 DEF TakerRefused, Sym, TakerReturn, Busy
<1>20. CASE TakerBooked
  BY <1>0, <1>20 DEF TakerBooked, AllFaults, Sym, TakerReturn, Busy
<1>21. CASE BeginSignals
  BY <1>21 DEF BeginSignals, Busy
<1>22. CASE EndSignals
  BY <1>22 DEF EndSignals, Busy
<1>23. CASE PlaceMaker
  BY <1>23 DEF PlaceMaker, Busy
<1>24. CASE SaveOrder
  BY <1>24 DEF SaveOrder, Sym, Busy
<1>25. CASE UNCHANGED vars
  BY <1>25 DEF Busy
<1> QED
  BY <1>1, <1>2, <1>3, <1>4, <1>5, <1>6, <1>7, <1>8, <1>9, <1>10, <1>11,
     <1>12, <1>13, <1>14, <1>15, <1>16, <1>17, <1>18, <1>19, <1>20, <1>21, <1>22,
     <1>23, <1>24, <1>25, FaultlessNext DEF Faultless

LEMMA RoomOKStep ==
    ASSUME TypeOK, NumberOK, BookingOK, TodoOK, EntryOK, ExposureOK, TrackOK, PromiseOK,
           Timeout <= Cooldown, Spared(AllFaults)'
    PROVE  [Next]_vars => RoomOK'
<1> USE DEF TypeOK, PromiseOK, RoomOK, Working, Reconciling, Entering, Active, vars, venue, ledger,
        entry, local
<1>0. \A f \in AllFaults : ~Strike(f)
  BY StrikeMarks, Zenon
<1>1. ASSUME NEW e \in Entries, Fill(e) PROVE RoomOK'
  BY <1>1 DEF Fill, Busy
<1>2. ASSUME NEW e \in Entries, VenueEnds(e) PROVE RoomOK'
  BY <1>2 DEF VenueEnds, Busy
<1>3. ASSUME NEW s \in Symbols, ClosePosition(s) PROVE RoomOK'
  BY <1>3, MakerAssumption DEF ClosePosition, Busy
<1>4. ASSUME NEW s \in Symbols, NEW d \in Sides, Signal(s, d) PROVE RoomOK'
  BY <1>4 DEF Signal, Busy
<1>5. CASE Tick
  BY <1>5 DEF Tick, Less, Busy
<1>6. CASE BeginCycle
  BY <1>6 DEF BeginCycle, Busy
<1>7. CASE PickOrder
  BY <1>7 DEF PickOrder, TodoOK, Busy
<1>8. CASE EndOrders
  BY <1>8 DEF EndOrders, Busy
<1>9. CASE QueryOpen
  BY <1>9 DEF QueryOpen, Return, Busy
<1>10. CASE ReadHistory
  BY <1>10 DEF ReadHistory, Return, HasFill, Terminal, Busy
<1>11. CASE BookFill
  <2> SUFFICES ASSUME NEW e \in Entries, Busy(e)', (rows[e] + takerRows[e] = 0)'
               PROVE  (open[symOf[e]] < MaxOpen)'
    OBVIOUS
  <2>1. /\ pc = "book" /\ rows' = [rows EXCEPT ![cur] = @ + 1]
        /\ open' = [open EXCEPT ![symOf[cur]] = @ + 1] /\ cur \in Entries
        /\ UNCHANGED <<ord, takerRows, symOf, cur>>
    BY <1>11 DEF BookFill, Sym
  <2>2. Busy(e) /\ Busy(cur)
    BY <2>1 DEF Busy
  <2>3. e # cur /\ rows'[e] = rows[e]
    BY <2>1
  <2>4. symOf[e] # symOf[cur]
    BY <2>1, <2>2, <2>3 DEF AloneOK
  <2> QED BY <2>1, <2>2, <2>3, <2>4
<1>12. CASE RestTakeProfit
  BY <1>12 DEF RestTakeProfit, Busy
<1>13. CASE MarkFilled
  BY <1>13 DEF MarkFilled, Return, Busy
<1>14. CASE Settle
  BY <1>14 DEF Settle, Sym, Busy
<1>15. CASE CancelMaker
  BY <1>0, <1>15 DEF CancelMaker, AllFaults, Busy
<1>16. CASE SettleRecheck
  BY <1>16 DEF SettleRecheck, Busy
<1>17. CASE MarkCancelled
  BY <1>0, <1>17 DEF MarkCancelled, AllFaults, Busy
<1>18. CASE TakerExecutes
  BY <1>18 DEF TakerExecutes, Busy
<1>19. CASE TakerRefused
  BY <1>19 DEF TakerRefused, Sym, TakerReturn, Busy
<1>20. CASE TakerBooked
  <2> SUFFICES ASSUME NEW e \in Entries, Busy(e)', (rows[e] + takerRows[e] = 0)'
               PROVE  (open[symOf[e]] < MaxOpen)'
    OBVIOUS
  <2>1. /\ pc = "takerBook" /\ takerRows' = [takerRows EXCEPT ![cur] = @ + 1]
        /\ open' = [open EXCEPT ![symOf[cur]] = @ + 1] /\ cur \in Entries
        /\ pc' \in {"signals", "orders"} /\ UNCHANGED <<ord, rows, symOf, cur>>
    BY <1>0, <1>20 DEF TakerBooked, TakerReturn, Sym, AllFaults
  <2>2. Busy(e) /\ Busy(cur)
    BY <2>1 DEF Busy
  <2>3. e # cur /\ takerRows'[e] = takerRows[e]
    BY <2>1
  <2>4. symOf[e] # symOf[cur]
    BY <2>1, <2>2, <2>3 DEF AloneOK
  <2> QED BY <2>1, <2>2, <2>3, <2>4
<1>21. CASE BeginSignals
  BY <1>21 DEF BeginSignals, Busy
<1>22. CASE EndSignals
  BY <1>22 DEF EndSignals, Busy
<1>23. CASE PlaceMaker
  BY <1>23 DEF PlaceMaker, Busy
<1>24. CASE SaveOrder
  BY <1>24 DEF SaveOrder, Sym, Busy
<1>25. CASE UNCHANGED vars
  BY <1>25 DEF Busy
<1> QED
  BY <1>1, <1>2, <1>3, <1>4, <1>5, <1>6, <1>7, <1>8, <1>9, <1>10, <1>11,
     <1>12, <1>13, <1>14, <1>15, <1>16, <1>17, <1>18, <1>19, <1>20, <1>21, <1>22,
     <1>23, <1>24, <1>25, FaultlessNext DEF Faultless

LEMMA DueOKStep ==
    ASSUME TypeOK, NumberOK, BookingOK, TodoOK, EntryOK, ExposureOK, TrackOK, PromiseOK,
           Timeout <= Cooldown, Spared(AllFaults)'
    PROVE  [Next]_vars => DueOK'
<1> USE DEF TypeOK, PromiseOK, DueOK, Working, Reconciling, Entering, Active, vars, venue, ledger,
        entry, local
<1>0. \A f \in AllFaults : ~Strike(f)
  BY StrikeMarks, Zenon
<1>1. ASSUME NEW e \in Entries, Fill(e) PROVE DueOK'
  BY <1>1 DEF Fill
<1>2. ASSUME NEW e \in Entries, VenueEnds(e) PROVE DueOK'
  BY <1>2 DEF VenueEnds
<1>3. ASSUME NEW s \in Symbols, ClosePosition(s) PROVE DueOK'
  BY <1>3 DEF ClosePosition
<1>4. ASSUME NEW s \in Symbols, NEW d \in Sides, Signal(s, d) PROVE DueOK'
  BY <1>4 DEF Signal
<1>5. CASE Tick
  BY <1>5 DEF Tick, Less
<1>6. CASE BeginCycle
  BY <1>6 DEF BeginCycle
<1>7. CASE PickOrder
  BY <1>7 DEF PickOrder
<1>8. CASE EndOrders
  BY <1>8 DEF EndOrders
<1>9. CASE QueryOpen
  BY <1>9 DEF QueryOpen, Return
<1>10. CASE ReadHistory
  BY <1>10 DEF ReadHistory, Return, HasFill, Terminal
<1>11. CASE BookFill
  BY <1>11 DEF BookFill, Sym
<1>12. CASE RestTakeProfit
  BY <1>12 DEF RestTakeProfit
<1>13. CASE MarkFilled
  BY <1>13 DEF MarkFilled, Return
<1>14. CASE Settle
  BY <1>14, MakerAssumption DEF Settle, ReturnOK
<1>15. CASE CancelMaker
  BY <1>0, <1>15 DEF CancelMaker, AllFaults
<1>16. CASE SettleRecheck
  BY <1>16 DEF SettleRecheck, ReturnOK
<1>17. CASE MarkCancelled
  BY <1>0, <1>17 DEF MarkCancelled, AllFaults
<1>18. CASE TakerExecutes
  BY <1>18 DEF TakerExecutes
<1>19. CASE TakerRefused
  BY <1>19 DEF TakerRefused, Sym, TakerReturn
<1>20. CASE TakerBooked
  BY <1>0, <1>20 DEF TakerBooked, AllFaults, Sym, TakerReturn
<1>21. CASE BeginSignals
  BY <1>21 DEF BeginSignals
<1>22. CASE EndSignals
  BY <1>22 DEF EndSignals
<1>23. CASE PlaceMaker
  BY <1>23 DEF PlaceMaker, PassOK
<1>24. CASE SaveOrder
  BY <1>24 DEF SaveOrder, Sym
<1>25. CASE UNCHANGED vars
  BY <1>25
<1> QED
  BY <1>1, <1>2, <1>3, <1>4, <1>5, <1>6, <1>7, <1>8, <1>9, <1>10, <1>11,
     <1>12, <1>13, <1>14, <1>15, <1>16, <1>17, <1>18, <1>19, <1>20, <1>21, <1>22,
     <1>23, <1>24, <1>25, FaultlessNext DEF Faultless

LEMMA ScanOKStep ==
    ASSUME TypeOK, NumberOK, BookingOK, TodoOK, EntryOK, ExposureOK, TrackOK, PromiseOK,
           Timeout <= Cooldown, Spared(AllFaults)'
    PROVE  [Next]_vars => ScanOK'
<1> USE DEF TypeOK, PromiseOK, ScanOK, Working, Reconciling, Entering, Active, vars, venue, ledger,
        entry, local
<1>0. \A f \in AllFaults : ~Strike(f)
  BY StrikeMarks, Zenon
<1>1. ASSUME NEW e \in Entries, Fill(e) PROVE ScanOK'
  BY <1>1 DEF Fill, Busy
<1>2. ASSUME NEW e \in Entries, VenueEnds(e) PROVE ScanOK'
  BY <1>2 DEF VenueEnds, Busy
<1>3. ASSUME NEW s \in Symbols, ClosePosition(s) PROVE ScanOK'
  BY <1>3 DEF ClosePosition, Busy
<1>4. ASSUME NEW s \in Symbols, NEW d \in Sides, Signal(s, d) PROVE ScanOK'
  BY <1>4 DEF Signal, Busy
<1>5. CASE Tick
  BY <1>5 DEF Tick, Less, Busy
<1>6. CASE BeginCycle
  BY <1>6 DEF BeginCycle, Busy
<1>7. CASE PickOrder
  BY <1>7 DEF PickOrder, Busy
<1>8. CASE EndOrders
  BY <1>8 DEF EndOrders, Busy
<1>9. CASE QueryOpen
  BY <1>9 DEF QueryOpen, Return, Busy
<1>10. CASE ReadHistory
  BY <1>10 DEF ReadHistory, Return, HasFill, Terminal, Busy
<1>11. CASE BookFill
  BY <1>11 DEF BookFill, Sym, Busy
<1>12. CASE RestTakeProfit
  BY <1>12 DEF RestTakeProfit, Busy
<1>13. CASE MarkFilled
  BY <1>13 DEF MarkFilled, Return, Busy
<1>14. CASE Settle
  BY <1>14 DEF Settle, Sym, Busy
<1>15. CASE CancelMaker
  BY <1>0, <1>15 DEF CancelMaker, AllFaults, Busy
<1>16. CASE SettleRecheck
  BY <1>16 DEF SettleRecheck, Busy
<1>17. CASE MarkCancelled
  BY <1>17 DEF MarkCancelled, PassOK
<1>18. CASE TakerExecutes
  BY <1>18 DEF TakerExecutes, Busy
<1>19. CASE TakerRefused
  BY <1>19 DEF TakerRefused, Sym, TakerReturn, Busy
<1>20. CASE TakerBooked
  BY <1>0, <1>20 DEF TakerBooked, AllFaults, Sym, TakerReturn, Busy
<1>21. CASE BeginSignals
  <2> SUFFICES ASSUME NEW e \in Entries, Busy(e)' PROVE symOf'[e] \notin scan'
    OBVIOUS
  <2>1. /\ pc = "positions" /\ pc' = "signals" /\ scan' = {s \in Symbols : cool[s] = 0}
        /\ UNCHANGED <<ord, symOf>>
    BY <1>21 DEF BeginSignals
  <2>2. ord[e] \in Active
    BY <2>1 DEF Busy
  <2>3. age[e] < Timeout
    BY <2>1, <2>2, MakerAssumption DEF DueOK
  <2>4. cool[symOf[e]] >= Cooldown - age[e]
    BY <2>2, <2>3 DEF AgeOK
  <2>5. cool[symOf[e]] # 0
    BY <2>3, <2>4, MakerAssumption
  <2> QED BY <2>1, <2>5
<1>22. CASE EndSignals
  BY <1>22 DEF EndSignals, Busy
<1>23. CASE PlaceMaker
  BY <1>23 DEF PlaceMaker, Busy
<1>24. CASE SaveOrder
  BY <1>24 DEF SaveOrder, Sym, Busy
<1>25. CASE UNCHANGED vars
  BY <1>25 DEF Busy
<1> QED
  BY <1>1, <1>2, <1>3, <1>4, <1>5, <1>6, <1>7, <1>8, <1>9, <1>10, <1>11,
     <1>12, <1>13, <1>14, <1>15, <1>16, <1>17, <1>18, <1>19, <1>20, <1>21, <1>22,
     <1>23, <1>24, <1>25, FaultlessNext DEF Faultless

LEMMA ReturnOKStep ==
    ASSUME TypeOK, NumberOK, BookingOK, TodoOK, EntryOK, ExposureOK, TrackOK, PromiseOK,
           Timeout <= Cooldown, Spared(AllFaults)'
    PROVE  [Next]_vars => ReturnOK'
<1> USE DEF TypeOK, PromiseOK, ReturnOK, Working, Reconciling, Entering, Active, vars, venue, ledger,
        entry, local
<1>0. \A f \in AllFaults : ~Strike(f)
  BY StrikeMarks, Zenon
<1>1. ASSUME NEW e \in Entries, Fill(e) PROVE ReturnOK'
  BY <1>1 DEF Fill
<1>2. ASSUME NEW e \in Entries, VenueEnds(e) PROVE ReturnOK'
  BY <1>2 DEF VenueEnds
<1>3. ASSUME NEW s \in Symbols, ClosePosition(s) PROVE ReturnOK'
  BY <1>3 DEF ClosePosition
<1>4. ASSUME NEW s \in Symbols, NEW d \in Sides, Signal(s, d) PROVE ReturnOK'
  BY <1>4 DEF Signal
<1>5. CASE Tick
  BY <1>5 DEF Tick, Less
<1>6. CASE BeginCycle
  BY <1>6 DEF BeginCycle
<1>7. CASE PickOrder
  BY <1>7 DEF PickOrder
<1>8. CASE EndOrders
  BY <1>8 DEF EndOrders
<1>9. CASE QueryOpen
  BY <1>9 DEF QueryOpen, Return
<1>10. CASE ReadHistory
  BY <1>10 DEF ReadHistory, Return, HasFill, Terminal
<1>11. CASE BookFill
  BY <1>11 DEF BookFill, Sym
<1>12. CASE RestTakeProfit
  BY <1>12 DEF RestTakeProfit
<1>13. CASE MarkFilled
  BY <1>13 DEF MarkFilled, Return, EntryOK
<1>14. CASE Settle
  BY <1>14 DEF Settle, Sym
<1>15. CASE CancelMaker
  BY <1>0, <1>15 DEF CancelMaker, AllFaults
<1>16. CASE SettleRecheck
  BY <1>16 DEF SettleRecheck
<1>17. CASE MarkCancelled
  BY <1>0, <1>17 DEF MarkCancelled, AllFaults
<1>18. CASE TakerExecutes
  BY <1>18 DEF TakerExecutes
<1>19. CASE TakerRefused
  BY <1>19 DEF TakerRefused, Sym, TakerReturn
<1>20. CASE TakerBooked
  BY <1>0, <1>20 DEF TakerBooked, AllFaults, Sym, TakerReturn
<1>21. CASE BeginSignals
  BY <1>21 DEF BeginSignals
<1>22. CASE EndSignals
  BY <1>22 DEF EndSignals
<1>23. CASE PlaceMaker
  BY <1>23 DEF PlaceMaker
<1>24. CASE SaveOrder
  BY <1>24 DEF SaveOrder, Sym
<1>25. CASE UNCHANGED vars
  BY <1>25
<1> QED
  BY <1>1, <1>2, <1>3, <1>4, <1>5, <1>6, <1>7, <1>8, <1>9, <1>10, <1>11,
     <1>12, <1>13, <1>14, <1>15, <1>16, <1>17, <1>18, <1>19, <1>20, <1>21, <1>22,
     <1>23, <1>24, <1>25, FaultlessNext DEF Faultless

LEMMA PassOKStep ==
    ASSUME TypeOK, NumberOK, BookingOK, TodoOK, EntryOK, ExposureOK, TrackOK, PromiseOK,
           Timeout <= Cooldown, Spared(AllFaults)'
    PROVE  [Next]_vars => PassOK'
<1> USE DEF TypeOK, PromiseOK, PassOK, Working, Reconciling, Entering, Active, vars, venue, ledger,
        entry, local
<1>0. \A f \in AllFaults : ~Strike(f)
  BY StrikeMarks, Zenon
<1>1. ASSUME NEW e \in Entries, Fill(e) PROVE PassOK'
  BY <1>1 DEF Fill
<1>2. ASSUME NEW e \in Entries, VenueEnds(e) PROVE PassOK'
  BY <1>2 DEF VenueEnds
<1>3. ASSUME NEW s \in Symbols, ClosePosition(s) PROVE PassOK'
  BY <1>3 DEF ClosePosition
<1>4. ASSUME NEW s \in Symbols, NEW d \in Sides, Signal(s, d) PROVE PassOK'
  BY <1>4 DEF Signal
<1>5. CASE Tick
  BY <1>5 DEF Tick, Less
<1>6. CASE BeginCycle
  BY <1>6 DEF BeginCycle
<1>7. CASE PickOrder
  BY <1>7 DEF PickOrder
<1>8. CASE EndOrders
  BY <1>8 DEF EndOrders
<1>9. CASE QueryOpen
  BY <1>9 DEF QueryOpen, Return
<1>10. CASE ReadHistory
  BY <1>10 DEF ReadHistory, Return, HasFill, Terminal
<1>11. CASE BookFill
  BY <1>11 DEF BookFill, Sym
<1>12. CASE RestTakeProfit
  BY <1>12 DEF RestTakeProfit
<1>13. CASE MarkFilled
  BY <1>13 DEF MarkFilled, Return
<1>14. CASE Settle
  BY <1>14 DEF Settle, Sym
<1>15. CASE CancelMaker
  BY <1>0, <1>15 DEF CancelMaker, AllFaults
<1>16. CASE SettleRecheck
  BY <1>16 DEF SettleRecheck
<1>17. CASE MarkCancelled
  BY <1>0, <1>17 DEF MarkCancelled, AllFaults
<1>18. CASE TakerExecutes
  BY <1>18 DEF TakerExecutes
<1>19. CASE TakerRefused
  BY <1>19 DEF TakerRefused, Sym, TakerReturn
<1>20. CASE TakerBooked
  BY <1>0, <1>20 DEF TakerBooked, AllFaults, Sym, TakerReturn
<1>21. CASE BeginSignals
  BY <1>21 DEF BeginSignals
<1>22. CASE EndSignals
  BY <1>22 DEF EndSignals
<1>23. CASE PlaceMaker
  BY <1>23 DEF PlaceMaker
<1>24. CASE SaveOrder
  BY <1>24 DEF SaveOrder, Sym
<1>25. CASE UNCHANGED vars
  BY <1>25
<1> QED
  BY <1>1, <1>2, <1>3, <1>4, <1>5, <1>6, <1>7, <1>8, <1>9, <1>10, <1>11,
     <1>12, <1>13, <1>14, <1>15, <1>16, <1>17, <1>18, <1>19, <1>20, <1>21, <1>22,
     <1>23, <1>24, <1>25, FaultlessNext DEF Faultless

LEMMA PromiseAlways == ASSUME Timeout <= Cooldown PROVE Spec => [](Spared(AllFaults) => PromiseOK)
<1> DEFINE PromiseInv == Spared(AllFaults) => PromiseOK
<1>1. Init => PromiseInv
  BY MakerAssumption DEF Init, PromiseOK, AgeOK, AloneOK, RoomOK, DueOK, ScanOK, ReturnOK, PassOK,
     Busy, Entering, Working, Reconciling, Active
<1>2. Spared(AllFaults) => Spared(Interruptions) /\ Spared(AllFaults \ {"crash"})
  BY DEF Spared, AllFaults, Interruptions
<1>3. Inv /\ TakerInv /\ EntryInv /\ ExposureInv /\ TrackInv /\ PromiseInv /\ [Next]_vars
      => PromiseInv'
  <2> SUFFICES ASSUME Inv, TakerInv, EntryInv, ExposureInv, TrackInv, PromiseInv, [Next]_vars,
                      Spared(AllFaults)'
               PROVE  PromiseOK'
    OBVIOUS
  <2>1. Spared(AllFaults)
    BY SparedBefore
  <2>2. /\ TypeOK /\ NumberOK /\ BookingOK /\ TodoOK /\ EntryOK /\ ExposureOK /\ TrackOK
        /\ PromiseOK
    BY <1>2, <2>1 DEF Inv, TakerInv, EntryInv, ExposureInv, TrackInv
  <2>3. AgeOK' /\ AloneOK' /\ RoomOK' /\ DueOK' /\ ScanOK' /\ ReturnOK' /\ PassOK'
    BY <2>2, AgeOKStep, AloneOKStep, RoomOKStep, DueOKStep, ScanOKStep, ReturnOKStep, PassOKStep
  <2> QED BY <2>3 DEF PromiseOK
<1> HIDE DEF PromiseInv
<1>4. Spec => []PromiseInv
  BY <1>1, <1>3, InvAlways, TakerAlways, EntryAlways, ExposureAlways, TrackAlways, PTL DEF Spec
<1> QED BY <1>4 DEF PromiseInv

-----------------------------------------------------------------------------
(* The steps of the promise.                                               *)

LEMMA StateIs ==
    ASSUME TypeOK, NEW e \in Entries
    PROVE  /\ e > used => State[e] = "idle"
           /\ e <= used /\ rows[e] + takerRows[e] > 0 => State[e] = "opened"
           /\ e <= used /\ rows[e] + takerRows[e] = 0 /\ Pending(e) => State[e] = "pending"
           /\ e <= used /\ rows[e] + takerRows[e] = 0 /\ ~Pending(e) => State[e] = "dropped"
<1>1. e \in Nat /\ used \in Nat /\ rows[e] \in Nat /\ takerRows[e] \in Nat
  BY MakerAssumption DEF TypeOK, Entries
<1> QED BY <1>1 DEF State

LEMMA StateNext ==
    ASSUME TypeOK', NEW e \in Entries
    PROVE  /\ e > used' => State'[e] = "idle"
           /\ e <= used' /\ rows'[e] + takerRows'[e] > 0 => State'[e] = "opened"
           /\ e <= used' /\ rows'[e] + takerRows'[e] = 0 /\ Pending(e)' => State'[e] = "pending"
           /\ e <= used' /\ rows'[e] + takerRows'[e] = 0 /\ ~Pending(e)' => State'[e] = "dropped"
<1>1. e \in Nat /\ used' \in Nat
  BY MakerAssumption DEF TypeOK, Entries
<1>2. rows'[e] \in Nat /\ takerRows'[e] \in Nat
  BY DEF TypeOK
<1> QED BY <1>1, <1>2 DEF State

\* Entry e stands as it did.
LEMMA StateSame ==
    ASSUME TypeOK, TypeOK', NEW e \in Entries, e > used <=> e > used',
           rows'[e] = rows[e], takerRows'[e] = takerRows[e],
           e <= used /\ rows[e] + takerRows[e] = 0 => (Pending(e) <=> Pending(e)')
    PROVE  State'[e] = State[e]
<1>1. e \in Nat /\ used \in Nat /\ used' \in Nat /\ rows[e] \in Nat /\ takerRows[e] \in Nat
  BY MakerAssumption DEF TypeOK, Entries
<1> QED BY <1>1, StateIs, StateNext

LEMMA StateMoves ==
    ASSUME NEW c \in Entries, \A e \in Entries \ {c} : State'[e] = State[e]
    PROVE  State' = [State EXCEPT ![c] = State'[c]]
<1>1. State = [e \in Entries |-> State[e]] /\ State' = [e \in Entries |-> State'[e]]
  BY DEF State
<1> HIDE DEF State
<1> QED BY <1>1

\* Until a fault, a step of the loop is one of the promise, or none.
LEMMA StepPromised ==
    ASSUME TypeOK, TypeOK', NumberOK, BookingOK, TodoOK, EntryOK, ExposureOK, TrackOK, PromiseOK,
           Spared(AllFaults)', [Next]_vars
    PROVE  Promise!PNext \/ UNCHANGED Promise!pvars
<1> USE DEF TypeOK, vars, venue, ledger, entry, local
<1>0. \A f \in AllFaults : ~Strike(f)
  BY FaultlessNext
<1>n. used \in Nat /\ Entries \subseteq Nat
  BY MakerAssumption DEF TypeOK, Entries
<1>s. ASSUME UNCHANGED <<used, symOf, open>>,
             \A e \in Entries : /\ rows'[e] = rows[e] /\ takerRows'[e] = takerRows[e]
                                /\ rows[e] + takerRows[e] = 0 => (Pending(e) <=> Pending(e)')
      PROVE  UNCHANGED Promise!pvars
  <2>1. \A e \in Entries : State'[e] = State[e]
    BY <1>s, StateSame
  <2>2. State' = State
    BY <2>1 DEF State
  <2> QED BY <1>s, <2>2 DEF Promise!pvars
\* The entry under work is decided, the others stay.
<1>d. ASSUME cur \in Entries, State[cur] = "pending", UNCHANGED <<used, symOf>>,
             \A e \in Entries \ {cur} : /\ rows'[e] = rows[e] /\ takerRows'[e] = takerRows[e]
                                        /\ Pending(e) <=> Pending(e)',
             \/ State'[cur] = "dropped" /\ open' = open
             \/ /\ State'[cur] = "opened" /\ open[symOf[cur]] < MaxOpen
                /\ open' = [open EXCEPT ![symOf[cur]] = @ + 1]
      PROVE  Promise!PNext
  <2>1. \A e \in Entries \ {cur} : State'[e] = State[e]
    BY <1>d, StateSame
  <2>2. State' = [State EXCEPT ![cur] = State'[cur]]
    BY <1>d, <2>1, StateMoves
  <2>3. Promise!Opened(cur) \/ Promise!Dropped(cur)
    BY <1>d, <2>2 DEF Promise!Opened, Promise!Dropped
  <2> QED BY <1>d, <2>3 DEF Promise!PNext
<1>1. ASSUME NEW e \in Entries, Fill(e)
      PROVE  Promise!PNext \/ UNCHANGED Promise!pvars
  BY <1>s, <1>1 DEF Fill, Pending
<1>2. ASSUME NEW e \in Entries, VenueEnds(e)
      PROVE  Promise!PNext \/ UNCHANGED Promise!pvars
  BY <1>s, <1>2 DEF VenueEnds, Pending
<1>3. ASSUME NEW s \in Symbols, ClosePosition(s)
      PROVE  Promise!PNext \/ UNCHANGED Promise!pvars
  <2>1. \A e \in Entries : State'[e] = State[e]
    BY <1>3, StateSame DEF ClosePosition, Pending
  <2>2. State' = State
    BY <2>1 DEF State
  <2>3. Promise!Closed(s)
    BY <1>3, <2>2 DEF ClosePosition, Promise!Closed
  <2> QED BY <2>3 DEF Promise!PNext
<1>4. ASSUME NEW s \in Symbols, NEW d \in Sides, Signal(s, d)
      PROVE  Promise!PNext \/ UNCHANGED Promise!pvars
  <2> DEFINE n == used + 1
  <2>1. /\ n \in Entries /\ n > used /\ used' = n /\ cur' = n /\ pc = "signals" /\ pc' = "place"
        /\ symOf' = [symOf EXCEPT ![n] = s] /\ open[s] < MaxOpen
        /\ UNCHANGED <<ord, rows, takerRows, open>>
    BY <1>n, <1>4, MakerAssumption DEF Signal, Entries
  <2>2. State[n] = "idle" /\ rows[n] = 0 /\ takerRows[n] = 0
    BY <2>1, StateIs DEF NumberOK, Untouched
  <2>3. State'[n] = "pending"
    BY <2>1, <2>2, StateNext DEF Pending, TypeOK
  <2>4. \A e \in Entries \ {n} : State'[e] = State[e]
    <3> SUFFICES ASSUME NEW e \in Entries, e # n PROVE State'[e] = State[e]
      OBVIOUS
    <3>1. (e > used <=> e > used') /\ (e <= used => (Pending(e) <=> Pending(e)'))
      BY <1>n, <2>1 DEF Pending
    <3> QED BY <2>1, <3>1, StateSame
  <2>5. State' = [State EXCEPT ![n] = "pending"]
    BY <2>1, <2>3, <2>4, StateMoves
  <2>6. Promise!Accept(n, s)
    BY <2>1, <2>2, <2>5 DEF Promise!Accept
  <2> QED BY <2>1, <2>6 DEF Promise!PNext
<1>5. CASE Tick
  BY <1>s, <1>5 DEF Tick, Pending
<1>6. CASE BeginCycle
  BY <1>s, <1>6 DEF BeginCycle, Pending
<1>7. CASE PickOrder
  BY <1>s, <1>7 DEF PickOrder, Pending
<1>8. CASE EndOrders
  BY <1>s, <1>8 DEF EndOrders, Pending
<1>9. CASE QueryOpen
  BY <1>s, <1>9 DEF QueryOpen, Pending, Return, TrackOK
<1>10. CASE ReadHistory
  <2>1. CASE ~HasFill(cur) /\ pass = "first"
    <3>1. /\ cur \in Entries /\ cur <= used /\ ord[cur] \in Active /\ rows[cur] = 0
          /\ takerRows[cur] = 0 /\ pc' = "outcome" /\ exch[cur] \in Terminal
          /\ ord' = [ord EXCEPT ![cur] = exch[cur]] /\ pc = "history"
          /\ UNCHANGED <<cur, pass, used, symOf, rows, takerRows, open>>
      BY <1>10, <2>1 DEF ReadHistory, Return, NumberOK, EntryOK, TrackOK
    <3>2. State[cur] = "pending" /\ State'[cur] = "dropped"
      BY <2>1, <3>1, StateIs, StateNext DEF Pending, Active, Terminal, TypeOK
    <3>3. \A e \in Entries \ {cur} : Pending(e) <=> Pending(e)'
      BY <3>1 DEF Pending, TypeOK
    <3> QED BY <1>d, <3>1, <3>2, <3>3
  <2>2. CASE HasFill(cur) \/ pass # "first"
    <3>1. /\ pc = "history" /\ cur \in Entries /\ ord[cur] \in Active
          /\ (pc' = "book" /\ ord' = ord) \/ (pc' = "outcome" /\ pass = "recheck"
                                             /\ ord' = [ord EXCEPT ![cur] = exch[cur]])
          /\ UNCHANGED <<cur, pass, used, symOf, rows, takerRows, open>>
      BY <1>10, <2>2 DEF ReadHistory, Return, TrackOK, PassOK, PromiseOK, Reconciling
    <3>2. \A e \in Entries : Pending(e) <=> Pending(e)'
      BY <3>1 DEF Pending, TypeOK
    <3> QED BY <1>s, <3>1, <3>2
  <2> QED BY <2>1, <2>2
<1>11. CASE BookFill
  <2>1. /\ cur \in Entries /\ cur <= used /\ ord[cur] \in Active /\ rows[cur] = 0
        /\ takerRows[cur] = 0 /\ pc = "book" /\ pc' \in {"tp", "mark"}
        /\ rows' = [rows EXCEPT ![cur] = @ + 1] /\ open' = [open EXCEPT ![symOf[cur]] = @ + 1]
        /\ UNCHANGED <<ord, cur, pass, used, symOf, takerRows>>
    BY <1>11 DEF BookFill, Sym, NumberOK, EntryOK, TrackOK
  <2>2. rows'[cur] = 1 /\ takerRows'[cur] = 0
    BY <2>1 DEF TypeOK
  <2>3. State[cur] = "pending" /\ State'[cur] = "opened"
    BY <2>1, <2>2, StateIs, StateNext DEF Pending
  <2>4. \A e \in Entries \ {cur} : rows'[e] = rows[e] /\ (Pending(e) <=> Pending(e)')
    BY <2>1 DEF Pending, TypeOK
  <2>5. open[symOf[cur]] < MaxOpen
    BY <2>1 DEF PromiseOK, RoomOK, Busy
  <2> QED BY <1>d, <2>1, <2>3, <2>4, <2>5
<1>12. CASE RestTakeProfit
  BY <1>s, <1>12 DEF RestTakeProfit, Pending
<1>13. CASE MarkFilled
  BY <1>s, <1>13 DEF MarkFilled, Pending, Return, EntryOK, Active
<1>14. CASE Settle
  BY <1>s, <1>14 DEF Settle, Pending, ReturnOK, PromiseOK
<1>15. CASE CancelMaker
  BY <1>0, <1>s, <1>15 DEF CancelMaker, Pending, AllFaults, TrackOK
<1>16. CASE SettleRecheck
  BY <1>s, <1>16 DEF SettleRecheck, Pending, ReturnOK, PromiseOK, TypeOK
<1>17. CASE MarkCancelled
  BY <1>0, <1>s, <1>17 DEF MarkCancelled, Pending, AllFaults, PassOK, PromiseOK, Active
<1>18. CASE TakerExecutes
  BY <1>s, <1>18 DEF TakerExecutes, Pending
<1>19. CASE TakerRefused
  <2>1. /\ cur \in Entries /\ cur <= used /\ ord[cur] \notin Active /\ rows[cur] = 0
        /\ takerRows[cur] = 0 /\ pc = "taker" /\ pc' \in {"signals", "orders"}
        /\ UNCHANGED <<ord, cur, pass, used, symOf, rows, takerRows, open>>
    BY <1>19 DEF TakerRefused, TakerReturn, NumberOK, EntryOK
  <2>2. State[cur] = "pending" /\ State'[cur] = "dropped"
    BY <2>1, StateIs, StateNext DEF Pending
  <2>3. \A e \in Entries \ {cur} : Pending(e) <=> Pending(e)'
    BY <2>1 DEF Pending
  <2> QED BY <1>d, <2>1, <2>2, <2>3
<1>20. CASE TakerBooked
  <2>1. /\ cur \in Entries /\ cur <= used /\ ord[cur] \notin Active /\ rows[cur] = 0
        /\ takerRows[cur] = 0 /\ pc = "takerBook" /\ pc' \in {"signals", "orders"}
        /\ takerRows' = [takerRows EXCEPT ![cur] = @ + 1]
        /\ open' = [open EXCEPT ![symOf[cur]] = @ + 1]
        /\ UNCHANGED <<ord, cur, pass, used, symOf, rows>>
    BY <1>0, <1>20 DEF TakerBooked, TakerReturn, Sym, NumberOK, EntryOK, AllFaults
  <2>2. takerRows'[cur] = 1 /\ rows'[cur] = 0
    BY <2>1 DEF TypeOK
  <2>3. State[cur] = "pending" /\ State'[cur] = "opened"
    BY <2>1, <2>2, StateIs, StateNext DEF Pending
  <2>4. \A e \in Entries \ {cur} : takerRows'[e] = takerRows[e] /\ (Pending(e) <=> Pending(e)')
    BY <2>1 DEF Pending, TypeOK
  <2>5. open[symOf[cur]] < MaxOpen
    BY <2>1 DEF PromiseOK, RoomOK, Busy, Working
  <2> QED BY <1>d, <2>1, <2>3, <2>4, <2>5
<1>21. CASE BeginSignals
  BY <1>s, <1>21 DEF BeginSignals, Pending
<1>22. CASE EndSignals
  BY <1>s, <1>22 DEF EndSignals, Pending
<1>23. CASE PlaceMaker
  BY <1>s, <1>23 DEF PlaceMaker, Pending
<1>24. CASE SaveOrder
  BY <1>s, <1>24 DEF SaveOrder, Pending, Active
<1>25. CASE UNCHANGED vars
  BY <1>s, <1>25 DEF Pending
<1> QED
  BY <1>1, <1>2, <1>3, <1>4, <1>5, <1>6, <1>7, <1>8, <1>9, <1>10, <1>11,
     <1>12, <1>13, <1>14, <1>15, <1>16, <1>17, <1>18, <1>19, <1>20, <1>21, <1>22,
     <1>23, <1>24, <1>25, FaultlessNext DEF Faultless

\* Up to the first fault every step of the loop is a step of EntryPromise or
\* none: a signal acted on opens one position or none, and none over the cap
\* of its symbol, if the cooldown of a symbol is not shorter than the time its
\* order may rest (_reconcile_maker_entry, _execute_signal).
THEOREM StepsPromisedAlways == ASSUME Timeout <= Cooldown PROVE Spec => StepsPromised
<1> DEFINE PromiseInv == Spared(AllFaults) => PromiseOK
<1>1. Init => Promise!PInit
  BY MakerAssumption DEF Init, Promise!PInit, State, Entries
<1>2. Spared(AllFaults) => Spared(Interruptions) /\ Spared(AllFaults \ {"crash"})
  BY DEF Spared, AllFaults, Interruptions
<1>3. /\ Inv /\ Inv' /\ TakerInv /\ EntryInv /\ ExposureInv /\ TrackInv /\ PromiseInv
      /\ [Next]_vars
      => [Spared(AllFaults)' => Promise!PNext]_(Promise!pvars)
  <2> SUFFICES ASSUME Inv, Inv', TakerInv, EntryInv, ExposureInv, TrackInv, PromiseInv,
                      [Next]_vars, Spared(AllFaults)'
               PROVE  Promise!PNext \/ UNCHANGED Promise!pvars
    OBVIOUS
  <2>1. Spared(AllFaults)
    BY SparedBefore
  <2>2. /\ TypeOK /\ TypeOK' /\ NumberOK /\ BookingOK /\ TodoOK /\ EntryOK /\ ExposureOK
        /\ TrackOK /\ PromiseOK
    BY <1>2, <2>1 DEF Inv, TakerInv, EntryInv, ExposureInv, TrackInv
  <2> QED BY <2>2, StepPromised
<1>4. Spec => []PromiseInv
  BY PromiseAlways
<1> HIDE DEF PromiseInv
<1> QED
  BY <1>1, <1>3, <1>4, InvAlways, TakerAlways, EntryAlways, ExposureAlways, TrackAlways, PTL
     DEF Spec, StepsPromised

=============================================================================
