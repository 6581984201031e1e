---------------------------- MODULE MonitorCycle ----------------------------
(***************************************************************************)
(* The thread of the monitoring service: one iteration after another, each *)
(* a fixed sequence of steps, some of them only every so many iterations.  *)
(* A step that raises ends its iteration; the loop backs off and goes on.  *)
(* start and stop share one flag with the thread, and stop does not wait   *)
(* for a thread that sleeps, so that two loops may run side by side.       *)
(***************************************************************************)
EXTENDS Integers, Sequences, FiniteSets

CONSTANTS
    Loops,       \* the threads start may create
    Every,       \* the interval of each periodic check, in iterations
    MaxChanges,  \* bound: outages that begin or end
    MaxStops     \* bound: stops of the service

Checks == {"retention", "breakers", "trend", "validation", "dust", "signals"}
Steps == <<"retention", "prices", "balances", "breakers", "orders", "positions",
           "validation", "dust", "signals">>
Periodic == Checks \ {"trend"}

\* The steps whose errors leave the iteration: one request for all tickers, the
\* reconciliation of orders, the review of positions and their validation.
\* The others log their errors and return.
Raising == {"prices", "orders", "positions", "validation"}

EveryAssumption == Every \in [Checks -> Nat \ {0}]

VARIABLES
    running,     \* is_running
    at,          \* the step a loop is before: 0 to begin, Len(Steps) + 1 to end;
                 \*   or Asleep, or Off
    errors,      \* consecutive_errors of a loop, up to two
    counters,    \* iterations since each periodic check
    outage,      \* the steps that fail at present
    notice,      \* the last message of a loop: none, failed, recovered
    visited,     \* history: some loop has just been through the open positions
    owed,        \* history: checks found due and not completed since
    changes, stops

vars == <<running, at, errors, counters, outage, notice, visited, owed, changes, stops>>

Off == -1
Asleep == Len(Steps) + 2

Init ==
    /\ running = FALSE
    /\ at = [l \in Loops |-> Off]
    /\ errors = [l \in Loops |-> 0]
    /\ counters = [c \in Checks |-> 0]
    /\ outage = {}
    /\ notice = [l \in Loops |-> "none"]
    /\ visited = FALSE
    /\ owed = {}
    /\ changes = 0
    /\ stops = 0

Due(c) == counters[c] >= Every[c]

Start(l) ==
    /\ ~ running
    /\ at[l] = Off
    /\ running' = TRUE
    /\ at' = [at EXCEPT ![l] = 0]
    /\ errors' = [errors EXCEPT ![l] = 0]
    /\ notice' = [notice EXCEPT ![l] = "none"]
    /\ UNCHANGED <<counters, outage, visited, owed, changes, stops>>

\* stop waits five seconds for the thread and returns whether or not it ended.
Stop ==
    /\ running /\ stops < MaxStops
    /\ running' = FALSE
    /\ stops' = stops + 1
    /\ UNCHANGED <<at, errors, counters, outage, notice, visited, owed, changes>>

\* A new iteration counts for every check; a loop that finds the flag down ends.
Begin(l) ==
    /\ at[l] = 0 /\ running
    /\ at' = [at EXCEPT ![l] = 1]
    /\ counters' = [c \in Checks |-> IF Due(c) THEN counters[c] ELSE counters[c] + 1]
    /\ owed' = owed \cup {c \in Periodic : counters'[c] >= Every[c]}
    /\ visited' = FALSE
    /\ UNCHANGED <<running, errors, outage, notice, changes, stops>>

End(l) ==
    /\ at[l] = 0 /\ ~ running
    /\ at' = [at EXCEPT ![l] = Off]
    /\ UNCHANGED <<running, errors, counters, outage, notice, visited, owed, changes, stops>>

InStep(l) == at[l] \in 1..Len(Steps)
Step(l) == Steps[at[l]]
Skipped(l) == Step(l) \in Periodic /\ ~ Due(Step(l))
Fails(l) == Step(l) \in Raising \cap outage /\ ~ Skipped(l)

\* The review of positions decides at its start whether this is a turn of the
\* trend check, and gives the turn up there and then.
TrendTurn(l, c) == IF Step(l) = "positions" /\ Due("trend") /\ c = "trend" THEN 0 ELSE counters[c]

\* A periodic check gives its turn up once it is done.
TurnDone(l) == Step(l) \in Periodic /\ Due(Step(l)) /\ ~ Fails(l)

Counted(l) == [c \in Checks |-> IF TurnDone(l) /\ c = Step(l) THEN 0 ELSE TrendTurn(l, c)]

Do(l) ==
    /\ InStep(l) /\ ~ Fails(l)
    /\ at' = [at EXCEPT ![l] = @ + 1]
    /\ counters' = Counted(l)
    /\ owed' = owed \ {c \in Periodic : c = Step(l) /\ Due(c)}
    /\ visited' = (Step(l) = "positions")
    /\ UNCHANGED <<running, errors, outage, notice, changes, stops>>

\* The error handler: a message on the first failure only, which is not sent
\* when the service has been stopped; then the pause.
Tell(l, what) == notice' = [notice EXCEPT ![l] = IF running THEN what ELSE @]

RaiseAndEnd(l) ==
    /\ InStep(l) /\ Fails(l)
    /\ at' = [at EXCEPT ![l] = Off]
    /\ visited' = FALSE
    /\ UNCHANGED <<running, errors, counters, outage, notice, owed, changes, stops>>
Raise(l) ==
    /\ InStep(l) /\ Fails(l)
    /\ counters' = Counted(l)
    /\ errors' = [errors EXCEPT ![l] = IF @ = 2 THEN 2 ELSE @ + 1]
    /\ IF errors[l] = 0 THEN Tell(l, "failed") ELSE UNCHANGED notice
    /\ at' = [at EXCEPT ![l] = IF running THEN Asleep ELSE 0]
    /\ visited' = FALSE
    /\ UNCHANGED <<running, outage, owed, changes, stops>>

\* Mutant: an error ends the loop.

Complete(l) ==
    /\ at[l] = Len(Steps) + 1
    /\ IF errors[l] > 0 THEN Tell(l, "recovered") ELSE UNCHANGED notice
    /\ errors' = [errors EXCEPT ![l] = 0]
    /\ at' = [at EXCEPT ![l] = IF running THEN Asleep ELSE 0]
    /\ visited' = FALSE
    /\ UNCHANGED <<running, counters, outage, owed, changes, stops>>

Wake(l) ==
    /\ at[l] = Asleep
    /\ at' = [at EXCEPT ![l] = 0]
    /\ UNCHANGED <<running, errors, counters, outage, notice, visited, owed, changes, stops>>

\* The database, the exchange or the network fails, or is back.
OutageChanges(s) ==
    /\ changes < MaxChanges
    /\ outage' = IF s \in outage THEN outage \ {s} ELSE outage \cup {s}
    /\ changes' = changes + 1
    /\ UNCHANGED <<running, at, errors, counters, notice, visited, owed, stops>>

Next ==
    \/ \E l \in Loops : \/ Start(l) \/ Begin(l) \/ End(l)
                        \/ Do(l) \/ Raise(l) \/ Complete(l) \/ Wake(l)
    \/ Stop
    \/ \E s \in Raising : OutageChanges(s)

Spec == Init /\ [][Next]_vars

\* The thread is scheduled.
Fairness == \A l \in Loops : /\ WF_vars(Begin(l)) /\ WF_vars(End(l)) /\ WF_vars(Do(l))
                             /\ WF_vars(Raise(l)) /\ WF_vars(Complete(l)) /\ WF_vars(Wake(l))
FairSpec == Spec /\ Fairness

-----------------------------------------------------------------------------
TypeOK ==
    /\ at \in [Loops -> Off..Asleep]
    /\ errors \in [Loops -> 0..2]
    /\ \A c \in Checks : counters[c] \in 0..Every[c]
    /\ outage \subseteq Raising /\ owed \subseteq Periodic

(* A periodic check whose turn came stays due until some iteration has done   *)
(* it: an iteration that fails before the check, or in it, does not put it    *)
(* off by a whole interval ("logged and retried on the next tick").           *)
DueStaysDue == \A c \in owed : Due(c)

(* The loop outlives its errors: while the service runs, and once no step     *)
(* fails any more, the open positions are looked at again and again, however  *)
(* many iterations failed before and whatever was stopped and started.        *)
PositionsWatched ==
    <>[](running /\ outage = {}) => []<>visited

(* The same for the trend and staleness check, which gives up its turn before *)
(* the work is done: a failure in the review of positions puts it off.        *)
TrendRetried ==
    [][\A l \in Loops : (Raise(l) /\ Due("trend")) => Due("trend")']_vars

(* There is one loop: the service that is "already running" is not started    *)
(* twice, and what was stopped has stopped.                                   *)
OneLoop == Cardinality({l \in Loops : at[l] # Off}) <= 1
=============================================================================
