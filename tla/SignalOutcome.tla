----------------------------- MODULE SignalOutcome -----------------------------
(***************************************************************************)
(* What became of the signals the AI agent judged.  Each is a row of       *)
(* ai_signal_log with an entry, a stop and a target; its outcome is filled *)
(* in by one of three writers: the monitoring loop when the position the   *)
(* signal opened closes, the command-line resolver, which walks the        *)
(* candles after the signal and runs in a process of its own, and the      *)
(* resolution endpoint, which walks the history of the trend cache.        *)
(*                                                                         *)
(* A candle is what it touched: the level above the entry, the one below,  *)
(* both (with the one closer to its open), or neither.                     *)
(***************************************************************************)
EXTENDS Naturals, Sequences, FiniteSetsExt

CONSTANTS
    Nothing,       \* no row, no run of the resolver
    Signals,       \* signals of one pair and timeframe
    Forward,       \* MAX_CANDLES_FORWARD
    MaxCandles     \* bound: candles of the pair

VARIABLES
    feed,          \* the candles stored so far, the oldest first
    rows,          \* ai_signal_log
    position,      \* the position a signal opened, and whether it carries ai_log_id
    tool           \* the outcomes a run of the resolver is about to commit

vars == <<feed, rows, position, tool>>

Candles == {"none", "up", "down", "both_up", "both_down", "both_even"}
Results == {"WIN", "LOSS", "BREAKEVEN", "MISSED"}
Writers == {"close", "tool", "endpoint"}

\* A row: the candle it was logged on, the side and the decision, the outcome.
Row == [at : Nat, long : BOOLEAN, decision : {"ENTER", "SKIP"},
        result : Results \cup {Nothing}, by : Writers \cup {Nothing}]

OutcomeAssumption ==
    /\ Forward \in Nat \ {0}
    /\ Nothing \notin Results \cup Writers \cup Row

Init ==
    /\ feed = <<>>
    /\ rows = [s \in Signals |-> Nothing]
    /\ position = [s \in Signals |-> "none"]
    /\ tool = Nothing

Unresolved(s) == rows[s] # Nothing /\ rows[s].result = Nothing

Resolve(s, result, by) == [rows EXCEPT ![s].result = result, ![s].by = by]

-----------------------------------------------------------------------------
\* The level a candle is taken to have reached first: the one closer to its
\* open when it touched both, the target when they are as close.
Reached(candle, up) ==
    CASE candle \in {"up", "both_up"}     -> "up"
      [] candle \in {"down", "both_down"} -> "down"
      [] candle = "both_even"             -> IF up THEN "up" ELSE "down"
      [] OTHER                            -> "none"

\* The candles the resolver looks at: the first ones after the signal's own.
LastCandles(at) ==  \* mutant: the newest ones
    {i \in DOMAIN feed : i > at /\ i + Forward > Len(feed)}
Window(at) == {i \in DOMAIN feed : i > at /\ i <= at + Forward}

\* simulate_outcome, for a long signal when up is the target.
simulate_outcome(up, at) ==
    LET hits == {i \in Window(at) : feed[i] # "none"} IN
    IF hits = {} THEN "MISSED"
    ELSE IF (Reached(feed[Min(hits)], up) = "up") = up THEN "WIN" ELSE "LOSS"

-----------------------------------------------------------------------------
\* A candle is completed and stored.
Candle(c) ==
    /\ Len(feed) < MaxCandles
    /\ feed' = Append(feed, c)
    /\ UNCHANGED <<rows, position, tool>>

\* A new row of ai_signal_log, of the candle the decision was taken on.
Logged(long, decision) ==
    [at |-> Len(feed), long |-> long, decision |-> decision, result |-> Nothing, by |-> Nothing]

\* _log_to_db
Log(s, long, decision) ==
    /\ rows[s] = Nothing
    /\ rows' = [rows EXCEPT ![s] = Logged(long, decision)]
    /\ UNCHANGED <<feed, position, tool>>

\* The entry fills and _stamp_ai_log_id_on_position links the position to the
\* row.  A failed stamp is only logged, and the fill of a resting order is not
\* stamped at all: then the position carries no link.
Enter(s) ==
    /\ rows[s] # Nothing /\ position[s] = "none"
    /\ \E how \in {"linked", "bare"} : position' = [position EXCEPT ![s] = how]
    /\ UNCHANGED <<feed, rows, tool>>

\* _classify_outcome, of the profit computed as for a long position.
Classified(exit) ==
    CASE exit = "above" -> "WIN" [] exit = "below" -> "LOSS" [] OTHER -> "BREAKEVEN"

\* resolve_ai_signal_outcome, when the position closes: a row that has an
\* outcome is left alone, and a failure of the database is only logged.
Close(s, exit) ==
    /\ position[s] \in {"linked", "bare"}
    /\ position' = [position EXCEPT ![s] = "closed_" \o @]
    /\ \/ /\ position[s] = "linked" /\ Unresolved(s)
          /\ rows' = Resolve(s, Classified(exit), "close")
       \/ UNCHANGED rows
    /\ UNCHANGED <<feed, tool>>

\* The resolver reads the rows that are unresolved and linked to no position,
\* and the candles of each.
ToolReads ==
    /\ tool = Nothing
    /\ tool' = [s \in {t \in Signals : Unresolved(t) /\
                                       position[t] \notin {"linked", "closed_linked"}} |->
                   simulate_outcome(rows[s].long, rows[s].at)]
    /\ UNCHANGED <<feed, rows, position>>

\* It writes them all in one commit, or fails and writes nothing.
ToolCommits ==
    /\ tool # Nothing
    /\ tool' = Nothing
    /\ \/ rows' = [s \in Signals |-> IF s \in DOMAIN tool
                                     THEN [rows[s] EXCEPT !.result = tool[s], !.by = "tool"]
                                     ELSE rows[s]]
       \/ UNCHANGED rows
    /\ UNCHANGED <<feed, position>>

\* What trigger_outcome_resolution makes of a candle: the stop is below and the
\* target above, whatever the side.  For a short signal, whose stop is above,
\* the low of a candle is below the stop unless the whole candle is beyond it.
Judged(long, candle) ==
    IF long
    THEN CASE candle \in {"down", "both_up", "both_down", "both_even"} -> {"LOSS"}
           [] candle = "up" -> {"WIN"} [] OTHER -> {}
    ELSE IF candle = "up" THEN {"LOSS", "WIN"} ELSE {"LOSS"}

\* trigger_outcome_resolution: every entry of the profile still unresolved is
\* judged by the history in memory from its oldest candle on.
EndpointResolves ==
    /\ \E found \in [Signals -> {"WIN", "LOSS", Nothing}] :
          /\ \A s \in Signals :
                LET judged == {i \in DOMAIN feed :
                                  Unresolved(s) /\ Judged(rows[s].long, feed[i]) # {}} IN
                IF Unresolved(s) /\ rows[s].decision = "ENTER" /\ judged # {}
                THEN found[s] \in Judged(rows[s].long, feed[Min(judged)])
                ELSE found[s] = Nothing
          /\ rows' = [s \in Signals |-> IF found[s] = Nothing THEN rows[s]
                        ELSE [rows[s] EXCEPT !.result = found[s], !.by = "endpoint"]]
    /\ UNCHANGED <<feed, position, tool>>

Next ==
    \/ \E c \in Candles : Candle(c)
    \/ \E s \in Signals, long \in BOOLEAN, d \in {"ENTER", "SKIP"} : Log(s, long, d)
    \/ \E s \in Signals : Enter(s)
    \/ \E s \in Signals, exit \in {"above", "below", "even"} : Close(s, exit)
    \/ ToolReads
    \/ ToolCommits
    \/ EndpointResolves

Spec == Init /\ [][Next]_vars

-----------------------------------------------------------------------------
\* The rows have their form.
TypeOK ==
    /\ feed \in Seq(Candles) /\ Len(feed) <= MaxCandles
    /\ rows \in [Signals -> {Nothing} \cup Row]
    /\ position \in [Signals -> {"none", "linked", "bare", "closed_linked", "closed_bare"}]
    /\ tool = Nothing \/ DOMAIN tool \in SUBSET Signals

\* A win or a loss the resolver wrote is what happened first after the signal,
\* whatever candles came before its run or after it: the level it names was
\* reached, on a candle later than the signal's, and the other was not reached
\* before.
FirstTouch ==
    \A s \in Signals :
        rows[s] # Nothing /\ rows[s].by = "tool" /\ rows[s].result \in {"WIN", "LOSS"} =>
        LET target == IF rows[s].long THEN {"up", "both_up", "both_even"}
                      ELSE {"down", "both_down", "both_even"}
            first  == {i \in DOMAIN feed : i > rows[s].at /\ feed[i] # "none" /\
                          \A j \in DOMAIN feed : j > rows[s].at /\ j < i => feed[j] = "none"} IN
        \E i \in first : (rows[s].result = "WIN") <=> feed[i] \in target

\* models: "OutcomeResolver fills outcome_* columns once SL or TP is hit."
OnceHit ==
    \A s \in Signals : rows[s] # Nothing /\ rows[s].by = "tool" => rows[s].result # "MISSED"

\* resolve_ai_outcomes: "live positions write their own outcome on close".
LiveWritesItsOwn ==
    \A s \in Signals : rows[s] # Nothing /\ rows[s].result # Nothing /\
        position[s] \in {"linked", "closed_linked"} => rows[s].by = "close"
=============================================================================
