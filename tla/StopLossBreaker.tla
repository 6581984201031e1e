--------------------------- MODULE StopLossBreaker ----------------------------
(***************************************************************************)
(* The consecutive stop-loss breaker of CircuitBreakerService for one      *)
(* profile: the streak in memory, the pause cached in memory and stored as *)
(* an event row, and the history of closed positions a restart rebuilds    *)
(* the streak from.  The monitoring thread closes positions and records    *)
(* them; it and the webhook threads check the pause and end it.            *)
(***************************************************************************)
EXTENDS Integers, Sequences, FiniteSets

CONSTANTS
    Monitor, Webhooks,  \* the thread that closes, the others
    Limit,              \* max_consecutive_stop_losses
    RecentCloses,       \* how many closes a restart looks at: 10
    MaxCloses,          \* bound on closed positions
    Faults,             \* which of AllFaults may happen
    MaxFaults           \* bound on their number

(* A restart, one that finds a pause half ended, a failed commit, and (no  *)
(* fault, but counted with them) a close that bypasses _execute_close.     *)
AllFaults == {"crash", "crashEnding", "db", "elsewhere"}
Threads == {Monitor} \cup Webhooks

StopLossBreakerAssumption ==
    /\ Monitor \notin Webhooks
    /\ Limit \in Nat \ {0} /\ RecentCloses \in Nat
    /\ MaxCloses \in Nat /\ MaxFaults \in Nat
    /\ Faults \subseteq AllFaults

VARIABLES
    closes,     \* the closed positions, oldest first: their close_reason
    streak,     \* _sl_streaks[profile]
    rows,       \* the profile's consecutive stop-loss events, oldest first
    over,       \* reset_at of these rows has passed
    cached,     \* _sl_event_cache[profile]: a row, or 0
    at,         \* at[t]: where thread t is
    ending,     \* ending[t]: the row thread t is about to expire
    since,      \* history: the closes recorded when a pause last ended
    waived,     \* history: the rows an operator has reset
    struck      \* the faults so far: their number and their kinds

vars == <<closes, streak, rows, over, cached, at, ending, since, waived, struck>>

Reasons == {"STOP_LOSS", "OTHER"}
Event == [active: BOOLEAN, at: 0..MaxCloses]

TypeOK ==
    /\ closes \in Seq(Reasons) /\ Len(closes) <= MaxCloses
    /\ streak \in 0..MaxCloses
    /\ rows \in Seq(Event)
    /\ over \subseteq DOMAIN rows
    /\ cached \in {0} \cup DOMAIN rows
    /\ at \in [Threads -> {"idle", "record", "create", "publish", "expire"}]
    /\ ending \in [Threads -> Nat]
    /\ \A t \in Threads : at[t] = "expire" => ending[t] \in DOMAIN rows
    /\ since \in 0..Len(closes)
    /\ waived \subseteq DOMAIN rows
    /\ struck \in [count : Nat, kinds : SUBSET AllFaults]

Init ==
    /\ closes = <<>>
    /\ streak = 0
    /\ rows = <<>>
    /\ over = {}
    /\ cached = 0
    /\ at = [t \in Threads |-> "idle"]
    /\ ending = [t \in Threads |-> 0]
    /\ since = 0
    /\ waived = {}
    /\ struck = [count |-> 0, kinds |-> {}]

Go(t, where) == at' = [at EXCEPT ![t] = where]

Strike(f) ==
    /\ f \in Faults /\ struck.count < MaxFaults
    /\ struck' = [count |-> struck.count + 1, kinds |-> struck.kinds \cup {f}]

\* No fault of K has happened so far.
Spared(K) == struck.kinds \cap K = {}

AllIdle == \A t \in Threads : at[t] = "idle"
Active == {r \in DOMAIN rows : rows[r].active}

(* The closes at the end of the history that are stop losses, none of them *)
(* among the first n.                                                      *)
TailLosses(n) ==
    LET run == {k \in n..Len(closes) :
                  \A i \in k + 1..Len(closes) : closes[i] = "STOP_LOSS"}
    IN Cardinality(run) - 1

-----------------------------------------------------------------------------
(* Closing and recording. *)

(* _execute_close commits the close, then records it. *)
ClosePosition(reason) ==
    /\ at[Monitor] = "idle"
    /\ Len(closes) < MaxCloses
    /\ closes' = Append(closes, reason)
    /\ Go(Monitor, "record")
    /\ UNCHANGED <<streak, rows, over, cached, ending, since, waived, struck>>

(* The monitoring thread books a filled take-profit order or closes a      *)
(* position that is gone: closed in the database and not recorded.         *)
CloseElsewhere ==
    /\ Strike("elsewhere")
    /\ at[Monitor] = "idle"
    /\ Len(closes) < MaxCloses
    /\ closes' = Append(closes, "OTHER")
    /\ UNCHANGED <<streak, rows, over, cached, at, ending, since, waived>>

Recorded == closes[Len(closes)]

NextStreak == IF Recorded = "STOP_LOSS" THEN streak + 1 ELSE 0

(* record_position_close, up to the event it may have to create. *)
Record ==
    /\ at[Monitor] = "record"
    /\ streak' = NextStreak
    /\ Go(Monitor, IF streak' >= Limit /\ cached = 0 THEN "create" ELSE "idle")
    /\ UNCHANGED <<closes, rows, over, cached, ending, since, waived, struck>>

Create ==
    /\ at[Monitor] = "create"
    /\ rows' = Append(rows, [active |-> TRUE, at |-> Len(closes)])
    /\ Go(Monitor, "publish")
    /\ UNCHANGED <<closes, streak, over, cached, ending, since, waived, struck>>

CreateFails ==
    /\ at[Monitor] = "create"
    /\ Strike("db")
    /\ Go(Monitor, "idle")
    /\ UNCHANGED <<closes, streak, rows, over, cached, ending, since, waived>>

Publish ==
    /\ at[Monitor] = "publish"
    /\ cached' = Len(rows)
    /\ streak' = 0
    /\ since' = Len(closes)
    /\ Go(Monitor, "idle")
    /\ UNCHANGED <<closes, rows, over, ending, waived, struck>>

-----------------------------------------------------------------------------
(* Ending a pause. *)

LockRunsOut(r) ==
    /\ r \in DOMAIN rows \ over
    /\ over' = over \cup {r}
    /\ UNCHANGED <<closes, streak, rows, cached, at, ending, since, waived, struck>>

(* Mutant: ending the pause leaves the streak of the time it lasted. *)
EndKeepsStreak(t) ==
    /\ at[t] = "idle" /\ cached # 0
    /\ cached' = 0
    /\ streak' = streak
    /\ since' = IF at[Monitor] = "record" THEN Len(closes) - 1 ELSE Len(closes)
    /\ ending' = [ending EXCEPT ![t] = cached]
    /\ Go(t, "expire")

(* The cache and the streak at once, the row next. *)
End(t) ==
    /\ at[t] = "idle" /\ cached # 0
    /\ cached' = 0
    /\ streak' = 0
    /\ since' = IF at[Monitor] = "record" THEN Len(closes) - 1 ELSE Len(closes)
    /\ ending' = [ending EXCEPT ![t] = cached]
    /\ Go(t, "expire")

(* check_circuit_breakers finds the pause run out: _expire_sl_breaker. *)
ExpirePause(t) ==
    /\ cached \in over
    /\ End(t)
    /\ UNCHANGED <<closes, rows, over, waived, struck>>

(* force_reset_breaker. *)
ForceReset(t) ==
    /\ End(t)
    /\ waived' = waived \cup {cached}
    /\ UNCHANGED <<closes, rows, over, struck>>

ExpireRow(t) ==
    /\ at[t] = "expire"
    /\ rows' = [rows EXCEPT ![ending[t]].active = FALSE]
    /\ Go(t, "idle")
    /\ UNCHANGED <<closes, streak, over, cached, ending, since, waived, struck>>

ExpireFails(t) ==
    /\ at[t] = "expire"
    /\ Strike("db")
    /\ Go(t, "idle")
    /\ UNCHANGED <<closes, streak, rows, over, cached, ending, since, waived>>

-----------------------------------------------------------------------------
(* _compute_sl_streak: the losses at the end of the recent closes that     *)
(* came after the latest event.                                            *)
Rebuilt ==
    LET tail == TailLosses(IF rows = <<>> THEN 0 ELSE rows[Len(rows)].at) IN
    IF tail > RecentCloses THEN RecentCloses ELSE tail

Restart ==
    /\ Strike(IF \E t \in Threads : at[t] = "expire" THEN "crashEnding" ELSE "crash")
    /\ streak' = Rebuilt
    /\ IF Active = {} THEN cached' = 0 ELSE cached' \in Active
    /\ at' = [t \in Threads |-> "idle"]
    /\ UNCHANGED <<closes, rows, over, ending, since, waived>>

Next ==
    \/ \E reason \in Reasons : ClosePosition(reason)
    \/ CloseElsewhere
    \/ Record
    \/ Create
    \/ CreateFails
    \/ Publish
    \/ \E r \in DOMAIN rows : LockRunsOut(r)
    \/ \E t \in Threads :
        \/ ExpirePause(t)
        \/ ForceReset(t)
        \/ ExpireRow(t)
        \/ ExpireFails(t)
    \/ Restart

Spec == Init /\ [][Next]_vars

-----------------------------------------------------------------------------
(* A pause is set on as many stop losses in a row as the profile's limit   *)
(* says ("A STOP_LOSS close extends the streak; any other close resets     *)
(* it"), whatever fails, as long as every close goes through               *)
(* _execute_close.                                                         *)
InARow ==
    Spared({"elsewhere"}) => (at[Monitor] = "create" => TailLosses(0) >= Limit)

(* A pause is set on losses none of which came before the last one ended   *)
(* ("Fresh streak required after the pause expires"), until a restart      *)
(* rebuilds the streak from losses taken while the pause lasted.           *)
FreshStreak ==
    Spared({"crash", "crashEnding"}) =>
        (at[Monitor] = "create" => Len(closes) - since >= Limit)

(* When no thread is at work and the latest closes, since a pause last     *)
(* ended, are Limit stop losses, the profile is paused ("trigger the       *)
(* consecutive-SL breaker when the configured limit is hit"), unless the   *)
(* event could not be created.                                             *)
LimitPauses ==
    Spared({"crash", "crashEnding", "db"}) =>
        (AllIdle /\ TailLosses(since) >= Limit => cached # 0)

(* When no thread is at work, a pause that is stored and has neither run   *)
(* out nor been reset is in force, after a restart too, unless the row of  *)
(* an earlier pause was left active.                                       *)
PauseHolds ==
    Spared({"crashEnding", "db"}) =>
        (AllIdle /\ Active \ (over \cup waived) # {} => cached # 0)

(* A pause starts from losses in a row after the last pause, starts when   *)
(* they are there, and holds.                                              *)
PausesRight == FreshStreak /\ InARow /\ LimitPauses /\ PauseHolds
=============================================================================
