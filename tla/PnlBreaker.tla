------------------------------ MODULE PnlBreaker ------------------------------
(***************************************************************************)
(* The daily profit and loss breaker of CircuitBreakerService: event rows  *)
(* and a balance snapshot in the database, both cached in memory under one *)
(* key, and the threads (monitoring loop, webhook handlers) that check,    *)
(* trigger, expire and reset it.  A commit releases the interpreter, so a  *)
(* thread's steps end at its commits, calls and log lines.                 *)
(*                                                                         *)
(* Balances are whole numbers.  No deposit or withdrawal happens: the      *)
(* transfer check finds none and lets the trigger proceed.                 *)
(***************************************************************************)
EXTENDS Integers, FiniteSets, FiniteSetsExt

CONSTANTS
    Threads,        \* threads in the service at once
    Profiles,       \* profiles that share the cache key
    Standalone,     \* they have no account: the key is acct_None
    Values,         \* portfolio values
    ProfitPct, LossPct,
    MaxEvents,      \* bound on triggers
    LastDay,        \* bound on days
    Faults,         \* \subseteq {"crash", "db", "noValue"}
    MaxFaults       \* bound on restarts, failed commits and missing values

AllFaults == {"crash", "db", "noValue"}

ASSUME PnlBreakerAssumption ==
    /\ Threads # {} /\ Profiles # {}
    /\ Standalone \in BOOLEAN
    /\ Values \subseteq Nat \ {0}
    /\ ProfitPct \in Nat \ {0} /\ LossPct \in 1..100
    /\ MaxEvents \in Nat \ {0} /\ LastDay \in Nat
    /\ Faults \subseteq AllFaults /\ MaxFaults \in Nat

Events == 1..MaxEvents
NoEvent == 0

(* Whose money a profile trades: its account's, or its own. *)
Wallet(p) == IF Standalone THEN p ELSE "account"
Wallets == {Wallet(p) : p \in Profiles}

VARIABLES
    value,      \* value[w]: the portfolio value of a wallet
    day,        \* the UTC date
    rows,       \* circuit_breaker_events, in order of creation
    over,       \* over[e]: reset_at of the row has passed
    cached,     \* _event_cache[key]
    snap,       \* _snapshot_cache[key]
    snapDb,     \* the latest daily_balance_snapshots row
    at,         \* at[t]: where thread t is
    job,        \* job[t]: profile, event and outcome it works on
    waived,     \* history: the events an operator has reset
    struck      \* the faults so far: their number and their kinds

world == <<value, day, over>>
vars == <<world, rows, cached, snap, snapDb, at, job, waived, struck>>

NoRow == [status |-> "none"]
NoSnap == [start |-> 0]

Row == [status: {"active", "inactive"}, profile: Profiles,
        kind: {"profit", "loss"}, balance: Values, day: 0..LastDay]

Snap == [start: Values, high: Nat, base: Nat, day: 0..LastDay]

Idle == [profile |-> "none", event |-> NoEvent, then |-> "idle"]

Steps == {"idle", "outer", "inner", "clear", "expire", "rebase", "limits",
          "create", "publish"}

TypeOK ==
    /\ value \in [Wallets -> Values]
    /\ day \in 0..LastDay
    /\ rows \in [Events -> Row \cup {NoRow}]
    /\ over \in [Events -> BOOLEAN]
    /\ cached \in Events \cup {NoEvent}
    /\ cached # NoEvent => rows[cached] # NoRow
    /\ snap \in Snap \cup {NoSnap}
    /\ snapDb \in Snap \cup {NoSnap}
    /\ at \in [Threads -> Steps]
    /\ \A t \in Threads : at[t] \in {"clear", "expire", "rebase", "publish"} =>
           job[t].event \in Events /\ rows[job[t].event] # NoRow
    /\ waived \subseteq Events
    /\ struck \in [count : Nat, kinds : SUBSET AllFaults]

Init ==
    /\ value \in [Wallets -> Values]
    /\ day = 0
    /\ rows = [e \in Events |-> NoRow]
    /\ over = [e \in Events |-> FALSE]
    /\ cached = NoEvent
    /\ snap = NoSnap
    /\ snapDb = NoSnap
    /\ at = [t \in Threads |-> "idle"]
    /\ job = [t \in Threads |-> Idle]
    /\ waived = {}
    /\ struck = [count |-> 0, kinds |-> {}]

Active == {e \in Events : rows[e].status = "active"}
Created == {e \in Events : rows[e] # NoRow}
AllIdle == \A t \in Threads : at[t] = "idle"

Go(t, where) == at' = [at EXCEPT ![t] = where]
Done(t) == Go(t, "idle") /\ job' = [job EXCEPT ![t] = Idle]

Strike(f) ==
    /\ f \in Faults /\ struck.count < MaxFaults
    /\ struck' = [count |-> struck.count + 1, kinds |-> struck.kinds \cup {f}]

\* No fault of K has happened so far.
Spared(K) == struck.kinds \cap K = {}

-----------------------------------------------------------------------------
(* The world: markets move, locks run out (in the order they were set when *)
(* they are of one kind), the date changes.                                *)

MarketMoves(w) ==
    /\ \E v \in Values \ {value[w]} : value' = [value EXCEPT ![w] = v]
    /\ UNCHANGED <<day, over, rows, cached, snap, snapDb, at, job, waived, struck>>

LockRunsOut(e) ==
    /\ rows[e] # NoRow /\ ~over[e]
    /\ \A f \in Created : f < e /\ rows[f].kind = rows[e].kind => over[f]
    /\ over' = [over EXCEPT ![e] = TRUE]
    /\ UNCHANGED <<value, day, rows, cached, snap, snapDb, at, job, waived, struck>>

Midnight ==
    /\ day < LastDay
    /\ day' = day + 1
    /\ UNCHANGED <<value, over, rows, cached, snap, snapDb, at, job, waived, struck>>

-----------------------------------------------------------------------------
(* Reading the cached event. *)

(* The lock on the key that a check of any of its profiles meets. *)
Locked == cached # NoEvent /\ ~over[cached]

(* The one profile of the key monitor_all_profiles looks at. *)
Canonical == CHOOSE p \in Profiles : TRUE

(* check_circuit_breakers of any profile, and the check of                 *)
(* monitor_all_profiles, which goes straight to the limits.                *)
BeginCheck(t, p) ==
    /\ at[t] = "idle"
    /\ Go(t, "outer") \/ (p = Canonical /\ Go(t, "inner"))
    /\ job' = [job EXCEPT ![t].profile = p]
    /\ UNCHANGED <<world, rows, cached, snap, snapDb, waived, struck>>

Blocked(t) ==
    /\ at[t] \in {"outer", "inner"}
    /\ Locked
    /\ Done(t)
    /\ UNCHANGED <<world, rows, cached, snap, snapDb, waived, struck>>

(* An alert that is not a buy, or one checked without the limits, stops    *)
(* after the first look.                                                   *)
NotLocked(t) ==
    /\ at[t] \in {"outer", "inner"}
    /\ cached = NoEvent
    /\ \/ at[t] = "outer" /\ Go(t, "inner") /\ UNCHANGED job
       \/ at[t] = "outer" /\ Done(t)
       \/ at[t] = "inner" /\ Go(t, "limits") /\ UNCHANGED job
    /\ UNCHANGED <<world, rows, cached, snap, snapDb, waived, struck>>

(* Mutant: the lock's remaining time is not looked at. *)
SeeExpiredEarly(t) ==
    /\ at[t] \in {"outer", "inner"}
    /\ cached # NoEvent
    /\ Go(t, "clear")
    /\ job' = [job EXCEPT
         ![t].event = cached,
         ![t].then = IF at[t] = "outer" THEN "inner" ELSE "limits"]
    /\ UNCHANGED <<world, rows, cached, snap, snapDb, waived, struck>>

(* The cached lock has run out: go and clear it. *)
SeeExpired(t) ==
    /\ at[t] \in {"outer", "inner"}
    /\ cached # NoEvent /\ over[cached]
    /\ Go(t, "clear")
    /\ job' = [job EXCEPT
         ![t].event = cached,
         ![t].then = IF at[t] = "outer" THEN "inner" ELSE "limits"]
    /\ UNCHANGED <<world, rows, cached, snap, snapDb, waived, struck>>

(* force_reset_breaker of an operator. *)
ForceReset(t) ==
    /\ at[t] = "idle"
    /\ cached # NoEvent
    /\ Go(t, "clear")
    /\ job' = [job EXCEPT ![t].event = cached]
    /\ waived' = waived \cup {cached}
    /\ UNCHANGED <<world, rows, cached, snap, snapDb, struck>>

-----------------------------------------------------------------------------
(* _clear_breaker: the cache first, then the row, then the baseline. *)

Clear(t) ==
    /\ at[t] = "clear"
    /\ cached' = NoEvent
    /\ Go(t, "expire")
    /\ UNCHANGED <<world, rows, snap, snapDb, job, waived, struck>>

(* Mutant: the row of a cleared breaker stays active. *)
ExpireForgotten(t) ==
    /\ at[t] = "expire"
    /\ Go(t, "rebase")
    /\ UNCHANGED <<world, rows, cached, snap, snapDb, job, waived, struck>>

Expire(t) ==
    /\ at[t] = "expire"
    /\ rows' = [rows EXCEPT ![job[t].event].status = "inactive"]
    /\ Go(t, "rebase")
    /\ UNCHANGED <<world, cached, snap, snapDb, job, waived, struck>>

Base(s) == IF s.base # 0 THEN s.base ELSE s.start
Higher(a, b) == IF a >= b THEN a ELSE b

(* Mutant: a profit reset averages too. *)
NewBaseAveraged(e) == (Base(snap) + rows[e].balance) \div 2

(* _apply_baseline_reset: the gain becomes the new floor, a loss moves it  *)
(* half way.                                                               *)
NewBase(e) ==
    IF rows[e].kind = "profit" THEN rows[e].balance
    ELSE (Base(snap) + rows[e].balance) \div 2

(* A loss also pulls the high-water mark to the new baseline. *)
Rebased(s, e, raise) ==
    [s EXCEPT !.base = NewBase(e),
              !.high = IF rows[e].kind = "loss" THEN NewBase(e)
                       ELSE IF raise THEN Higher(@, NewBase(e)) ELSE @]

Rebase(t) ==
    /\ at[t] = "rebase"
    /\ IF snap = NoSnap THEN UNCHANGED <<snap, snapDb>>
       ELSE /\ snap' = Rebased(snap, job[t].event, FALSE)
            /\ snapDb' = Rebased(snapDb, job[t].event, TRUE)
    /\ Go(t, job[t].then)
    /\ job' = IF job[t].then = "idle" THEN [job EXCEPT ![t] = Idle] ELSE job
    /\ UNCHANGED <<world, rows, cached, waived, struck>>

-----------------------------------------------------------------------------
(* _check_daily_pnl_limits, and the trigger. *)

ProfitHit(s, v) == (v - Base(s)) * 100 >= ProfitPct * Base(s)
LossHit(s, v) == (v - s.high) * 100 <= -(LossPct * s.high)

Creating == {t \in Threads : at[t] = "create"}
HasRoom == Cardinality(Created) + Cardinality(Creating) < MaxEvents

(* The portfolio value of the profile the thread checks. *)
Worth(t) == value[Wallet(job[t].profile)]

Looked(t) == [snap EXCEPT !.high = Higher(@, Worth(t))]

NoLimit(t) ==
    /\ at[t] = "limits"
    /\ IF snap = NoSnap THEN UNCHANGED snap
       ELSE /\ snap' = Looked(t)
            /\ HasRoom => ~ProfitHit(snap', Worth(t)) /\ ~LossHit(snap', Worth(t))
    /\ Done(t)
    /\ UNCHANGED <<world, rows, cached, snapDb, waived, struck>>

ValueMissing(t) ==
    /\ at[t] = "limits"
    /\ Strike("noValue")
    /\ Done(t)
    /\ UNCHANGED <<world, rows, cached, snap, snapDb, waived>>

LimitHit(t, kind) ==
    /\ at[t] = "limits"
    /\ snap # NoSnap /\ HasRoom
    /\ snap' = Looked(t)
    /\ \/ kind = "profit" /\ ProfitHit(snap', Worth(t))
       \/ kind = "loss" /\ ~ProfitHit(snap', Worth(t)) /\ LossHit(snap', Worth(t))
    /\ Go(t, "create")
    /\ job' = [job EXCEPT ![t] =
         [profile |-> @.profile, event |-> NoEvent, then |-> "idle",
          kind |-> kind, balance |-> Worth(t), day |-> snap.day]]
    /\ UNCHANGED <<world, rows, cached, snapDb, waived, struck>>

(* create_circuit_breaker_event. *)
Create(t) ==
    /\ at[t] = "create"
    /\ LET e == Cardinality(Created) + 1 IN
       /\ rows' = [rows EXCEPT ![e] =
            [status |-> "active", profile |-> job[t].profile,
             kind |-> job[t].kind, balance |-> job[t].balance,
             day |-> job[t].day]]
       /\ job' = [job EXCEPT ![t] = [Idle EXCEPT !.event = e]]
    /\ Go(t, "publish")
    /\ UNCHANGED <<world, cached, snap, snapDb, waived, struck>>

Publish(t) ==
    /\ at[t] = "publish"
    /\ cached' = job[t].event
    /\ Done(t)
    /\ UNCHANGED <<world, rows, snap, snapDb, waived, struck>>

(* A commit raises, and the exception ends the check. *)
CommitFails(t) ==
    /\ at[t] \in {"expire", "rebase", "create"}
    /\ Strike("db")
    /\ Done(t)
    /\ UNCHANGED <<world, rows, cached, snap, snapDb, waived>>

-----------------------------------------------------------------------------
(* The snapshot, and what a start reads back. *)

NewSnap(v) == [start |-> v, high |-> v, base |-> 0, day |-> day]

(* _update_balance_snapshot of the monitoring loop. *)
UpdateSnapshot(t) ==
    /\ at[t] = "idle"
    /\ LET v == value[Wallet(Canonical)] IN
       IF snap = NoSnap \/ (snap # NoSnap /\ day > snap.day)
       THEN snap' = NewSnap(v) /\ snapDb' = NewSnap(v)
       ELSE /\ snap' = [snap EXCEPT !.high = Higher(@, v)]
            /\ snapDb' = [snapDb EXCEPT !.high = Higher(@, v)]
    /\ UNCHANGED <<world, rows, cached, at, job, waived, struck>>

(* Mutant: a start reads the snapshot back and no event. *)
LoadStateNoEvent ==
    /\ cached' = NoEvent
    /\ snap' = IF Standalone THEN NoSnap ELSE snapDb

(* An account's state is loaded by its id.  Without one the key gets the   *)
(* event of the first profile that has it, and no snapshot.                *)
LoadState ==
    LET mine == {e \in Active : Standalone => rows[e].profile = Canonical} IN
    /\ IF mine = {} THEN cached' = NoEvent ELSE cached' \in mine
    /\ snap' = IF Standalone THEN NoSnap ELSE snapDb

Restart ==
    /\ Strike("crash")
    /\ LoadState
    /\ at' = [t \in Threads |-> "idle"]
    /\ job' = [t \in Threads |-> Idle]
    /\ UNCHANGED <<world, rows, snapDb, waived>>

(* full_reload, after rows were edited by hand. *)
FullReload(t) ==
    /\ at[t] = "idle"
    /\ LoadState
    /\ UNCHANGED <<world, rows, snapDb, at, job, waived, struck>>

-----------------------------------------------------------------------------
Check(t) ==
    \/ \E p \in Profiles : BeginCheck(t, p)
    \/ Blocked(t)
    \/ NotLocked(t)
    \/ SeeExpired(t)
    \/ Clear(t)
    \/ Expire(t)
    \/ Rebase(t)
    \/ NoLimit(t)
    \/ \E kind \in {"profit", "loss"} : LimitHit(t, kind)
    \/ Create(t)
    \/ Publish(t)

World ==
    \/ \E w \in Wallets : MarketMoves(w)
    \/ \E e \in Events : LockRunsOut(e)
    \/ Midnight
    \/ Restart

Next ==
    \/ \E t \in Threads :
        \/ Check(t)
        \/ ForceReset(t)
        \/ ValueMissing(t)
        \/ CommitFails(t)
        \/ UpdateSnapshot(t)
        \/ FullReload(t)
    \/ World

(* Every thread that began a check goes on with it, the monitoring loop    *)
(* checks again and again, and time passes.                                *)
Fairness ==
    /\ \A t \in Threads : WF_vars(Check(t))
    /\ \A e \in Events : WF_vars(LockRunsOut(e))

Spec == Init /\ [][Next]_vars
FairSpec == Spec /\ Fairness

-----------------------------------------------------------------------------
(* Locks nobody is done with. *)
Standing == {e \in Active : ~over[e] /\ e \notin waived}

(* One thread sets no second lock while one stands, unless a write failed  *)
(* ("Re-check for an active event from cache to avoid duplicate triggers"). *)
SingleLock == Cardinality(Standing) <= 1
OneLock == Spared({"db"}) => SingleLock

(* Whenever no thread is in the service, a standing lock blocks the key's  *)
(* checks, after a restart or a reload too, unless a write failed.         *)
LockHolds == Spared({"db"}) /\ AllIdle /\ Standing # {} => Locked

(* One lock stands at a time, and while it stands it blocks.               *)
LockStands == OneLock /\ LockHolds

(* A lock that has neither run out nor been reset by an operator does not  *)
(* leave the cache, whatever fails: locks last for the configured hours.   *)
StaysLocked == Locked /\ cached \notin waived => cached' # NoEvent
NotLifted == [][StaysLocked]_vars

(* Of two profit locks in a row on one day, the second needs a further     *)
(* ProfitPct over the balance the first one locked in: a cleared lock does *)
(* not trigger again on the same gain, unless an interruption keeps the    *)
(* baseline where it was.                                                  *)
FurtherGain ==
    Spared({"crash", "db"}) =>
        \A e \in Created : e + 1 \in Created =>
            LET a == rows[e]
                b == rows[e + 1]
            IN a.kind = "profit" /\ b.kind = "profit" /\ a.day = b.day =>
                   b.balance * 100 >= a.balance * (100 + ProfitPct)

(* All locks so far were loss locks of the day of s, at most at its start. *)
LossesOnly(s) ==
    \A e \in Created : /\ rows[e].kind = "loss" /\ rows[e].day = s.day
                       /\ rows[e].balance <= s.start

(* A check that finds the day's gain at the daily cap locks, as long as    *)
(* the only locks so far were the day's loss locks, each set at no more    *)
(* than the day's start: a cleared lock moves the baseline the gain is     *)
(* measured from, on a later day as well, and a loss from a high-water     *)
(* mark may move it above the start.                                       *)
CapLocks ==
    \A t \in Threads :
        /\ at[t] = "limits" /\ at'[t] = "idle"
        /\ struck' = struck
        /\ snap # NoSnap /\ HasRoom
        /\ LossesOnly(snap)
        => Worth(t) * 100 < snap.start * (100 + ProfitPct)
DailyCap == [][CapLocks]_vars

(* A lock lasts its hours, and a day whose gain is at the cap is locked.   *)
LockLasts == NotLifted /\ DailyCap

(* "Standalone profiles (account_id=None) fall back to profile_name        *)
(* lookups": the lock a profile meets was set for its own money.           *)
LockScoped ==
    \A t \in Threads :
        at[t] \in {"outer", "inner"} /\ Locked =>
            Wallet(rows[cached].profile) = Wallet(job[t].profile)

(* Every lock is cleared in the database in the end, whenever the process  *)
(* restarts, unless a write failed.                                        *)
LockEnds ==
    \A e \in Events :
        rows[e].status = "active" ~> rows[e].status = "inactive" \/ ~Spared({"db"})
=============================================================================
