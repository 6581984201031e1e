----------------------------- MODULE SignalLoop -----------------------------
(***************************************************************************)
(* How the monitoring loop turns signals into entries: for each profile it *)
(* filters the symbols by signal cooldown, scans the rest behind the       *)
(* re-entry check, and acts on each signal under the limits of the risk    *)
(* group and of the profile.                                               *)
(*                                                                         *)
(* The monitoring thread runs one step at a time (pc).  The request        *)
(* threads interleave with it: webhook alerts, scans and test executions   *)
(* asked for through the API, positions closed by hand.  Both kinds of     *)
(* thread share the batch of recent exits kept per profile.                *)
(*                                                                         *)
(* A cycle, a scan or a request is shorter than the unit of time, so the   *)
(* clock advances only between them; an exit of age 0 may have happened    *)
(* during the cycle that is running.                                       *)
(***************************************************************************)
EXTENDS Integers, FiniteSets

CONSTANTS
    Profiles,         \* profiles of one risk group, all generating signals
    Symbols,          \* the active symbols
    SymbolsOf,        \* those each profile scans (get_symbols_for_profile)
    MakerProfiles,    \* those in maker_then_taker mode
    Bare,             \* those whose entries need no entry filter (AI or none)
    ProfileCap,       \* max_open_positions_per_profile
    SymbolCap,        \* max_open_positions, per symbol of a profile
    GroupCap,         \* max_open_positions of the risk group
    GroupSymbolCap,   \* max_positions_per_symbol of the risk group
    Cooldown,         \* signal_cooldown_minutes
    StopCooldown, ProfitCooldown, DefaultCooldown,  \* of the re-entry check
    Hour,             \* units of time in an hour
    RestoreWindow,    \* age of a position beyond which a restart ignores it
    MaxEntries,       \* bound: positions booked in a behaviour
    MaxCloses,        \* bound: positions closed in a behaviour
    MaxEvents         \* bound: requests and restarts in a behaviour

None == "none"

ASSUME SignalAssumption ==
    /\ IsFiniteSet(Profiles) /\ IsFiniteSet(Symbols)
    /\ None \notin Profiles
    /\ SymbolsOf \in [Profiles -> SUBSET Symbols]
    /\ MakerProfiles \subseteq Profiles /\ Bare \subseteq Profiles
    /\ {ProfileCap, SymbolCap, GroupCap, GroupSymbolCap, Hour} \subseteq Nat \ {0}
    /\ {Cooldown, StopCooldown, ProfitCooldown, DefaultCooldown} \subseteq Nat
    /\ RestoreWindow \in Nat /\ Cooldown <= RestoreWindow
    /\ {MaxEntries, MaxCloses, MaxEvents} \subseteq Nat

VARIABLES
    \* the database: the OPEN positions, each with its pair and who opened
    \* it ("loop" by an immediate fill, "other" in any other way)
    held,
    \* and of each profile and symbol
    resting,    \* whether a maker entry order rests
    exit,       \* the latest exit: its reason and age
    born,       \* age of the newest position
    \* shared memory of the threads
    cool,       \* what is left of the signal cooldown (_last_signals)
    batch,      \* recent exits primed for a scan of each profile (_prefetched)
    \* the monitoring thread
    pc, todo, cur, queue, signals, sel,
    \* the request threads: the alert being processed, the profile scanned
    alert, api,
    spent,      \* what the bounds count
    since       \* time since the loop last opened a position of the pair

dbVars == <<held, resting, exit, born>>
loopVars == <<todo, cur, queue, signals, sel>>
vars == <<dbVars, cool, batch, pc, loopVars, alert, api, spent, since>>

NoSignal == [sym |-> None, checked |-> FALSE]
NoAlert == [sym |-> None, left |-> {}, sized |-> FALSE]
Reasons == {"STOP_LOSS", "TAKE_PROFIT", "MANUAL"}
SetMax(S) == CHOOSE x \in S : \A y \in S : y <= x

-----------------------------------------------------------------------------
(* The re-entry manager.                                                   *)

CooldownAfter(why) ==
    CASE why = "TAKE_PROFIT" -> ProfitCooldown
      [] why = "STOP_LOSS" -> StopCooldown
      [] OTHER -> DefaultCooldown

\* Mutant of Lookback: the two hours _get_most_recent_exit defaults to.
LookbackFixed == 2 * Hour

\* reentry_lookback_hours: the longest cooldown in whole hours, plus one.
Lookback ==
    LET longest == SetMax({StopCooldown, ProfitCooldown, DefaultCooldown})
        hours == (longest + Hour - 1) \div Hour + 1
    IN  Hour * SetMax({2, hours})

\* What a query of the recent exits finds for the pair.
NoExit == [why |-> None, age |-> 0]
Recent(p, s) == IF exit[p][s].age <= Lookback THEN exit[p][s] ELSE NoExit

NoBatch == [s \in {} |-> NoExit]
Primed(p, S) == [s \in S |-> Recent(p, s)]

\* The exit can_reenter decides on: of the primed batch if the profile has
\* one, where a symbol outside it has none, otherwise of a query.
Known(p, s) ==
    IF batch[p] = NoBatch THEN Recent(p, s)
    ELSE IF s \in DOMAIN batch[p] THEN batch[p][s] ELSE NoExit

Cooling(e) == e.why # None /\ e.age < CooldownAfter(e.why)

\* RULE 1 of can_reenter.  The momentum rule behind it only refuses more.
CanReenter(p, s) == ~Cooling(Known(p, s))

-----------------------------------------------------------------------------
(* The limits.                                                             *)

\* count_open_positions_for_profiles, of any profiles and of some symbols.
OpenOn(P, S) == {h \in held : h.of \in P /\ h.sym \in S}
Open(P, S) == Cardinality(OpenOn(P, S))

\* calculate_buy_quantity: it sizes the entry unless a cap is reached.
Sizable(p, s) == Open({p}, {s}) < SymbolCap /\ Open({p}, Symbols) < ProfileCap

-----------------------------------------------------------------------------
Init ==
    /\ held = {}
    /\ resting = [p \in Profiles |-> [s \in Symbols |-> FALSE]]
    /\ exit = [p \in Profiles |-> [s \in Symbols |-> NoExit]]
    /\ born = [p \in Profiles |-> [s \in Symbols |-> RestoreWindow]]
    /\ cool = [p \in Profiles |-> [s \in Symbols |-> 0]]
    /\ batch = [p \in Profiles |-> NoBatch]
    /\ pc = "idle" /\ todo = {} /\ cur = None
    /\ queue = {} /\ signals = {} /\ sel = NoSignal
    /\ alert = NoAlert /\ api = None
    /\ spent = [entries |-> 0, closes |-> 0, events |-> 0]
    /\ since = [p \in Profiles |-> [s \in Symbols |-> Cooldown]]

Spend(what, limit) ==
    /\ spent[what] < limit
    /\ spent' = [spent EXCEPT ![what] = @ + 1]

\* A position of the pair is booked.
Book(p, s, by) ==
    /\ Spend("entries", MaxEntries)
    /\ held' = held \cup {[id |-> spent.entries + 1, of |-> p, sym |-> s, by |-> by]}
    /\ born' = [born EXCEPT ![p][s] = 0]

-----------------------------------------------------------------------------
(* The monitoring thread: _check_signals.                                  *)

StartCycle ==
    /\ pc = "idle"
    /\ pc' = "profile" /\ todo' = Profiles
    /\ UNCHANGED <<dbVars, cool, batch, cur, queue, signals, sel, alert, api, spent, since>>

EndCycle ==
    /\ pc = "profile" /\ todo = {}
    /\ pc' = "idle"
    /\ UNCHANGED <<dbVars, cool, batch, loopVars, alert, api, spent, since>>

\* The profile is outside its trading hours, behind a breaker, at its cap,
\* all in cooldown, or raises before the scan.
SkipProfile(p) ==
    /\ pc = "profile" /\ p \in todo
    /\ todo' = todo \ {p}
    /\ UNCHANGED <<dbVars, cool, batch, pc, cur, queue, signals, sel, alert, api, spent, since>>

BeginScan(p) ==
    /\ pc = "profile" /\ p \in todo
    /\ Open({p}, Symbols) < ProfileCap
    /\ todo' = todo \ {p} /\ cur' = p
    /\ queue' = {s \in SymbolsOf[p] : cool[p][s] = 0}
    /\ queue' # {}
    /\ pc' = "prime"
    /\ UNCHANGED <<dbVars, cool, batch, signals, sel, alert, api, spent, since>>

\* scan_symbols primes the batch; when that fails it drops whatever batch
\* the profile has.
Prime ==
    /\ pc = "prime"
    /\ pc' = "scan"
    /\ \E b \in {Primed(cur, queue), NoBatch} : batch' = [batch EXCEPT ![cur] = b]
    /\ UNCHANGED <<dbVars, cool, loopVars, alert, api, spent, since>>

\* generate_signal, with every filter a free choice except two.  It reads the
\* trend of the entry timeframe twice: without one, the re-entry check is
\* left out and the entry filter fails.  The candle thread may write the
\* trend between the two reads.
ScanSymbol(s) ==
    /\ pc = "scan" /\ s \in queue
    /\ queue' = queue \ {s}
    /\ \E first, second, others \in BOOLEAN :
         LET signal == /\ others
                       /\ first => CanReenter(cur, s)
                       /\ cur \in Bare \/ second
         IN  signals' = IF signal THEN signals \cup {[sym |-> s, checked |-> first]}
                        ELSE signals
    /\ UNCHANGED <<dbVars, cool, batch, pc, todo, cur, sel, alert, api, spent, since>>

EndScan ==
    /\ pc = "scan" /\ queue = {}
    /\ batch' = [batch EXCEPT ![cur] = NoBatch]
    /\ pc' = "act"
    /\ UNCHANGED <<dbVars, cool, loopVars, alert, api, spent, since>>

\* Mutant of CheckSignal: the limits of the group are not looked at.
CheckSignalUngrouped(sig) ==
    /\ pc = "act" /\ sig \in signals
    /\ signals' = signals \ {sig}
    /\ \/ UNCHANGED <<pc, sel>>
       \/ Sizable(cur, sig.sym) /\ sel' = sig /\ pc' = "place"
    /\ UNCHANGED <<dbVars, cool, batch, todo, cur, queue, alert, api, spent, since>>

\* The limits of the risk group are read anew for each signal: at the cap of
\* the symbol the signal is dropped, at the group's all that are left.  Then
\* _execute_signal sizes it, or drops it.
CheckSignal(sig) ==
    /\ pc = "act" /\ sig \in signals
    /\ LET symbolFull == Open(Profiles, {sig.sym}) >= GroupSymbolCap
           groupFull == Open(Profiles, Symbols) >= GroupCap
       IN  \/ /\ ~symbolFull /\ groupFull
              /\ signals' = {}
              /\ UNCHANGED <<pc, sel>>
           \/ /\ symbolFull \/ ~groupFull
              /\ signals' = signals \ {sig}
              /\ UNCHANGED <<pc, sel>>
           \/ /\ ~symbolFull /\ ~groupFull /\ Sizable(cur, sig.sym)
              /\ signals' = signals \ {sig}
              /\ sel' = sig /\ pc' = "place"
    /\ UNCHANGED <<dbVars, cool, batch, todo, cur, queue, alert, api, spent, since>>

EndProfile ==
    /\ pc = "act" /\ signals = {}
    /\ pc' = "profile" /\ cur' = None
    /\ UNCHANGED <<dbVars, cool, batch, todo, queue, signals, sel, alert, api, spent, since>>

\* The order of _execute_signal, and the cooldown that starts if it acted.
PlaceTaker ==
    /\ pc = "place"
    /\ Book(cur, sel.sym, "loop")
    /\ cool' = [cool EXCEPT ![cur][sel.sym] = Cooldown]
    /\ since' = [since EXCEPT ![cur][sel.sym] = 0]
    /\ pc' = "act" /\ sel' = NoSignal
    /\ UNCHANGED <<resting, exit, batch, todo, cur, queue, signals, alert, api>>

PlaceMaker ==
    /\ pc = "place" /\ cur \in MakerProfiles
    /\ ~resting[cur][sel.sym]
    /\ resting' = [resting EXCEPT ![cur][sel.sym] = TRUE]
    /\ cool' = [cool EXCEPT ![cur][sel.sym] = Cooldown]
    /\ pc' = "act" /\ sel' = NoSignal
    /\ UNCHANGED <<held, exit, born, batch, todo, cur, queue, signals, alert, api, spent, since>>

\* The order fails, or the maker entry is refused because one rests already.
PlaceFails ==
    /\ pc = "place"
    /\ pc' = "act" /\ sel' = NoSignal
    /\ UNCHANGED <<dbVars, cool, batch, todo, cur, queue, signals, alert, api, spent, since>>

-----------------------------------------------------------------------------
(* The monitoring thread between two cycles: the ends of resting entries    *)
(* and of positions.                                                        *)

\* A resting entry is booked, as a maker or a taker fill ...
MakerFills(p, s) ==
    /\ pc = "idle" /\ resting[p][s]
    /\ resting' = [resting EXCEPT ![p][s] = FALSE]
    /\ Book(p, s, "other")
    /\ UNCHANGED <<exit, cool, batch, pc, loopVars, alert, api, since>>

\* ... or came to nothing, and its symbol may signal again at once.
MakerDropped(p, s) ==
    /\ pc = "idle" /\ resting[p][s]
    /\ resting' = [resting EXCEPT ![p][s] = FALSE]
    /\ cool' = [cool EXCEPT ![p][s] = 0]
    /\ UNCHANGED <<held, exit, born, batch, pc, loopVars, alert, api, spent, since>>

\* A position is closed.
Leave(h, why) ==
    /\ Spend("closes", MaxCloses)
    /\ held' = held \ {h}
    /\ exit' = [exit EXCEPT ![h.of][h.sym] = [why |-> why, age |-> 0]]

LoopCloses(h, why) ==
    /\ pc = "idle" /\ h \in held
    /\ Leave(h, why)
    /\ cool' = [cool EXCEPT ![h.of][h.sym] = Cooldown]
    /\ UNCHANGED <<resting, born, batch, pc, loopVars, alert, api, since>>

-----------------------------------------------------------------------------
(* The request threads.                                                    *)

\* A position closed by hand starts no signal cooldown.
ManualClose(h) ==
    /\ h \in held
    /\ Leave(h, "MANUAL")
    /\ UNCHANGED <<resting, born, cool, batch, pc, loopVars, alert, api, since>>

\* tradingview_webhook: an alert names profiles, and may carry a size.
Alert(s, P, sized) ==
    /\ alert = NoAlert
    /\ Spend("events", MaxEvents)
    /\ alert' = [sym |-> s, left |-> P, sized |-> sized]
    /\ UNCHANGED <<dbVars, cool, batch, pc, loopVars, api, since>>

\* One profile of it: refused by one of its checks, or by the sizing ...
AlertRefused(p) ==
    /\ alert # NoAlert /\ p \in alert.left
    /\ alert' = [alert EXCEPT !.left = @ \ {p}]
    /\ UNCHANGED <<dbVars, cool, batch, pc, loopVars, api, spent, since>>

\* ... or entered.  The size found for the first profile is written into the
\* alert, so the profiles after it are not sized, nor is the group's limit
\* looked at.
AlertEnters(p) ==
    /\ alert # NoAlert /\ p \in alert.left
    /\ alert.sized \/ Sizable(p, alert.sym)
    /\ alert' = [alert EXCEPT !.left = @ \ {p}, !.sized = TRUE]
    /\ Book(p, alert.sym, "other")
    /\ UNCHANGED <<resting, exit, cool, batch, pc, loopVars, api, since>>

AlertEnds ==
    /\ alert # NoAlert /\ alert.left = {}
    /\ alert' = NoAlert
    /\ UNCHANGED <<dbVars, cool, batch, pc, loopVars, api, spent, since>>

\* A scan asked for through the API covers every active symbol, places
\* nothing, and uses the profile's batch like the loop does.
ApiPrime(p) ==
    /\ api = None
    /\ Spend("events", MaxEvents)
    /\ api' = p
    /\ \E b \in {Primed(p, Symbols), NoBatch} : batch' = [batch EXCEPT ![p] = b]
    /\ UNCHANGED <<dbVars, cool, pc, loopVars, alert, since>>

ApiEndScan ==
    /\ api # None
    /\ batch' = [batch EXCEPT ![api] = NoBatch]
    /\ api' = None
    /\ UNCHANGED <<dbVars, cool, pc, loopVars, alert, spent, since>>

\* test_signal_execution: one signal generated outside a scan, and executed
\* without a cap or a cooldown of its own.
ApiTest(p, s) ==
    /\ CanReenter(p, s)
    /\ Book(p, s, "test")
    /\ UNCHANGED <<resting, exit, cool, batch, pc, loopVars, alert, api, since>>

-----------------------------------------------------------------------------
(* The clock and the process.                                              *)

Less(n) == IF n = 0 THEN 0 ELSE n - 1
More(n, limit) == IF n < limit THEN n + 1 ELSE n
PerPair(Op(_, _)) == [p \in Profiles |-> [s \in Symbols |-> Op(p, s)]]

\* An exit past its cooldown no longer decides anything; ages stop counting
\* where the code no longer tells them apart.
Tick ==
    /\ pc = "idle" /\ alert = NoAlert /\ api = None
    /\ cool' = PerPair(LAMBDA p, s : Less(cool[p][s]))
    /\ since' = PerPair(LAMBDA p, s : More(since[p][s], Cooldown))
    /\ born' = PerPair(LAMBDA p, s : More(born[p][s], RestoreWindow))
    /\ exit' = PerPair(LAMBDA p, s :
                 LET e == [exit[p][s] EXCEPT !.age = @ + 1]
                 IN  IF Cooling(e) THEN e ELSE NoExit)
    /\ UNCHANGED <<held, resting, batch, pc, loopVars, alert, api, spent>>

\* Mutant of Restored: the cooldowns start empty.
RestoredEmpty(p, s) == 0

\* _load_cooldown_cache_from_db: counted from the newest position.
Restored(p, s) ==
    IF born[p][s] < RestoreWindow /\ born[p][s] < Cooldown
    THEN Cooldown - born[p][s] ELSE 0

\* The process dies at any point and is started again.
Restart ==
    /\ Spend("events", MaxEvents)
    /\ cool' = PerPair(Restored)
    /\ batch' = [p \in Profiles |-> NoBatch]
    /\ pc' = "idle" /\ todo' = {} /\ cur' = None
    /\ queue' = {} /\ signals' = {} /\ sel' = NoSignal
    /\ alert' = NoAlert /\ api' = None
    /\ UNCHANGED <<dbVars, since>>

-----------------------------------------------------------------------------
LoopStep ==
    \/ StartCycle \/ EndCycle \/ Prime \/ EndScan \/ EndProfile
    \/ PlaceTaker \/ PlaceMaker \/ PlaceFails
    \/ \E p \in Profiles : SkipProfile(p) \/ BeginScan(p)
    \/ \E s \in Symbols : ScanSymbol(s)
    \/ \E sig \in signals : CheckSignal(sig)
    \/ \E p \in Profiles : \E s \in SymbolsOf[p] : MakerFills(p, s) \/ MakerDropped(p, s)
    \/ \E h \in held, why \in {"STOP_LOSS", "TAKE_PROFIT"} : LoopCloses(h, why)

RequestStep ==
    \/ \E h \in held : ManualClose(h)
    \/ \E s \in Symbols, P \in SUBSET Profiles \ {{}}, sized \in BOOLEAN : Alert(s, P, sized)
    \/ \E p \in Profiles : AlertRefused(p) \/ AlertEnters(p) \/ ApiPrime(p)
    \/ AlertEnds \/ ApiEndScan
    \/ \E p \in Profiles, s \in Symbols : ApiTest(p, s)

Next == LoopStep \/ RequestStep \/ Tick \/ Restart

Spec == Init /\ [][Next]_vars

-----------------------------------------------------------------------------
(* Properties.                                                             *)

Pairs(T) == [Profiles -> [Symbols -> T]]
Exits == [why : Reasons \cup {None}, age : 0 .. SetMax({StopCooldown, ProfitCooldown, DefaultCooldown})]
Positions == [id : 1 .. MaxEntries, of : Profiles, sym : Symbols,
              by : {"loop", "other", "test"}]
Signals == [sym : Symbols, checked : BOOLEAN]
BatchOf == UNION {[S -> Exits] : S \in SUBSET Symbols}

\* The value of every variable.
TypeOK ==
    /\ held \subseteq Positions
    /\ resting \in Pairs(BOOLEAN)
    /\ exit \in Pairs(Exits)
    /\ born \in Pairs(0 .. RestoreWindow)
    /\ cool \in Pairs(0 .. Cooldown) /\ since \in Pairs(0 .. Cooldown)
    /\ batch \in [Profiles -> BatchOf]
    /\ pc \in {"idle", "profile", "prime", "scan", "act", "place"}
    /\ todo \subseteq Profiles /\ cur \in Profiles \cup {None}
    /\ queue \subseteq Symbols /\ signals \subseteq Signals
    /\ sel \in Signals \cup {NoSignal}
    /\ api \in Profiles \cup {None}

\* The entries the loop fills at once never take a risk group over a limit,
\* nor a profile over a cap, whatever alerts, tests, resting orders and
\* closes happen between the check and the order.
ByLoop(P, S) == {h \in OpenOn(P, S) : h.by = "loop"}
GroupHeld ==
    /\ Cardinality(ByLoop(Profiles, Symbols)) <= GroupCap
    /\ \A s \in Symbols : Cardinality(ByLoop(Profiles, {s})) <= GroupSymbolCap
ProfileHeld ==
    \A p \in Profiles :
        /\ Cardinality(ByLoop({p}, Symbols)) <= ProfileCap
        /\ \A s \in Symbols : Cardinality(ByLoop({p}, {s})) <= SymbolCap

CapsHeld == GroupHeld /\ ProfileHeld

\* A signal of the loop whose re-entry check ran never follows an exit from
\* before its cycle within that exit's cooldown: neither the lookback, nor a
\* batch another thread primed or dropped meanwhile, hides the exit.
ReentryRespected ==
    \A sig \in signals :
        sig.checked /\ exit[cur][sig.sym].age > 0 => ~Cooling(exit[cur][sig.sym])

\* The loop opens positions of a pair at least a signal cooldown apart, also
\* when the process restarts between them.  Maker profiles are left out: the
\* end of a resting order clears the stamp whichever entry made it.
Spaced ==
    \A h \in held' \ held :
        h.by = "loop" /\ h.of \notin MakerProfiles => since[h.of][h.sym] = Cooldown
EntriesSpaced == [][Spaced]_vars

\* What a comment of can_reenter promises of callers outside a scan: they are
\* answered as by a query of the exits.
CallersAsBefore ==
    [][\A p \in Profiles, s \in Symbols :
         ApiTest(p, s) => ~(exit[p][s].age > 0 /\ Cooling(exit[p][s]))]_vars

=============================================================================
