------------------------- MODULE SignalLoop_proofs -------------------------
(***************************************************************************)
(* Theorems about SignalLoop, for every value of the constants: any        *)
(* profiles and symbols, caps, cooldowns, entry modes and numbers of       *)
(* entries, closes, requests and restarts.                                 *)
(*                                                                         *)
(* Three invariants, each over the typing: what the loop holds and has     *)
(* room for (CapInv), the stamps of the signal cooldown (StampInv), and    *)
(* the batches of recent exits (BatchInv).                                 *)
(***************************************************************************)
EXTENDS SignalLoop, TLAPS, FiniteSetTheorems

-----------------------------------------------------------------------------
(* The invariants.                                                         *)

\* Where the monitoring thread is, and what it holds there.
Cycle ==
    /\ pc \in {"idle", "profile"} => queue = {} /\ signals = {}
    /\ pc \notin {"idle", "profile"} => cur \in Profiles
    /\ pc = "prime" => signals = {}
    /\ pc \in {"act", "place"} => queue = {}
    /\ pc = "place" => sel \in Signals
    /\ alert # NoAlert => alert.sym \in Symbols
    /\ spent \in [entries : 0 .. MaxEntries, closes : Nat, events : Nat]
    /\ IsFiniteSet(held)

Typed == TypeOK /\ Cycle

\* Room for one more entry of the pair by the loop.
RoomFor(p, s) ==
    /\ Cardinality(ByLoop(Profiles, Symbols)) < GroupCap
    /\ Cardinality(ByLoop(Profiles, {s})) < GroupSymbolCap
    /\ Cardinality(ByLoop({p}, Symbols)) < ProfileCap
    /\ Cardinality(ByLoop({p}, {s})) < SymbolCap

CapInv == CapsHeld /\ (pc = "place" => RoomFor(cur, sel.sym))

\* The symbols the loop may still enter in this scan.
Waiting ==
    queue \cup {sig.sym : sig \in signals} \cup (IF pc = "place" THEN {sel.sym} ELSE {})

\* A symbol waits once.
WaitsOnce ==
    /\ \A sig \in signals : sig.sym \notin queue
    /\ \A a, b \in signals : a.sym = b.sym => a = b
    /\ pc = "place" => \A sig \in signals : sig.sym # sel.sym

\* The stamp covers what is left of the time since the loop's last entry, the
\* newest position is no older than that entry, and what waits had no stamp.
Stamped(p, s) ==
    /\ resting[p][s] => p \in MakerProfiles
    /\ born[p][s] <= since[p][s] \/ since[p][s] = Cooldown
    /\ p \notin MakerProfiles => since[p][s] + cool[p][s] >= Cooldown

Rested ==
    pc \notin {"idle", "profile"} /\ cur \notin MakerProfiles =>
        \A s \in Waiting : since[cur][s] = Cooldown

StampInv ==
    WaitsOnce /\ Rested /\ \A p \in Profiles, s \in Symbols : Stamped(p, s)

\* A batch belongs to a scan that is running and covers what it still scans.
\* What it says of a symbol is right but for an exit since it was primed.
BatchOK(p) ==
    batch[p] # NoBatch =>
        /\ api = p \/ (pc = "scan" /\ cur = p)
        /\ DOMAIN batch[p] = Symbols \/ (pc = "scan" /\ cur = p /\ queue \subseteq DOMAIN batch[p])
        /\ \A s \in DOMAIN batch[p] : batch[p][s] = Recent(p, s) \/ exit[p][s].age = 0

BatchInv == ReentryRespected /\ \A p \in Profiles : BatchOK(p)

-----------------------------------------------------------------------------
(* Typing.                                                                 *)

\* The longest of the three cooldowns.
Longest == SetMax({StopCooldown, ProfitCooldown, DefaultCooldown})

LEMMA LongestTyped ==
    /\ Longest \in Nat
    /\ \A why : CooldownAfter(why) \in Nat /\ CooldownAfter(why) <= Longest
<1> DEFINE S == {StopCooldown, ProfitCooldown, DefaultCooldown}
<1>1. S \subseteq Nat
  BY SignalAssumption
<1>2. \E x \in S : \A y \in S : y <= x
  BY <1>1
<1>3. Longest \in S /\ \A y \in S : y <= Longest
  BY <1>2 DEF Longest, SetMax
<1> QED BY <1>1, <1>3 DEF CooldownAfter

\* An exit that still cools is young enough to be typed, and to be found.
LEMMA CoolingYoung ==
    ASSUME NEW e, e.age \in Nat, Cooling(e)
    PROVE  e.age < Longest
  BY LongestTyped DEF Cooling

LEMMA PairTyped ==
    ASSUME NEW T, NEW f \in Pairs(T), NEW p \in Profiles, NEW s \in Symbols, NEW v \in T
    PROVE  [f EXCEPT ![p][s] = v] \in Pairs(T)
  BY DEF Pairs

LEMMA NoExitTyped == NoExit \in Exits
  BY LongestTyped DEF NoExit, Exits, Longest, None

LEMMA NoBatchTyped == NoBatch \in BatchOf
<1> DEFINE none == {} 
<1>1. NoBatch \in [none -> Exits] /\ none \in SUBSET Symbols
  BY DEF NoBatch
<1> QED BY <1>1 DEF BatchOf

LEMMA PrimedTyped ==
    ASSUME TypeOK, NEW p \in Profiles, NEW S \in SUBSET Symbols
    PROVE  Primed(p, S) \in BatchOf /\ DOMAIN Primed(p, S) = S
<1>1. \A x \in S : Recent(p, x) \in Exits
  BY NoExitTyped DEF TypeOK, Pairs, Recent
<1>2. Primed(p, S) \in [S -> Exits]
  BY <1>1 DEF Primed
<1> QED BY <1>2 DEF BatchOf

LEMMA BookTyped ==
    ASSUME Typed, NEW p \in Profiles, NEW s \in Symbols,
           NEW by \in {"loop", "other", "test"}, Book(p, s, by)
    PROVE  /\ held' \subseteq Positions /\ IsFiniteSet(held')
           /\ born' \in Pairs(0 .. RestoreWindow)
           /\ spent' \in [entries : 0 .. MaxEntries, closes : Nat, events : Nat]
<1>0. MaxEntries \in Nat /\ RestoreWindow \in Nat
  BY SignalAssumption
<1>1. spent.entries \in 0 .. MaxEntries /\ spent.entries < MaxEntries
  BY DEF Typed, Cycle, Book, Spend
<1>2. [id |-> spent.entries + 1, of |-> p, sym |-> s, by |-> by] \in Positions
  BY <1>0, <1>1 DEF Positions
<1>3. held' \subseteq Positions /\ IsFiniteSet(held')
  BY <1>2, FS_AddElement DEF Book, Typed, TypeOK, Cycle
<1>4. born' \in Pairs(0 .. RestoreWindow)
  BY <1>0 DEF Book, Typed, TypeOK, Pairs
<1>5. spent' \in [entries : 0 .. MaxEntries, closes : Nat, events : Nat]
  BY <1>0, <1>1 DEF Book, Spend, Typed, Cycle
<1> QED BY <1>3, <1>4, <1>5

LEMMA SpentTyped ==
    ASSUME Typed, NEW what \in {"closes", "events"}, NEW limit, Spend(what, limit)
    PROVE  spent' \in [entries : 0 .. MaxEntries, closes : Nat, events : Nat]
  BY SignalAssumption DEF Spend, Typed, Cycle

LEMMA LeaveTyped ==
    ASSUME Typed, NEW h \in held, NEW why \in Reasons, Leave(h, why)
    PROVE  /\ held' \subseteq held /\ IsFiniteSet(held')
           /\ h.of \in Profiles /\ h.sym \in Symbols
           /\ exit' \in Pairs(Exits)
           /\ \A p \in Profiles, s \in Symbols :
                 exit'[p][s] = exit[p][s] \/ exit'[p][s].age = 0
           /\ spent' \in [entries : 0 .. MaxEntries, closes : Nat, events : Nat]
<1>1. h.of \in Profiles /\ h.sym \in Symbols
  BY DEF Typed, TypeOK, Positions
<1>2. held' \subseteq held /\ IsFiniteSet(held')
  BY FS_Subset DEF Leave, Typed, Cycle
<1> DEFINE e == [why |-> why, age |-> 0]
<1>3. e \in Exits
  BY LongestTyped DEF Exits, Longest
<1>4. exit' = [exit EXCEPT ![h.of][h.sym] = e] /\ e.age = 0
  BY DEF Leave
<1> HIDE DEF e
<1>5. /\ exit' \in Pairs(Exits)
      /\ \A p \in Profiles, s \in Symbols : exit'[p][s] = exit[p][s] \/ exit'[p][s].age = 0
  BY <1>1, <1>3, <1>4 DEF Typed, TypeOK, Pairs
<1> QED BY <1>1, <1>2, <1>5, SpentTyped DEF Leave

LEMMA TypedInit == Init => Typed
<1> SUFFICES ASSUME Init PROVE Typed
  OBVIOUS
<1>1. /\ RestoreWindow \in Nat /\ Cooldown \in Nat /\ MaxEntries \in Nat
      /\ MaxCloses \in Nat /\ MaxEvents \in Nat
  BY SignalAssumption
<1>2. TypeOK
  BY <1>1, NoExitTyped, NoBatchTyped DEF Init, TypeOK, Pairs, NoSignal, None
<1>3. Cycle
  BY <1>1, FS_EmptySet DEF Init, Cycle
<1> QED BY <1>2, <1>3 DEF Typed

LEMMA TypedStep == ASSUME Typed PROVE [Next]_vars => Typed'
<1> USE DEF Typed
<1>0. TypeOK /\ Cycle /\ RestoreWindow \in Nat /\ Cooldown \in Nat
  BY SignalAssumption
<1>1. CASE StartCycle
  <2>1. TypeOK'
    BY <1>0, <1>1, SignalAssumption DEF StartCycle, TypeOK, Cycle, dbVars, loopVars, vars, NoSignal, None
  <2>2. Cycle'
    BY <1>0, <1>1 DEF StartCycle, TypeOK, Cycle, dbVars, loopVars, vars, NoAlert
  <2> QED BY <2>1, <2>2
<1>2. CASE EndCycle
  <2>1. TypeOK'
    BY <1>0, <1>2, SignalAssumption DEF EndCycle, TypeOK, Cycle, dbVars, loopVars, vars, NoSignal, None
  <2>2. Cycle'
    BY <1>0, <1>2 DEF EndCycle, TypeOK, Cycle, dbVars, loopVars, vars, NoAlert
  <2> QED BY <2>1, <2>2
<1>3. CASE Prime
  <2>1. Primed(cur, queue) \in BatchOf /\ cur \in Profiles
    BY <1>0, <1>3, PrimedTyped DEF Prime, TypeOK, Cycle
  <2>2. batch' \in [Profiles -> BatchOf]
    BY <1>0, <1>3, <2>1, NoBatchTyped DEF Prime, TypeOK
  <2> QED BY <1>0, <1>3, <2>2 DEF Prime, TypeOK, Cycle, dbVars, loopVars
<1>4. CASE EndScan
  <2>1. TypeOK'
    BY <1>0, <1>4, SignalAssumption, NoBatchTyped DEF EndScan, TypeOK, Cycle, dbVars, loopVars, vars, NoSignal, None
  <2>2. Cycle'
    BY <1>0, <1>4, NoBatchTyped DEF EndScan, TypeOK, Cycle, dbVars, loopVars, vars, NoAlert
  <2> QED BY <2>1, <2>2
<1>5. CASE EndProfile
  <2>1. TypeOK'
    BY <1>0, <1>5, SignalAssumption DEF EndProfile, TypeOK, Cycle, dbVars, loopVars, vars, NoSignal, None
  <2>2. Cycle'
    BY <1>0, <1>5 DEF EndProfile, TypeOK, Cycle, dbVars, loopVars, vars, NoAlert
  <2> QED BY <2>1, <2>2
<1>6. CASE PlaceTaker
  <2>1. Book(cur, sel.sym, "loop") /\ cur \in Profiles /\ sel.sym \in Symbols
    BY <1>0, <1>6, SignalAssumption DEF PlaceTaker, Cycle, Signals
  <2>2. /\ held' \subseteq Positions /\ IsFiniteSet(held')
        /\ born' \in Pairs(0 .. RestoreWindow)
        /\ spent' \in [entries : 0 .. MaxEntries, closes : Nat, events : Nat]
    BY <2>1, BookTyped
  <2>3. TypeOK'
    <3>1. cool' \in Pairs(0 .. Cooldown) /\ since' \in Pairs(0 .. Cooldown)
      <4>1. /\ cool \in Pairs(0 .. Cooldown) /\ Cooldown \in 0 .. Cooldown
            /\ since \in Pairs(0 .. Cooldown) /\ 0 \in 0 .. Cooldown
        BY <1>0 DEF TypeOK
      <4>2. [cool EXCEPT ![cur][sel.sym] = Cooldown] \in Pairs(0 .. Cooldown)
        BY <2>1, <4>1, PairTyped
      <4>3. [since EXCEPT ![cur][sel.sym] = 0] \in Pairs(0 .. Cooldown)
        BY <2>1, <4>1, PairTyped
      <4> QED BY <1>6, <4>2, <4>3 DEF PlaceTaker
    <3> QED BY <1>0, <1>6, <2>2, <3>1 DEF PlaceTaker, TypeOK
  <2>4. Cycle'
    BY <1>0, <1>6, <2>1, <2>2 DEF PlaceTaker, Cycle, loopVars, dbVars, NoAlert
  <2> QED BY <2>3, <2>4
<1>7. CASE PlaceMaker
  <2>1. TypeOK'
    BY <1>0, <1>7, SignalAssumption DEF PlaceMaker, TypeOK, Cycle, dbVars, loopVars, vars, NoSignal, None, Pairs, Signals
  <2>2. Cycle'
    BY <1>0, <1>7 DEF PlaceMaker, TypeOK, Cycle, dbVars, loopVars, vars, NoAlert, Pairs, Signals
  <2> QED BY <2>1, <2>2
<1>8. CASE PlaceFails
  <2>1. TypeOK'
    BY <1>0, <1>8, SignalAssumption DEF PlaceFails, TypeOK, Cycle, dbVars, loopVars, vars, NoSignal, None, Signals
  <2>2. Cycle'
    BY <1>0, <1>8 DEF PlaceFails, TypeOK, Cycle, dbVars, loopVars, vars, NoAlert, Signals
  <2> QED BY <2>1, <2>2
<1>9. ASSUME NEW p \in Profiles, SkipProfile(p) PROVE Typed'
  <2>1. TypeOK'
    BY <1>0, <1>9, SignalAssumption DEF SkipProfile, TypeOK, Cycle, dbVars, loopVars, vars, NoSignal, None
  <2>2. Cycle'
    BY <1>0, <1>9 DEF SkipProfile, TypeOK, Cycle, dbVars, loopVars, vars, NoAlert
  <2> QED BY <2>1, <2>2
<1>10. ASSUME NEW p \in Profiles, BeginScan(p) PROVE Typed'
  <2>1. TypeOK'
    BY <1>0, <1>10, SignalAssumption DEF BeginScan, TypeOK, Cycle, dbVars, loopVars, vars, NoSignal, None
  <2>2. Cycle'
    BY <1>0, <1>10 DEF BeginScan, TypeOK, Cycle, dbVars, loopVars, vars, NoAlert
  <2> QED BY <2>1, <2>2
<1>11. ASSUME NEW s \in Symbols, ScanSymbol(s) PROVE Typed'
  <2>1. TypeOK'
    BY <1>0, <1>11, SignalAssumption DEF ScanSymbol, TypeOK, Cycle, dbVars, loopVars, vars, NoSignal, None, Signals
  <2>2. Cycle'
    BY <1>0, <1>11 DEF ScanSymbol, TypeOK, Cycle, dbVars, loopVars, vars, NoAlert, Signals
  <2> QED BY <2>1, <2>2
<1>12. ASSUME NEW sig \in signals, CheckSignal(sig) PROVE Typed'
  <2>1. TypeOK'
    BY <1>0, <1>12, SignalAssumption DEF CheckSignal, TypeOK, Cycle, dbVars, loopVars, vars, NoSignal, None, Signals
  <2>2. Cycle'
    BY <1>0, <1>12 DEF CheckSignal, TypeOK, Cycle, dbVars, loopVars, vars, NoAlert, Signals
  <2> QED BY <2>1, <2>2
<1>13. ASSUME NEW p \in Profiles, NEW s \in SymbolsOf[p], MakerFills(p, s) PROVE Typed'
  <2>1. Book(p, s, "other") /\ p \in Profiles /\ s \in Symbols
    BY <1>0, <1>13, SignalAssumption DEF MakerFills, Cycle, Signals
  <2>2. /\ held' \subseteq Positions /\ IsFiniteSet(held')
        /\ born' \in Pairs(0 .. RestoreWindow)
        /\ spent' \in [entries : 0 .. MaxEntries, closes : Nat, events : Nat]
    BY <2>1, BookTyped
  <2>3. TypeOK'
    BY <1>0, <1>13, <2>1, <2>2 DEF MakerFills, TypeOK, Pairs, loopVars, dbVars, NoSignal
  <2>4. Cycle'
    BY <1>0, <1>13, <2>1, <2>2 DEF MakerFills, Cycle, loopVars, dbVars, NoAlert
  <2> QED BY <2>3, <2>4
<1>14. ASSUME NEW p \in Profiles, NEW s \in SymbolsOf[p], MakerDropped(p, s) PROVE Typed'
  <2>1. TypeOK'
    <3>1. cool' \in Pairs(0 .. Cooldown) /\ resting' \in Pairs(BOOLEAN)
      <4>1. /\ cool \in Pairs(0 .. Cooldown) /\ 0 \in 0 .. Cooldown /\ s \in Symbols
            /\ resting \in Pairs(BOOLEAN)
        BY <1>0, SignalAssumption DEF TypeOK
      <4>2. [cool EXCEPT ![p][s] = 0] \in Pairs(0 .. Cooldown)
        BY <4>1, PairTyped
      <4>3. [resting EXCEPT ![p][s] = FALSE] \in Pairs(BOOLEAN)
        BY <4>1, PairTyped
      <4> QED BY <1>14, <4>2, <4>3 DEF MakerDropped
    <3> QED BY <1>0, <1>14, <3>1 DEF MakerDropped, TypeOK, loopVars
  <2>2. Cycle'
    BY <1>0, <1>14 DEF MakerDropped, TypeOK, Cycle, dbVars, loopVars, vars, NoAlert, Pairs
  <2> QED BY <2>1, <2>2
<1>15. ASSUME NEW h \in held, NEW why \in {"STOP_LOSS", "TAKE_PROFIT"}, LoopCloses(h, why) PROVE Typed'
  <2>1. Leave(h, why)
    BY <1>15 DEF LoopCloses
  <2>2. /\ held' \subseteq held /\ IsFiniteSet(held') /\ exit' \in Pairs(Exits)
        /\ h.of \in Profiles /\ h.sym \in Symbols
        /\ spent' \in [entries : 0 .. MaxEntries, closes : Nat, events : Nat]
    BY <1>15, <2>1, LeaveTyped DEF Reasons
  <2>3. TypeOK'
    <3>1. cool' \in Pairs(0 .. Cooldown)
      <4>1. cool \in Pairs(0 .. Cooldown) /\ Cooldown \in 0 .. Cooldown
        BY <1>0 DEF TypeOK
      <4>2. [cool EXCEPT ![h.of][h.sym] = Cooldown] \in Pairs(0 .. Cooldown)
        BY <2>2, <4>1, PairTyped
      <4> QED BY <1>15, <4>2 DEF LoopCloses
    <3> QED BY <1>0, <1>15, <2>2, <3>1 DEF LoopCloses, TypeOK, loopVars
  <2>4. Cycle'
    BY <1>0, <1>15, <2>2 DEF LoopCloses, Cycle, loopVars
  <2> QED BY <2>3, <2>4
<1>16. ASSUME NEW h \in held, ManualClose(h) PROVE Typed'
  <2>1. Leave(h, "MANUAL")
    BY <1>16 DEF ManualClose
  <2>2. /\ held' \subseteq held /\ IsFiniteSet(held') /\ exit' \in Pairs(Exits)
        /\ h.of \in Profiles /\ h.sym \in Symbols
        /\ spent' \in [entries : 0 .. MaxEntries, closes : Nat, events : Nat]
    BY <1>16, <2>1, LeaveTyped DEF Reasons
  <2>3. TypeOK'
    BY <1>0, <1>16, <2>2 DEF ManualClose, TypeOK, Pairs, loopVars
  <2>4. Cycle'
    BY <1>0, <1>16, <2>2 DEF ManualClose, Cycle, loopVars
  <2> QED BY <2>3, <2>4
<1>17. ASSUME NEW s \in Symbols, NEW P \in SUBSET Profiles \ {{}}, NEW sized \in BOOLEAN,
             Alert(s, P, sized)
      PROVE Typed'
  <2>1. TypeOK'
    BY <1>0, <1>17, SignalAssumption, SpentTyped DEF Alert, TypeOK, Cycle, dbVars, loopVars, vars, NoSignal, None
  <2>2. Cycle'
    BY <1>0, <1>17, SpentTyped DEF Alert, TypeOK, Cycle, dbVars, loopVars, vars, NoAlert
  <2> QED BY <2>1, <2>2
<1>18. ASSUME NEW p \in Profiles, AlertRefused(p) PROVE Typed'
  <2>1. TypeOK'
    BY <1>0, <1>18, SignalAssumption DEF AlertRefused, TypeOK, Cycle, dbVars, loopVars, vars, NoSignal, None
  <2>2. Cycle'
    BY <1>0, <1>18 DEF AlertRefused, TypeOK, Cycle, dbVars, loopVars, vars, NoAlert
  <2> QED BY <2>1, <2>2
<1>19. ASSUME NEW p \in Profiles, AlertEnters(p) PROVE Typed'
  <2>1. Book(p, alert.sym, "other") /\ p \in Profiles /\ alert.sym \in Symbols
    BY <1>0, <1>19, SignalAssumption DEF AlertEnters, Cycle, Signals
  <2>2. /\ held' \subseteq Positions /\ IsFiniteSet(held')
        /\ born' \in Pairs(0 .. RestoreWindow)
        /\ spent' \in [entries : 0 .. MaxEntries, closes : Nat, events : Nat]
    BY <2>1, BookTyped
  <2>3. TypeOK'
    BY <1>0, <1>19, <2>1, <2>2 DEF AlertEnters, TypeOK, Pairs, loopVars, dbVars, NoSignal
  <2>4. Cycle'
    BY <1>0, <1>19, <2>1, <2>2 DEF AlertEnters, Cycle, loopVars, dbVars, NoAlert
  <2> QED BY <2>3, <2>4
<1>20. ASSUME NEW p \in Profiles, ApiPrime(p) PROVE Typed'
  <2>1. Primed(p, Symbols) \in BatchOf /\ p \in Profiles
    BY <1>0, <1>20, PrimedTyped DEF ApiPrime, TypeOK, Cycle
  <2>2. batch' \in [Profiles -> BatchOf]
    BY <1>0, <1>20, <2>1, NoBatchTyped DEF ApiPrime, TypeOK
  <2> QED BY <1>0, <1>20, <2>2, SpentTyped DEF ApiPrime, TypeOK, Cycle, dbVars, loopVars
<1>21. CASE AlertEnds
  <2>1. TypeOK'
    BY <1>0, <1>21, SignalAssumption DEF AlertEnds, TypeOK, Cycle, dbVars, loopVars, vars, NoSignal, None
  <2>2. Cycle'
    BY <1>0, <1>21 DEF AlertEnds, TypeOK, Cycle, dbVars, loopVars, vars, NoAlert
  <2> QED BY <2>1, <2>2
<1>22. CASE ApiEndScan
  <2>1. TypeOK'
    BY <1>0, <1>22, SignalAssumption, NoBatchTyped DEF ApiEndScan, TypeOK, Cycle, dbVars, loopVars, vars, NoSignal, None
  <2>2. Cycle'
    BY <1>0, <1>22, NoBatchTyped DEF ApiEndScan, TypeOK, Cycle, dbVars, loopVars, vars, NoAlert
  <2> QED BY <2>1, <2>2
<1>23. ASSUME NEW p \in Profiles, NEW s \in Symbols, ApiTest(p, s) PROVE Typed'
  <2>1. Book(p, s, "test") /\ p \in Profiles /\ s \in Symbols
    BY <1>0, <1>23, SignalAssumption DEF ApiTest, Cycle, Signals
  <2>2. /\ held' \subseteq Positions /\ IsFiniteSet(held')
        /\ born' \in Pairs(0 .. RestoreWindow)
        /\ spent' \in [entries : 0 .. MaxEntries, closes : Nat, events : Nat]
    BY <2>1, BookTyped
  <2>3. TypeOK'
    BY <1>0, <1>23, <2>1, <2>2 DEF ApiTest, TypeOK, Pairs, loopVars, dbVars, NoSignal
  <2>4. Cycle'
    BY <1>0, <1>23, <2>1, <2>2 DEF ApiTest, Cycle, loopVars, dbVars, NoAlert
  <2> QED BY <2>3, <2>4
<1>24. CASE Tick
  <2>1. exit' \in Pairs(Exits)
    <3>1. ASSUME NEW p \in Profiles, NEW s \in Symbols PROVE exit'[p][s] \in Exits
      <4> DEFINE e == [exit[p][s] EXCEPT !.age = @ + 1]
      <4>1. exit'[p][s] = IF Cooling(e) THEN e ELSE NoExit
        BY <1>24 DEF Tick, PerPair
      <4>2. exit[p][s] \in Exits /\ Longest \in Nat
        BY <1>0, LongestTyped DEF TypeOK, Pairs
      <4>3. e.age \in Nat /\ e.why \in Reasons \cup {None} /\ DOMAIN e = {"why", "age"}
        BY <4>2 DEF Exits, Longest
      <4>4. Cooling(e) => e \in Exits
        <5>1. e = [why |-> exit[p][s].why, age |-> exit[p][s].age + 1]
          BY <4>2 DEF Exits
        <5>2. Cooling(e) => e.age < Longest
          BY <4>3, CoolingYoung
        <5>3. Cooling(e) => e.age \in 0 .. Longest
          BY <4>2, <4>3, <5>2
        <5> QED BY <4>3, <5>1, <5>3 DEF Exits, Longest
      <4> QED BY <4>1, <4>4, NoExitTyped
    <3> QED BY <1>24, <3>1 DEF Tick, PerPair, Pairs
  <2>2. cool' \in Pairs(0 .. Cooldown)
    <3>1. \A n \in 0 .. Cooldown : Less(n) \in 0 .. Cooldown
      BY <1>0 DEF Less
    <3>2. \A p \in Profiles, s \in Symbols : cool[p][s] \in 0 .. Cooldown
      BY <1>0 DEF TypeOK, Pairs
    <3> QED BY <1>24, <3>1, <3>2 DEF Tick, PerPair, Pairs
  <2>3. since' \in Pairs(0 .. Cooldown)
    BY <1>0, <1>24 DEF Tick, PerPair, Pairs, TypeOK, More
  <2>4. born' \in Pairs(0 .. RestoreWindow)
    BY <1>0, <1>24 DEF Tick, PerPair, Pairs, TypeOK, More
  <2> QED BY <1>0, <1>24, <2>1, <2>2, <2>3, <2>4 DEF Tick, TypeOK, Cycle, loopVars
<1>25. CASE Restart
  <2>1. cool' \in Pairs(0 .. Cooldown)
    BY <1>0, <1>25 DEF Restart, PerPair, Pairs, TypeOK, Restored
  <2>2. spent' \in [entries : 0 .. MaxEntries, closes : Nat, events : Nat]
    BY <1>25, SpentTyped DEF Restart
  <2>3. TypeOK'
    BY <1>0, <1>25, <2>1, NoBatchTyped DEF Restart, TypeOK, dbVars
  <2> QED BY <1>0, <1>25, <2>2, <2>3 DEF Restart, Cycle, dbVars
<1>26. CASE UNCHANGED vars
  <2>1. TypeOK'
    BY <1>0, <1>26, SignalAssumption DEF TypeOK, Cycle, dbVars, loopVars, vars, NoSignal, None
  <2>2. Cycle'
    BY <1>0, <1>26 DEF TypeOK, Cycle, dbVars, loopVars, vars, NoAlert
  <2> QED BY <2>1, <2>2
<1> QED
  BY <1>1, <1>2, <1>3, <1>4, <1>5, <1>6, <1>7, <1>8, <1>9, <1>10, <1>11, <1>12, <1>13, <1>14, <1>15, <1>16, <1>17, <1>18, <1>19, <1>20, <1>21, <1>22, <1>23, <1>24, <1>25, <1>26
  DEF Next, LoopStep, RequestStep

-----------------------------------------------------------------------------
(* The limits.                                                             *)

LEMMA LoopsCounted ==
    ASSUME Typed, NEW P, NEW S
    PROVE  /\ Cardinality(ByLoop(P, S)) \in Nat /\ IsFiniteSet(ByLoop(P, S))
           /\ Cardinality(ByLoop(P, S)) <= Open(P, S)
<1>1. IsFiniteSet(OpenOn(P, S))
  BY FS_Subset DEF OpenOn, Typed, Cycle
<1>2. ByLoop(P, S) \subseteq OpenOn(P, S)
  BY DEF ByLoop
<1> QED BY <1>1, <1>2, FS_Subset, FS_CardinalityType DEF Open

\* Who the loop has not opened does not count.
LEMMA NoMore ==
    ASSUME Typed, \A h \in held' : h \in held \/ h.by # "loop", NEW P, NEW S
    PROVE  /\ Cardinality(ByLoop(P, S)') <= Cardinality(ByLoop(P, S))
           /\ Cardinality(ByLoop(P, S)') \in Nat /\ Cardinality(ByLoop(P, S)) \in Nat
<1>1. ByLoop(P, S)' \subseteq ByLoop(P, S)
  BY DEF ByLoop, OpenOn
<1>2. IsFiniteSet(ByLoop(P, S))
  BY LoopsCounted
<1> QED BY <1>1, <1>2, FS_Subset, FS_CardinalityType

\* The loop opens one, and only where it is counted.
LEMMA OneMore ==
    ASSUME Typed, NEW h, held' = held \cup {h}, NEW P, NEW S
    PROVE  /\ Cardinality(ByLoop(P, S)') <= Cardinality(ByLoop(P, S)) + 1
           /\ h.of \notin P \/ h.sym \notin S =>
                  Cardinality(ByLoop(P, S)') <= Cardinality(ByLoop(P, S))
           /\ Cardinality(ByLoop(P, S)') \in Nat /\ Cardinality(ByLoop(P, S)) \in Nat
<1> DEFINE B == ByLoop(P, S)
           C == ByLoop(P, S)'
<1>1. C \subseteq B \cup {h}
  BY DEF ByLoop, OpenOn
<1>2. h.of \notin P \/ h.sym \notin S => C \subseteq B
  BY DEF ByLoop, OpenOn
<1>3. IsFiniteSet(B) /\ Cardinality(B) \in Nat
  BY LoopsCounted
<1> HIDE DEF B, C
<1>4. /\ IsFiniteSet(B \cup {h})
      /\ Cardinality(B \cup {h}) = Cardinality(B) \/ Cardinality(B \cup {h}) = Cardinality(B) + 1
  BY <1>3, FS_AddElement
<1>5. IsFiniteSet(C) /\ Cardinality(C) <= Cardinality(B \cup {h}) /\ Cardinality(C) \in Nat
  BY <1>1, <1>4, FS_Subset, FS_CardinalityType
<1>6. Cardinality(C) <= Cardinality(B) + 1
  BY <1>3, <1>4, <1>5
<1>7. C \subseteq B => Cardinality(C) <= Cardinality(B)
  BY <1>3, FS_Subset
<1> QED BY <1>2, <1>3, <1>5, <1>6, <1>7 DEF B, C

LEMMA CapsTyped == {GroupCap, GroupSymbolCap, ProfileCap, SymbolCap} \subseteq Nat \ {0}
  BY SignalAssumption

\* Nothing of the loop's is added, and the check made for an order still holds.
LEMMA CapKept ==
    ASSUME Typed, CapInv, \A h \in held' : h \in held \/ h.by # "loop",
           pc' = "place" => pc = "place" /\ cur' = cur /\ sel' = sel
    PROVE  CapInv'
<1> USE CapsTyped
<1>1. CapsHeld'
  <2>1. \A P, S : /\ Cardinality(ByLoop(P, S)') <= Cardinality(ByLoop(P, S))
                  /\ Cardinality(ByLoop(P, S)') \in Nat /\ Cardinality(ByLoop(P, S)) \in Nat
    BY NoMore
  <2>2. GroupHeld /\ ProfileHeld
    BY DEF CapInv, CapsHeld
  <2>3. GroupHeld'
    <3>1. (Cardinality(ByLoop(Profiles, Symbols)) <= GroupCap)'
      BY <2>1, <2>2 DEF GroupHeld
    <3>2. ASSUME NEW s \in Symbols
          PROVE  (Cardinality(ByLoop(Profiles, {s})) <= GroupSymbolCap)'
      BY <2>1, <2>2 DEF GroupHeld
    <3> QED BY <3>1, <3>2 DEF GroupHeld
  <2>4. ASSUME NEW p \in Profiles
        PROVE  (Cardinality(ByLoop({p}, Symbols)) <= ProfileCap)'
    <3>1. Cardinality(ByLoop({p}, Symbols)) <= ProfileCap
      BY <2>2 DEF ProfileHeld
    <3> QED BY <2>1, <3>1
  <2>5. ASSUME NEW p \in Profiles, NEW s \in Symbols
        PROVE  (Cardinality(ByLoop({p}, {s})) <= SymbolCap)'
    <3>1. Cardinality(ByLoop({p}, {s})) <= SymbolCap
      BY <2>2 DEF ProfileHeld
    <3> QED BY <2>1, <3>1
  <2> QED BY <2>3, <2>4, <2>5 DEF CapsHeld, ProfileHeld
<1>2. ASSUME pc' = "place" PROVE RoomFor(cur, sel.sym)'
  BY <1>2, NoMore DEF CapInv, RoomFor
<1> QED BY <1>1, <1>2 DEF CapInv

LEMMA CapInit == Init => CapInv
<1> SUFFICES ASSUME Init PROVE CapInv
  OBVIOUS
<1>1. \A P, S : ByLoop(P, S) = {}
  BY DEF Init, ByLoop, OpenOn
<1>2. \A P, S : Cardinality(ByLoop(P, S)) = 0
  BY <1>1, FS_EmptySet
<1>3. 0 <= GroupCap /\ 0 <= GroupSymbolCap /\ 0 <= ProfileCap /\ 0 <= SymbolCap
  BY CapsTyped
<1> QED BY <1>2, <1>3 DEF Init, CapInv, CapsHeld, GroupHeld, ProfileHeld

LEMMA CapStep == ASSUME Typed, CapInv PROVE [Next]_vars => CapInv'
<1>1. CASE StartCycle
  BY <1>1, CapKept DEF StartCycle, dbVars, loopVars, vars
<1>2. CASE EndCycle
  BY <1>2, CapKept DEF EndCycle, dbVars, loopVars, vars
<1>3. CASE Prime
  BY <1>3, CapKept DEF Prime, dbVars, loopVars, vars
<1>4. CASE EndScan
  BY <1>4, CapKept DEF EndScan, dbVars, loopVars, vars
<1>5. CASE EndProfile
  BY <1>5, CapKept DEF EndProfile, dbVars, loopVars, vars
<1>6. CASE PlaceTaker
  <2> DEFINE h == [id |-> spent.entries + 1, of |-> cur, sym |-> sel.sym, by |-> "loop"]
  <2>1. held' = held \cup {h} /\ h.of = cur /\ h.sym = sel.sym
    BY <1>6 DEF PlaceTaker, Book
  <2>2. RoomFor(cur, sel.sym) /\ CapsHeld /\ pc' = "act"
    BY <1>6 DEF PlaceTaker, CapInv
  <2> HIDE DEF h
  <2>3. GroupHeld'
    <3>1. (Cardinality(ByLoop(Profiles, Symbols)) <= GroupCap)'
      BY <2>1, <2>2, OneMore, CapsTyped DEF RoomFor
    <3>2. ASSUME NEW s \in Symbols
          PROVE  (Cardinality(ByLoop(Profiles, {s})) <= GroupSymbolCap)'
      <4>1. CASE s = sel.sym
        BY <2>1, <2>2, <4>1, OneMore, CapsTyped DEF RoomFor
      <4>2. CASE s # sel.sym
        BY <2>1, <2>2, <4>2, OneMore, CapsTyped DEF CapsHeld, GroupHeld
      <4> QED BY <4>1, <4>2
    <3> QED BY <3>1, <3>2 DEF GroupHeld
  <2>4. ASSUME NEW p \in Profiles
        PROVE  /\ (Cardinality(ByLoop({p}, Symbols)) <= ProfileCap)'
               /\ \A s \in Symbols : (Cardinality(ByLoop({p}, {s})) <= SymbolCap)'
    <3>1. (Cardinality(ByLoop({p}, Symbols)) <= ProfileCap)'
      <4>1. CASE p = cur
        BY <2>1, <2>2, <4>1, OneMore, CapsTyped DEF RoomFor
      <4>2. CASE p # cur
        <5>1. Cardinality(ByLoop({p}, Symbols)) <= ProfileCap
          BY <2>2 DEF CapsHeld, ProfileHeld
        <5> QED BY <2>1, <4>2, <5>1, OneMore, CapsTyped
      <4> QED BY <4>1, <4>2
    <3>2. ASSUME NEW s \in Symbols PROVE (Cardinality(ByLoop({p}, {s})) <= SymbolCap)'
      <4>1. CASE p = cur /\ s = sel.sym
        BY <2>1, <2>2, <4>1, OneMore, CapsTyped DEF RoomFor
      <4>2. CASE ~(p = cur /\ s = sel.sym)
        <5>1. Cardinality(ByLoop({p}, {s})) <= SymbolCap
          BY <2>2 DEF CapsHeld, ProfileHeld
        <5> QED BY <2>1, <4>2, <5>1, OneMore, CapsTyped
      <4> QED BY <4>1, <4>2
    <3> QED BY <3>1, <3>2
  <2> QED BY <2>2, <2>3, <2>4 DEF CapInv, CapsHeld, ProfileHeld
<1>7. CASE PlaceMaker
  BY <1>7, CapKept DEF PlaceMaker, dbVars, loopVars, vars
<1>8. CASE PlaceFails
  BY <1>8, CapKept DEF PlaceFails, dbVars, loopVars, vars
<1>9. ASSUME NEW p \in Profiles, SkipProfile(p) PROVE CapInv'
  BY <1>9, CapKept DEF SkipProfile, dbVars, loopVars, vars
<1>10. ASSUME NEW p \in Profiles, BeginScan(p) PROVE CapInv'
  BY <1>10, CapKept DEF BeginScan, dbVars, loopVars, vars
<1>11. ASSUME NEW s \in Symbols, ScanSymbol(s) PROVE CapInv'
  BY <1>11, CapKept DEF ScanSymbol, dbVars, loopVars, vars
<1>12. ASSUME NEW sig \in signals, CheckSignal(sig) PROVE CapInv'
  <2>1. CASE pc' # "place"
    BY <1>12, <2>1, CapKept DEF CheckSignal, dbVars
  <2>2. CASE pc' = "place"
    <3>1. /\ Open(Profiles, {sig.sym}) < GroupSymbolCap /\ Open(Profiles, Symbols) < GroupCap
          /\ Open({cur}, {sig.sym}) < SymbolCap /\ Open({cur}, Symbols) < ProfileCap
          /\ sel' = sig
      <4>1. \A P, S : Open(P, S) \in Nat
        BY FS_Subset, FS_CardinalityType DEF Open, OpenOn, Typed, Cycle
      <4> QED BY <1>12, <2>2, <4>1, CapsTyped DEF CheckSignal, Sizable
    <3>2. UNCHANGED <<held, cur>>
      BY <1>12 DEF CheckSignal, dbVars
    <3>3. RoomFor(cur, sig.sym)
      <4>1. \A P, S : /\ Cardinality(ByLoop(P, S)) <= Open(P, S)
                      /\ Cardinality(ByLoop(P, S)) \in Nat /\ Open(P, S) \in Nat
        BY LoopsCounted, FS_Subset, FS_CardinalityType DEF Open, OpenOn, Typed, Cycle
      <4> QED BY <3>1, <4>1, CapsTyped DEF RoomFor
    <3> QED BY <3>1, <3>2, <3>3 DEF CapInv, CapsHeld, GroupHeld, ProfileHeld, RoomFor, ByLoop, OpenOn
  <2> QED BY <2>1, <2>2
<1>13. ASSUME NEW p \in Profiles, NEW s \in SymbolsOf[p], MakerFills(p, s) PROVE CapInv'
  <2>1. \A h \in held' : h \in held \/ h.by # "loop"
    BY <1>13 DEF MakerFills, Book
  <2> QED BY <1>13, <2>1, CapKept DEF MakerFills, loopVars
<1>14. ASSUME NEW p \in Profiles, NEW s \in SymbolsOf[p], MakerDropped(p, s) PROVE CapInv'
  BY <1>14, CapKept DEF MakerDropped, dbVars, loopVars, vars
<1>15. ASSUME NEW h \in held, NEW why \in {"STOP_LOSS", "TAKE_PROFIT"}, LoopCloses(h, why) PROVE CapInv'
  BY <1>15, CapKept DEF LoopCloses, Leave, loopVars
<1>16. ASSUME NEW h \in held, ManualClose(h) PROVE CapInv'
  BY <1>16, CapKept DEF ManualClose, Leave, loopVars
<1>17. ASSUME NEW s \in Symbols, NEW P \in SUBSET Profiles \ {{}}, NEW sized \in BOOLEAN,
             Alert(s, P, sized)
      PROVE CapInv'
  BY <1>17, CapKept DEF Alert, dbVars, loopVars, vars
<1>18. ASSUME NEW p \in Profiles, AlertRefused(p) PROVE CapInv'
  BY <1>18, CapKept DEF AlertRefused, dbVars, loopVars, vars
<1>19. ASSUME NEW p \in Profiles, AlertEnters(p) PROVE CapInv'
  <2>1. \A h \in held' : h \in held \/ h.by # "loop"
    BY <1>19 DEF AlertEnters, Book
  <2> QED BY <1>19, <2>1, CapKept DEF AlertEnters, loopVars
<1>20. ASSUME NEW p \in Profiles, ApiPrime(p) PROVE CapInv'
  BY <1>20, CapKept DEF ApiPrime, dbVars, loopVars, vars
<1>21. CASE AlertEnds
  BY <1>21, CapKept DEF AlertEnds, dbVars, loopVars, vars
<1>22. CASE ApiEndScan
  BY <1>22, CapKept DEF ApiEndScan, dbVars, loopVars, vars
<1>23. ASSUME NEW p \in Profiles, NEW s \in Symbols, ApiTest(p, s) PROVE CapInv'
  <2>1. \A h \in held' : h \in held \/ h.by # "loop"
    BY <1>23 DEF ApiTest, Book
  <2> QED BY <1>23, <2>1, CapKept DEF ApiTest, loopVars
<1>24. CASE Tick
  BY <1>24, CapKept DEF Tick, dbVars, loopVars, vars
<1>25. CASE Restart
  BY <1>25, CapKept DEF Restart, dbVars, loopVars, vars
<1>26. CASE UNCHANGED vars
  BY <1>26, CapKept DEF dbVars, loopVars, vars
<1> QED
  BY <1>1, <1>2, <1>3, <1>4, <1>5, <1>6, <1>7, <1>8, <1>9, <1>10, <1>11, <1>12, <1>13, <1>14, <1>15, <1>16, <1>17, <1>18, <1>19, <1>20, <1>21, <1>22, <1>23, <1>24, <1>25, <1>26
  DEF Next, LoopStep, RequestStep

-----------------------------------------------------------------------------
(* The signal cooldown.                                                    *)

LEMMA AgesTyped ==
    ASSUME TypeOK, NEW p \in Profiles, NEW s \in Symbols
    PROVE  /\ Cooldown \in Nat /\ RestoreWindow \in Nat /\ Cooldown <= RestoreWindow
           /\ cool[p][s] \in 0 .. Cooldown /\ since[p][s] \in 0 .. Cooldown
           /\ born[p][s] \in 0 .. RestoreWindow
  BY SignalAssumption DEF TypeOK, Pairs

LEMMA StampInit == Init => StampInv
  BY SignalAssumption DEF Init, StampInv, WaitsOnce, Rested, Stamped

LEMMA StampStep == ASSUME Typed, StampInv PROVE [Next]_vars => StampInv'
<1>0. TypeOK /\ Cycle /\ WaitsOnce /\ Rested
      /\ \A p \in Profiles, s \in Symbols : Stamped(p, s)
  BY DEF Typed, StampInv
<1>1. CASE StartCycle
  <2>1. WaitsOnce'
    BY <1>0, <1>1 DEF StartCycle, Cycle, WaitsOnce, dbVars, loopVars, vars
  <2>2. Rested'
    BY <1>0, <1>1 DEF StartCycle, Cycle, Rested, Waiting, dbVars, loopVars, vars
  <2>3. \A q \in Profiles, x \in Symbols : Stamped(q, x)'
    BY <1>0, <1>1 DEF StartCycle, Stamped, dbVars, vars
  <2> QED BY <2>1, <2>2, <2>3 DEF StampInv
<1>2. CASE EndCycle
  <2>1. WaitsOnce'
    BY <1>0, <1>2 DEF EndCycle, Cycle, WaitsOnce, dbVars, loopVars, vars
  <2>2. Rested'
    BY <1>0, <1>2 DEF EndCycle, Cycle, Rested, Waiting, dbVars, loopVars, vars
  <2>3. \A q \in Profiles, x \in Symbols : Stamped(q, x)'
    BY <1>0, <1>2 DEF EndCycle, Stamped, dbVars, vars
  <2> QED BY <2>1, <2>2, <2>3 DEF StampInv
<1>3. CASE Prime
  <2>1. WaitsOnce'
    BY <1>0, <1>3 DEF Prime, Cycle, WaitsOnce, dbVars, loopVars, vars
  <2>2. Rested'
    BY <1>0, <1>3 DEF Prime, Cycle, Rested, Waiting, dbVars, loopVars, vars
  <2>3. \A q \in Profiles, x \in Symbols : Stamped(q, x)'
    BY <1>0, <1>3 DEF Prime, Stamped, dbVars, vars
  <2> QED BY <2>1, <2>2, <2>3 DEF StampInv
<1>4. CASE EndScan
  <2>1. WaitsOnce'
    BY <1>0, <1>4 DEF EndScan, Cycle, WaitsOnce, dbVars, loopVars, vars
  <2>2. Rested'
    BY <1>0, <1>4 DEF EndScan, Cycle, Rested, Waiting, dbVars, loopVars, vars
  <2>3. \A q \in Profiles, x \in Symbols : Stamped(q, x)'
    BY <1>0, <1>4 DEF EndScan, Stamped, dbVars, vars
  <2> QED BY <2>1, <2>2, <2>3 DEF StampInv
<1>5. CASE EndProfile
  <2>1. WaitsOnce'
    BY <1>0, <1>5 DEF EndProfile, Cycle, WaitsOnce, dbVars, loopVars, vars
  <2>2. Rested'
    BY <1>0, <1>5 DEF EndProfile, Cycle, Rested, Waiting, dbVars, loopVars, vars
  <2>3. \A q \in Profiles, x \in Symbols : Stamped(q, x)'
    BY <1>0, <1>5 DEF EndProfile, Stamped, dbVars, vars
  <2> QED BY <2>1, <2>2, <2>3 DEF StampInv
<1>6. CASE PlaceTaker
  <2>1. /\ cool' = [cool EXCEPT ![cur][sel.sym] = Cooldown]
        /\ since' = [since EXCEPT ![cur][sel.sym] = 0] /\ born' = [born EXCEPT ![cur][sel.sym] = 0]
        /\ pc = "place" /\ pc' = "act" /\ UNCHANGED <<queue, signals, cur>>
        /\ cur \in Profiles /\ sel.sym \in Symbols
        /\ \A q \in Profiles, x \in Symbols :
              resting'[q][x] => resting[q][x] \/ q \in MakerProfiles
    BY <1>0, <1>6 DEF PlaceTaker, Book, Cycle, Signals, TypeOK, Pairs
  <2>2. WaitsOnce'
    BY <1>0, <2>1 DEF WaitsOnce
  <2>3. Rested'
    <3>1. Waiting' \subseteq Waiting \ {sel.sym}
      BY <1>0, <2>1 DEF Waiting, WaitsOnce, Cycle
    <3>2. \A x \in Symbols : x # sel.sym => since'[cur][x] = since[cur][x]
      BY <1>0, <2>1 DEF TypeOK, Pairs
    <3>3. Waiting \subseteq Symbols
      BY <1>0 DEF Waiting, Cycle, TypeOK, Signals
    <3> QED BY <1>0, <2>1, <3>1, <3>2, <3>3 DEF Rested
  <2>4. ASSUME NEW q \in Profiles, NEW x \in Symbols PROVE Stamped(q, x)'
    <3>1. CASE q = cur /\ x = sel.sym
      <4>1. cool'[q][x] = Cooldown /\ since'[q][x] \in Nat
            /\ (born'[q][x] = 0 \/ (born'[q][x] = born[q][x] /\ since'[q][x] = since[q][x]))
        BY <1>0, <2>1, <3>1, AgesTyped DEF TypeOK, Pairs
      <4> QED BY <1>0, <2>1, <4>1, AgesTyped DEF Stamped
    <3>2. CASE ~(q = cur /\ x = sel.sym)
      <4>1. cool'[q][x] = cool[q][x] /\ since'[q][x] = since[q][x] /\ born'[q][x] = born[q][x]
        BY <1>0, <2>1, <3>2 DEF TypeOK, Pairs
      <4> QED BY <1>0, <2>1, <4>1 DEF Stamped
    <3> QED BY <3>1, <3>2
  <2> QED BY <2>2, <2>3, <2>4 DEF StampInv
<1>7. CASE PlaceMaker
  <2>1. /\ cool' = [cool EXCEPT ![cur][sel.sym] = Cooldown]
        /\ UNCHANGED <<since, born>>
        /\ pc = "place" /\ pc' = "act" /\ UNCHANGED <<queue, signals, cur>>
        /\ cur \in Profiles /\ sel.sym \in Symbols
        /\ \A q \in Profiles, x \in Symbols :
              resting'[q][x] => resting[q][x] \/ q \in MakerProfiles
    BY <1>0, <1>7 DEF PlaceMaker, Book, Cycle, Signals, TypeOK, Pairs
  <2>2. WaitsOnce'
    BY <1>0, <2>1 DEF WaitsOnce
  <2>3. Rested'
    <3>1. Waiting' \subseteq Waiting \ {sel.sym}
      BY <1>0, <2>1 DEF Waiting, WaitsOnce, Cycle
    <3>2. \A x \in Symbols : x # sel.sym => since'[cur][x] = since[cur][x]
      BY <1>0, <2>1 DEF TypeOK, Pairs
    <3>3. Waiting \subseteq Symbols
      BY <1>0 DEF Waiting, Cycle, TypeOK, Signals
    <3> QED BY <1>0, <2>1, <3>1, <3>2, <3>3 DEF Rested
  <2>4. ASSUME NEW q \in Profiles, NEW x \in Symbols PROVE Stamped(q, x)'
    <3>1. CASE q = cur /\ x = sel.sym
      <4>1. cool'[q][x] = Cooldown /\ since'[q][x] \in Nat
            /\ (born'[q][x] = 0 \/ (born'[q][x] = born[q][x] /\ since'[q][x] = since[q][x]))
        BY <1>0, <2>1, <3>1, AgesTyped DEF TypeOK, Pairs
      <4> QED BY <1>0, <2>1, <4>1, AgesTyped DEF Stamped
    <3>2. CASE ~(q = cur /\ x = sel.sym)
      <4>1. cool'[q][x] = cool[q][x] /\ since'[q][x] = since[q][x] /\ born'[q][x] = born[q][x]
        BY <1>0, <2>1, <3>2 DEF TypeOK, Pairs
      <4> QED BY <1>0, <2>1, <4>1 DEF Stamped
    <3> QED BY <3>1, <3>2
  <2> QED BY <2>2, <2>3, <2>4 DEF StampInv
<1>8. CASE PlaceFails
  <2>1. WaitsOnce'
    BY <1>0, <1>8 DEF PlaceFails, Cycle, WaitsOnce, dbVars, loopVars, vars
  <2>2. Rested'
    BY <1>0, <1>8 DEF PlaceFails, Cycle, Rested, Waiting, dbVars, loopVars, vars
  <2>3. \A q \in Profiles, x \in Symbols : Stamped(q, x)'
    BY <1>0, <1>8 DEF PlaceFails, Stamped, dbVars, vars
  <2> QED BY <2>1, <2>2, <2>3 DEF StampInv
<1>9. ASSUME NEW p \in Profiles, SkipProfile(p) PROVE StampInv'
  <2>1. WaitsOnce'
    BY <1>0, <1>9 DEF SkipProfile, Cycle, WaitsOnce, dbVars, loopVars, vars
  <2>2. Rested'
    BY <1>0, <1>9 DEF SkipProfile, Cycle, Rested, Waiting, dbVars, loopVars, vars
  <2>3. \A q \in Profiles, x \in Symbols : Stamped(q, x)'
    BY <1>0, <1>9 DEF SkipProfile, Stamped, dbVars, vars
  <2> QED BY <2>1, <2>2, <2>3 DEF StampInv
<1>10. ASSUME NEW p \in Profiles, BeginScan(p) PROVE StampInv'
  <2>1. WaitsOnce'
    BY <1>0, <1>10 DEF BeginScan, Cycle, WaitsOnce, dbVars, loopVars, vars
  <2>2. Rested'
    <3>1. /\ signals = {} /\ pc' = "prime" /\ cur' = p /\ UNCHANGED <<signals, since>>
          /\ queue' \subseteq Symbols /\ \A s \in queue' : cool[p][s] = 0
      BY <1>0, <1>10, SignalAssumption DEF BeginScan, Cycle, dbVars
    <3>2. p \notin MakerProfiles => \A s \in queue' : since[p][s] = Cooldown
      BY <1>0, <3>1, AgesTyped DEF Stamped
    <3> QED BY <3>1, <3>2 DEF Rested, Waiting
  <2>3. \A q \in Profiles, x \in Symbols : Stamped(q, x)'
    BY <1>0, <1>10 DEF BeginScan, Stamped, dbVars, vars
  <2> QED BY <2>1, <2>2, <2>3 DEF StampInv
<1>11. ASSUME NEW s \in Symbols, ScanSymbol(s) PROVE StampInv'
  <2>1. WaitsOnce'
    BY <1>0, <1>11 DEF ScanSymbol, Cycle, WaitsOnce, dbVars, loopVars, vars
  <2>2. Rested'
    BY <1>0, <1>11 DEF ScanSymbol, Cycle, Rested, Waiting, dbVars, loopVars, vars
  <2>3. \A q \in Profiles, x \in Symbols : Stamped(q, x)'
    BY <1>0, <1>11 DEF ScanSymbol, Stamped, dbVars, vars
  <2> QED BY <2>1, <2>2, <2>3 DEF StampInv
<1>12. ASSUME NEW sig \in signals, CheckSignal(sig) PROVE StampInv'
  <2>1. WaitsOnce'
    BY <1>0, <1>12 DEF CheckSignal, Cycle, WaitsOnce, dbVars, loopVars, vars
  <2>2. Rested'
    BY <1>0, <1>12 DEF CheckSignal, Cycle, Rested, Waiting, dbVars, loopVars, vars
  <2>3. \A q \in Profiles, x \in Symbols : Stamped(q, x)'
    BY <1>0, <1>12 DEF CheckSignal, Stamped, dbVars, vars
  <2> QED BY <2>1, <2>2, <2>3 DEF StampInv
<1>13. ASSUME NEW p \in Profiles, NEW s \in SymbolsOf[p], MakerFills(p, s) PROVE StampInv'
  <2>1. WaitsOnce' /\ Rested'
    BY <1>0, <1>13 DEF MakerFills, Cycle, WaitsOnce, Rested, Waiting, loopVars
  <2>2. /\ born' = [born EXCEPT ![p][s] = 0] /\ UNCHANGED <<since, cool>>
        /\ \A q \in Profiles, x \in Symbols : resting'[q][x] => resting[q][x]
    BY <1>0, <1>13 DEF MakerFills, Book, TypeOK, Pairs
  <2>3. ASSUME NEW q \in Profiles, NEW x \in Symbols PROVE Stamped(q, x)'
    <3>1. born'[q][x] = born[q][x] \/ born'[q][x] = 0
      BY <1>0, <2>2 DEF TypeOK, Pairs
    <3> QED BY <1>0, <2>2, <3>1, AgesTyped DEF Stamped
  <2> QED BY <2>1, <2>3 DEF StampInv
<1>14. ASSUME NEW p \in Profiles, NEW s \in SymbolsOf[p], MakerDropped(p, s) PROVE StampInv'
  <2>1. WaitsOnce' /\ Rested'
    BY <1>0, <1>14 DEF MakerDropped, Cycle, WaitsOnce, Rested, Waiting, loopVars
  <2>2. p \in MakerProfiles
    BY <1>0, <1>14, SignalAssumption DEF MakerDropped, Stamped
  <2>3. /\ UNCHANGED <<since, born>>
        /\ \A q \in Profiles, x \in Symbols : /\ resting'[q][x] => resting[q][x]
                                              /\ q # p => cool'[q][x] = cool[q][x]
    BY <1>0, <1>14 DEF MakerDropped, TypeOK, Pairs
  <2>4. ASSUME NEW q \in Profiles, NEW x \in Symbols PROVE Stamped(q, x)'
    <3>1. CASE q \in MakerProfiles
      BY <1>0, <2>3, <3>1 DEF Stamped
    <3>2. CASE q \notin MakerProfiles
      <4>1. q # p /\ cool'[q][x] = cool[q][x] /\ ~resting'[q][x]
        <5>1. Stamped(q, x)
          BY <1>0
        <5>2. q # p
          BY <2>2, <3>2
        <5>3. cool'[q][x] = cool[q][x]
          BY <2>3, <5>2
        <5>4. ~resting'[q][x]
          BY <2>3, <3>2, <5>1 DEF Stamped
        <5> QED BY <5>2, <5>3, <5>4
      <4>2. since' = since /\ born' = born /\ Stamped(q, x)
        BY <1>0, <2>3
      <4> QED BY <3>2, <4>1, <4>2 DEF Stamped
    <3> QED BY <3>1, <3>2
  <2> QED BY <2>1, <2>4 DEF StampInv
<1>15. ASSUME NEW h \in held, NEW why \in {"STOP_LOSS", "TAKE_PROFIT"}, LoopCloses(h, why) PROVE StampInv'
  <2>1. WaitsOnce' /\ Rested'
    BY <1>0, <1>15 DEF LoopCloses, Cycle, WaitsOnce, Rested, Waiting, loopVars
  <2>2. /\ cool' = [cool EXCEPT ![h.of][h.sym] = Cooldown]
        /\ UNCHANGED <<since, born, resting>>
    BY <1>15 DEF LoopCloses
  <2>3. ASSUME NEW q \in Profiles, NEW x \in Symbols PROVE Stamped(q, x)'
    <3>1. cool'[q][x] = cool[q][x] \/ cool'[q][x] = Cooldown
      BY <1>0, <2>2 DEF TypeOK, Pairs
    <3> QED BY <1>0, <2>2, <3>1, AgesTyped DEF Stamped
  <2> QED BY <2>1, <2>3 DEF StampInv
<1>16. ASSUME NEW h \in held, ManualClose(h) PROVE StampInv'
  <2>1. WaitsOnce'
    BY <1>0, <1>16 DEF ManualClose, Cycle, WaitsOnce, dbVars, loopVars, vars
  <2>2. Rested'
    BY <1>0, <1>16 DEF ManualClose, Cycle, Rested, Waiting, dbVars, loopVars, vars
  <2>3. \A q \in Profiles, x \in Symbols : Stamped(q, x)'
    BY <1>0, <1>16 DEF ManualClose, Stamped, dbVars, vars, Leave
  <2> QED BY <2>1, <2>2, <2>3 DEF StampInv
<1>17. ASSUME NEW s \in Symbols, NEW P \in SUBSET Profiles \ {{}}, NEW sized \in BOOLEAN,
             Alert(s, P, sized)
      PROVE StampInv'
  <2>1. WaitsOnce'
    BY <1>0, <1>17 DEF Alert, Cycle, WaitsOnce, dbVars, loopVars, vars
  <2>2. Rested'
    BY <1>0, <1>17 DEF Alert, Cycle, Rested, Waiting, dbVars, loopVars, vars
  <2>3. \A q \in Profiles, x \in Symbols : Stamped(q, x)'
    BY <1>0, <1>17 DEF Alert, Stamped, dbVars, vars
  <2> QED BY <2>1, <2>2, <2>3 DEF StampInv
<1>18. ASSUME NEW p \in Profiles, AlertRefused(p) PROVE StampInv'
  <2>1. WaitsOnce'
    BY <1>0, <1>18 DEF AlertRefused, Cycle, WaitsOnce, dbVars, loopVars, vars
  <2>2. Rested'
    BY <1>0, <1>18 DEF AlertRefused, Cycle, Rested, Waiting, dbVars, loopVars, vars
  <2>3. \A q \in Profiles, x \in Symbols : Stamped(q, x)'
    BY <1>0, <1>18 DEF AlertRefused, Stamped, dbVars, vars
  <2> QED BY <2>1, <2>2, <2>3 DEF StampInv
<1>19. ASSUME NEW p \in Profiles, AlertEnters(p) PROVE StampInv'
  <2>1. WaitsOnce' /\ Rested'
    BY <1>0, <1>19 DEF AlertEnters, Cycle, WaitsOnce, Rested, Waiting, loopVars
  <2>2. /\ born' = [born EXCEPT ![p][alert.sym] = 0] /\ UNCHANGED <<since, cool>>
        /\ \A q \in Profiles, x \in Symbols : resting'[q][x] => resting[q][x]
    BY <1>0, <1>19 DEF AlertEnters, Book, TypeOK, Pairs
  <2>3. ASSUME NEW q \in Profiles, NEW x \in Symbols PROVE Stamped(q, x)'
    <3>1. born'[q][x] = born[q][x] \/ born'[q][x] = 0
      BY <1>0, <2>2 DEF TypeOK, Pairs
    <3> QED BY <1>0, <2>2, <3>1, AgesTyped DEF Stamped
  <2> QED BY <2>1, <2>3 DEF StampInv
<1>20. ASSUME NEW p \in Profiles, ApiPrime(p) PROVE StampInv'
  <2>1. WaitsOnce'
    BY <1>0, <1>20 DEF ApiPrime, Cycle, WaitsOnce, dbVars, loopVars, vars
  <2>2. Rested'
    BY <1>0, <1>20 DEF ApiPrime, Cycle, Rested, Waiting, dbVars, loopVars, vars
  <2>3. \A q \in Profiles, x \in Symbols : Stamped(q, x)'
    BY <1>0, <1>20 DEF ApiPrime, Stamped, dbVars, vars
  <2> QED BY <2>1, <2>2, <2>3 DEF StampInv
<1>21. CASE AlertEnds
  <2>1. WaitsOnce'
    BY <1>0, <1>21 DEF AlertEnds, Cycle, WaitsOnce, dbVars, loopVars, vars
  <2>2. Rested'
    BY <1>0, <1>21 DEF AlertEnds, Cycle, Rested, Waiting, dbVars, loopVars, vars
  <2>3. \A q \in Profiles, x \in Symbols : Stamped(q, x)'
    BY <1>0, <1>21 DEF AlertEnds, Stamped, dbVars, vars
  <2> QED BY <2>1, <2>2, <2>3 DEF StampInv
<1>22. CASE ApiEndScan
  <2>1. WaitsOnce'
    BY <1>0, <1>22 DEF ApiEndScan, Cycle, WaitsOnce, dbVars, loopVars, vars
  <2>2. Rested'
    BY <1>0, <1>22 DEF ApiEndScan, Cycle, Rested, Waiting, dbVars, loopVars, vars
  <2>3. \A q \in Profiles, x \in Symbols : Stamped(q, x)'
    BY <1>0, <1>22 DEF ApiEndScan, Stamped, dbVars, vars
  <2> QED BY <2>1, <2>2, <2>3 DEF StampInv
<1>23. ASSUME NEW p \in Profiles, NEW s \in Symbols, ApiTest(p, s) PROVE StampInv'
  <2>1. WaitsOnce' /\ Rested'
    BY <1>0, <1>23 DEF ApiTest, Cycle, WaitsOnce, Rested, Waiting, loopVars
  <2>2. /\ born' = [born EXCEPT ![p][s] = 0] /\ UNCHANGED <<since, cool>>
        /\ \A q \in Profiles, x \in Symbols : resting'[q][x] => resting[q][x]
    BY <1>0, <1>23 DEF ApiTest, Book, TypeOK, Pairs
  <2>3. ASSUME NEW q \in Profiles, NEW x \in Symbols PROVE Stamped(q, x)'
    <3>1. born'[q][x] = born[q][x] \/ born'[q][x] = 0
      BY <1>0, <2>2 DEF TypeOK, Pairs
    <3> QED BY <1>0, <2>2, <3>1, AgesTyped DEF Stamped
  <2> QED BY <2>1, <2>3 DEF StampInv
<1>24. CASE Tick
  <2>1. WaitsOnce' /\ Rested'
    BY <1>0, <1>24 DEF Tick, Cycle, WaitsOnce, Rested, Waiting, loopVars
  <2>2. ASSUME NEW q \in Profiles, NEW x \in Symbols PROVE Stamped(q, x)'
    <3>1. /\ cool'[q][x] = Less(cool[q][x]) /\ since'[q][x] = More(since[q][x], Cooldown)
          /\ born'[q][x] = More(born[q][x], RestoreWindow) /\ resting' = resting
      BY <1>24 DEF Tick, PerPair
    <3> QED BY <1>0, <3>1, AgesTyped DEF Stamped, Less, More
  <2> QED BY <2>1, <2>2 DEF StampInv
<1>25. CASE Restart
  <2>1. WaitsOnce' /\ Rested'
    BY <1>25 DEF Restart, WaitsOnce, Rested, Waiting
  <2>2. ASSUME NEW q \in Profiles, NEW x \in Symbols PROVE Stamped(q, x)'
    <3>1. cool'[q][x] = Restored(q, x) /\ UNCHANGED <<since, born, resting>>
      BY <1>25 DEF Restart, PerPair, dbVars
    <3> QED BY <1>0, <3>1, AgesTyped DEF Stamped, Restored
  <2> QED BY <2>1, <2>2 DEF StampInv
<1>26. CASE UNCHANGED vars
  <2>1. WaitsOnce'
    BY <1>0, <1>26 DEF Cycle, WaitsOnce, dbVars, loopVars, vars
  <2>2. Rested'
    BY <1>0, <1>26 DEF Cycle, Rested, Waiting, dbVars, loopVars, vars
  <2>3. \A q \in Profiles, x \in Symbols : Stamped(q, x)'
    BY <1>0, <1>26 DEF Stamped, dbVars, vars
  <2> QED BY <2>1, <2>2, <2>3 DEF StampInv
<1> QED
  BY <1>1, <1>2, <1>3, <1>4, <1>5, <1>6, <1>7, <1>8, <1>9, <1>10, <1>11, <1>12, <1>13, <1>14, <1>15, <1>16, <1>17, <1>18, <1>19, <1>20, <1>21, <1>22, <1>23, <1>24, <1>25, <1>26
  DEF Next, LoopStep, RequestStep

\* Only the loop's own order books a position as its own.
LEMMA SpacedStep == ASSUME Typed, StampInv, [Next]_vars PROVE Spaced
<1> SUFFICES ASSUME NEW h \in held' \ held, h.by = "loop", h.of \notin MakerProfiles
             PROVE  since[h.of][h.sym] = Cooldown
  BY DEF Spaced
<1>1. PlaceTaker
  <2>1. /\ held' # held
        /\ \A q, x, by : Book(q, x, by) => h.by = by
        /\ \A g, why : ~Leave(g, why)
    BY DEF Book, Leave
  <2>2. CASE LoopStep
    BY <2>1, <2>2 DEF LoopStep, dbVars, StartCycle, EndCycle, Prime, EndScan, EndProfile,
         PlaceMaker, PlaceFails, SkipProfile, BeginScan, ScanSymbol, CheckSignal, MakerFills,
         MakerDropped, LoopCloses
  <2>3. ASSUME RequestStep PROVE FALSE
    BY <2>1, <2>3 DEF RequestStep, dbVars, ManualClose, Alert, AlertRefused, AlertEnters,
         ApiPrime, AlertEnds, ApiEndScan, ApiTest
  <2>4. ASSUME Tick \/ Restart \/ UNCHANGED vars PROVE FALSE
    BY <2>1, <2>4 DEF Tick, Restart, vars, dbVars
  <2> QED BY <2>2, <2>3, <2>4 DEF Next
<1>2. h.of = cur /\ h.sym = sel.sym
  BY <1>1 DEF PlaceTaker, Book
<1>3. sel.sym \in Waiting /\ pc = "place"
  BY <1>1 DEF PlaceTaker, Waiting
<1> QED BY <1>2, <1>3 DEF StampInv, Rested

-----------------------------------------------------------------------------
(* The re-entry check.                                                     *)

\* The lookback is never shorter than a cooldown.
LEMMA LookbackCovers == Lookback \in Nat /\ Longest <= Lookback
<1>1. Hour \in Nat /\ Hour > 0 /\ Longest \in Nat
  BY SignalAssumption, LongestTyped
<1> DEFINE n == Longest + Hour - 1
           q == n \div Hour
<1>2. n \in Nat
  BY <1>1
<1>3. q \in Nat /\ n = Hour * q + (n % Hour) /\ n % Hour \in 0 .. Hour - 1
  BY <1>1, <1>2
<1>4. Hour * q >= Longest
  BY <1>1, <1>3
<1> DEFINE m == SetMax({2, q + 1})
<1>5. m \in Nat /\ m >= q + 1
  <2>1. \E x \in {2, q + 1} : \A y \in {2, q + 1} : y <= x
    BY <1>3
  <2>2. m \in {2, q + 1} /\ \A y \in {2, q + 1} : y <= m
    BY <2>1 DEF SetMax
  <2> QED BY <1>3, <2>2
<1>6. Lookback = Hour * m
  BY DEF Lookback, Longest
<1> HIDE DEF q, m
<1>7. Hour * m >= Hour * q + Hour
  BY <1>1, <1>3, <1>5
<1>8. Hour * m \in Nat
  BY <1>1, <1>5
<1> QED BY <1>1, <1>3, <1>4, <1>6, <1>7, <1>8

\* An exit that still cools is in every query.
LEMMA RecentCools ==
    ASSUME TypeOK, NEW p \in Profiles, NEW s \in Symbols, Cooling(exit[p][s])
    PROVE  Recent(p, s) = exit[p][s]
<1>1. exit[p][s].age \in Nat
  BY LongestTyped DEF TypeOK, Pairs, Exits, Longest
<1> QED BY <1>1, CoolingYoung, LookbackCovers, LongestTyped DEF Recent

\* What is found for a symbol of the scan cools if its exit does, unless the
\* exit is of this very cycle.
LEMMA KnownCools ==
    ASSUME Typed, BatchInv, pc = "scan", NEW s \in queue,
           exit[cur][s].age # 0, Cooling(exit[cur][s])
    PROVE  Cooling(Known(cur, s))
<1>1. s \in Symbols /\ cur \in Profiles
  BY DEF Typed, TypeOK, Cycle
<1>2. Recent(cur, s) = exit[cur][s]
  BY <1>1, RecentCools DEF Typed
<1>3. CASE batch[cur] = NoBatch
  BY <1>2, <1>3 DEF Known
<1>4. CASE batch[cur] # NoBatch
  <2>1. s \in DOMAIN batch[cur] /\ batch[cur][s] = Recent(cur, s)
    BY <1>1, <1>4 DEF BatchInv, BatchOK
  <2> QED BY <1>2, <1>4, <2>1 DEF Known
<1> QED BY <1>3, <1>4

LEMMA BatchInit == Init => BatchInv
  BY DEF Init, BatchInv, BatchOK, ReentryRespected

LEMMA BatchStep == ASSUME Typed, BatchInv PROVE [Next]_vars => BatchInv'
<1>0. TypeOK /\ Cycle /\ ReentryRespected /\ (\A p \in Profiles : BatchOK(p))
      /\ None \notin Profiles
  BY SignalAssumption DEF Typed, BatchInv
<1>1. CASE StartCycle
  <2>1. ReentryRespected'
    BY <1>0, <1>1 DEF StartCycle, ReentryRespected, Cycle, Cooling, CooldownAfter, dbVars, loopVars, vars
  <2>2. ASSUME NEW q \in Profiles PROVE BatchOK(q)'
    BY <1>0, <1>1 DEF StartCycle, BatchOK, Recent, dbVars, loopVars, vars
  <2> QED BY <2>1, <2>2 DEF BatchInv
<1>2. CASE EndCycle
  <2>1. ReentryRespected'
    BY <1>0, <1>2 DEF EndCycle, ReentryRespected, Cycle, Cooling, CooldownAfter, dbVars, loopVars, vars
  <2>2. ASSUME NEW q \in Profiles PROVE BatchOK(q)'
    BY <1>0, <1>2 DEF EndCycle, BatchOK, Recent, dbVars, loopVars, vars
  <2> QED BY <2>1, <2>2 DEF BatchInv
<1>3. CASE Prime
  <2>1. ReentryRespected'
    BY <1>0, <1>3 DEF Prime, Cycle, ReentryRespected, loopVars
  <2>2. /\ pc = "prime" /\ pc' = "scan" /\ UNCHANGED <<cur, queue, exit, api>>
        /\ \A q \in Profiles \ {cur} : batch'[q] = batch[q]
        /\ batch'[cur] \in {Primed(cur, queue), NoBatch}
    BY <1>0, <1>3 DEF Prime, TypeOK, Cycle, dbVars, loopVars
  <2>3. BatchOK(cur)'
    <3>1. \A s \in queue : Primed(cur, queue)[s] = Recent(cur, s)
      BY DEF Primed
    <3>2. DOMAIN Primed(cur, queue) = queue
      BY DEF Primed
    <3> QED BY <2>2, <3>1, <3>2 DEF BatchOK, Recent
  <2>4. ASSUME NEW q \in Profiles, q # cur PROVE BatchOK(q)'
    BY <1>0, <2>2, <2>4 DEF BatchOK, Recent
  <2> QED BY <2>1, <2>2, <2>3, <2>4 DEF BatchInv
<1>4. CASE EndScan
  <2>1. ReentryRespected'
    BY <1>0, <1>4 DEF EndScan, ReentryRespected, loopVars, dbVars
  <2>2. /\ \A q \in Profiles : batch'[q] = batch[q] \/ batch'[q] = NoBatch
        /\ batch'[cur] = NoBatch /\ UNCHANGED <<cur, queue, exit>>
    BY <1>0, <1>4 DEF EndScan, TypeOK, Cycle, dbVars, loopVars
  <2>3. ASSUME NEW q \in Profiles PROVE BatchOK(q)'
    BY <1>0, <1>4, <2>2 DEF EndScan, BatchOK, Recent
  <2> QED BY <2>1, <2>3 DEF BatchInv
<1>5. CASE EndProfile
  <2>1. ReentryRespected'
    BY <1>0, <1>5 DEF EndProfile, ReentryRespected, Cycle, Cooling, CooldownAfter, dbVars, loopVars, vars
  <2>2. ASSUME NEW q \in Profiles PROVE BatchOK(q)'
    BY <1>0, <1>5 DEF EndProfile, BatchOK, Recent, dbVars, loopVars, vars
  <2> QED BY <2>1, <2>2 DEF BatchInv
<1>6. CASE PlaceTaker
  <2>1. ReentryRespected'
    BY <1>0, <1>6 DEF PlaceTaker, ReentryRespected, Cycle, Cooling, CooldownAfter, dbVars, loopVars, vars, Book
  <2>2. ASSUME NEW q \in Profiles PROVE BatchOK(q)'
    BY <1>0, <1>6 DEF PlaceTaker, BatchOK, Recent, dbVars, loopVars, vars, Book
  <2> QED BY <2>1, <2>2 DEF BatchInv
<1>7. CASE PlaceMaker
  <2>1. ReentryRespected'
    BY <1>0, <1>7 DEF PlaceMaker, ReentryRespected, Cycle, Cooling, CooldownAfter, dbVars, loopVars, vars
  <2>2. ASSUME NEW q \in Profiles PROVE BatchOK(q)'
    BY <1>0, <1>7 DEF PlaceMaker, BatchOK, Recent, dbVars, loopVars, vars
  <2> QED BY <2>1, <2>2 DEF BatchInv
<1>8. CASE PlaceFails
  <2>1. ReentryRespected'
    BY <1>0, <1>8 DEF PlaceFails, ReentryRespected, Cycle, Cooling, CooldownAfter, dbVars, loopVars, vars
  <2>2. ASSUME NEW q \in Profiles PROVE BatchOK(q)'
    BY <1>0, <1>8 DEF PlaceFails, BatchOK, Recent, dbVars, loopVars, vars
  <2> QED BY <2>1, <2>2 DEF BatchInv
<1>9. ASSUME NEW p \in Profiles, SkipProfile(p) PROVE BatchInv'
  <2>1. ReentryRespected'
    BY <1>0, <1>9 DEF SkipProfile, ReentryRespected, Cycle, Cooling, CooldownAfter, dbVars, loopVars, vars
  <2>2. ASSUME NEW q \in Profiles PROVE BatchOK(q)'
    BY <1>0, <1>9 DEF SkipProfile, BatchOK, Recent, dbVars, loopVars, vars
  <2> QED BY <2>1, <2>2 DEF BatchInv
<1>10. ASSUME NEW p \in Profiles, BeginScan(p) PROVE BatchInv'
  <2>1. ReentryRespected'
    BY <1>0, <1>10 DEF BeginScan, ReentryRespected, Cycle, Cooling, CooldownAfter, dbVars, loopVars, vars
  <2>2. ASSUME NEW q \in Profiles PROVE BatchOK(q)'
    BY <1>0, <1>10 DEF BeginScan, BatchOK, Recent, dbVars, loopVars, vars
  <2> QED BY <2>1, <2>2 DEF BatchInv
<1>11. ASSUME NEW s \in Symbols, ScanSymbol(s) PROVE BatchInv'
  <2>1. PICK first \in BOOLEAN :
          /\ signals' = signals \/ signals' = signals \cup {[sym |-> s, checked |-> first]}
          /\ first /\ signals' # signals => CanReenter(cur, s)
    BY <1>11 DEF ScanSymbol
  <2>2. /\ pc = "scan" /\ s \in queue /\ UNCHANGED <<pc, cur, exit, batch, api>>
        /\ queue' \subseteq queue
    BY <1>11 DEF ScanSymbol, dbVars
  <2>3. CanReenter(cur, s) => ~(exit[cur][s].age # 0 /\ Cooling(exit[cur][s]))
    BY <2>2, KnownCools DEF CanReenter
  <2>4. ASSUME NEW sig \in signals', sig.checked, exit[cur][sig.sym].age > 0
        PROVE  ~Cooling(exit[cur][sig.sym])
    <3>1. CASE sig \in signals
      BY <1>0, <2>4, <3>1 DEF ReentryRespected
    <3>2. CASE sig \notin signals
      <4>1. sig.sym = s /\ CanReenter(cur, s)
        BY <2>1, <2>4, <3>2
      <4>2. exit[cur][s].age # 0
        BY <2>4, <4>1
      <4> QED BY <2>3, <4>1, <4>2
    <3> QED BY <3>1, <3>2
  <2>5. ReentryRespected'
    BY <2>2, <2>4 DEF ReentryRespected, Cooling, CooldownAfter
  <2>6. ASSUME NEW q \in Profiles PROVE BatchOK(q)'
    BY <1>0, <2>2 DEF BatchOK, Recent
  <2> QED BY <2>5, <2>6 DEF BatchInv
<1>12. ASSUME NEW sig \in signals, CheckSignal(sig) PROVE BatchInv'
  <2>1. ReentryRespected'
    BY <1>0, <1>12 DEF CheckSignal, ReentryRespected, Cycle, Cooling, CooldownAfter, dbVars, loopVars, vars
  <2>2. ASSUME NEW q \in Profiles PROVE BatchOK(q)'
    BY <1>0, <1>12 DEF CheckSignal, BatchOK, Recent, dbVars, loopVars, vars
  <2> QED BY <2>1, <2>2 DEF BatchInv
<1>13. ASSUME NEW p \in Profiles, NEW s \in SymbolsOf[p], MakerFills(p, s) PROVE BatchInv'
  <2>1. ReentryRespected'
    BY <1>0, <1>13 DEF MakerFills, ReentryRespected, Cycle, Cooling, CooldownAfter, dbVars, loopVars, vars, Book
  <2>2. ASSUME NEW q \in Profiles PROVE BatchOK(q)'
    BY <1>0, <1>13 DEF MakerFills, BatchOK, Recent, dbVars, loopVars, vars, Book
  <2> QED BY <2>1, <2>2 DEF BatchInv
<1>14. ASSUME NEW p \in Profiles, NEW s \in SymbolsOf[p], MakerDropped(p, s) PROVE BatchInv'
  <2>1. ReentryRespected'
    BY <1>0, <1>14 DEF MakerDropped, ReentryRespected, Cycle, Cooling, CooldownAfter, dbVars, loopVars, vars
  <2>2. ASSUME NEW q \in Profiles PROVE BatchOK(q)'
    BY <1>0, <1>14 DEF MakerDropped, BatchOK, Recent, dbVars, loopVars, vars
  <2> QED BY <2>1, <2>2 DEF BatchInv
<1>15. ASSUME NEW h \in held, NEW why \in {"STOP_LOSS", "TAKE_PROFIT"}, LoopCloses(h, why) PROVE BatchInv'
  <2>1. Leave(h, why) /\ UNCHANGED <<pc, cur, queue, signals, batch, api>>
    BY <1>15 DEF LoopCloses, loopVars
  <2>2. \A q \in Profiles, x \in Symbols : exit'[q][x] = exit[q][x] \/ exit'[q][x].age = 0
    BY <1>15, <2>1, LeaveTyped DEF Reasons
  <2>3. ReentryRespected'
    <3>1. signals # {} => cur \in Profiles
      BY <1>0 DEF Cycle, TypeOK
    <3>2. \A sig \in signals : sig.sym \in Symbols
      BY <1>0 DEF TypeOK, Signals
    <3> QED BY <1>0, <2>1, <2>2, <3>1, <3>2 DEF ReentryRespected, Cooling, CooldownAfter
  <2>4. ASSUME NEW q \in Profiles PROVE BatchOK(q)'
    <3>1. DOMAIN batch[q] \subseteq Symbols
      BY <1>0 DEF TypeOK, BatchOf
    <3> QED BY <1>0, <2>1, <2>2, <3>1 DEF BatchOK, Recent
  <2> QED BY <2>3, <2>4 DEF BatchInv
<1>16. ASSUME NEW h \in held, ManualClose(h) PROVE BatchInv'
  <2>1. Leave(h, "MANUAL") /\ UNCHANGED <<pc, cur, queue, signals, batch, api>>
    BY <1>16 DEF ManualClose, loopVars
  <2>2. \A q \in Profiles, x \in Symbols : exit'[q][x] = exit[q][x] \/ exit'[q][x].age = 0
    BY <1>16, <2>1, LeaveTyped DEF Reasons
  <2>3. ReentryRespected'
    <3>1. signals # {} => cur \in Profiles
      BY <1>0 DEF Cycle, TypeOK
    <3>2. \A sig \in signals : sig.sym \in Symbols
      BY <1>0 DEF TypeOK, Signals
    <3> QED BY <1>0, <2>1, <2>2, <3>1, <3>2 DEF ReentryRespected, Cooling, CooldownAfter
  <2>4. ASSUME NEW q \in Profiles PROVE BatchOK(q)'
    <3>1. DOMAIN batch[q] \subseteq Symbols
      BY <1>0 DEF TypeOK, BatchOf
    <3> QED BY <1>0, <2>1, <2>2, <3>1 DEF BatchOK, Recent
  <2> QED BY <2>3, <2>4 DEF BatchInv
<1>17. ASSUME NEW s \in Symbols, NEW P \in SUBSET Profiles \ {{}}, NEW sized \in BOOLEAN,
             Alert(s, P, sized)
      PROVE BatchInv'
  <2>1. ReentryRespected'
    BY <1>0, <1>17 DEF Alert, ReentryRespected, Cycle, Cooling, CooldownAfter, dbVars, loopVars, vars
  <2>2. ASSUME NEW q \in Profiles PROVE BatchOK(q)'
    BY <1>0, <1>17 DEF Alert, BatchOK, Recent, dbVars, loopVars, vars
  <2> QED BY <2>1, <2>2 DEF BatchInv
<1>18. ASSUME NEW p \in Profiles, AlertRefused(p) PROVE BatchInv'
  <2>1. ReentryRespected'
    BY <1>0, <1>18 DEF AlertRefused, ReentryRespected, Cycle, Cooling, CooldownAfter, dbVars, loopVars, vars
  <2>2. ASSUME NEW q \in Profiles PROVE BatchOK(q)'
    BY <1>0, <1>18 DEF AlertRefused, BatchOK, Recent, dbVars, loopVars, vars
  <2> QED BY <2>1, <2>2 DEF BatchInv
<1>19. ASSUME NEW p \in Profiles, AlertEnters(p) PROVE BatchInv'
  <2>1. ReentryRespected'
    BY <1>0, <1>19 DEF AlertEnters, ReentryRespected, Cycle, Cooling, CooldownAfter, dbVars, loopVars, vars, Book
  <2>2. ASSUME NEW q \in Profiles PROVE BatchOK(q)'
    BY <1>0, <1>19 DEF AlertEnters, BatchOK, Recent, dbVars, loopVars, vars, Book
  <2> QED BY <2>1, <2>2 DEF BatchInv
<1>20. ASSUME NEW p \in Profiles, ApiPrime(p) PROVE BatchInv'
  <2>1. ReentryRespected'
    BY <1>0, <1>20 DEF ApiPrime, ReentryRespected, loopVars, dbVars
  <2>2. /\ api = None /\ api' = p /\ UNCHANGED <<pc, cur, queue, exit>>
        /\ \A q \in Profiles \ {p} : batch'[q] = batch[q]
        /\ batch'[p] \in {Primed(p, Symbols), NoBatch}
    BY <1>0, <1>20 DEF ApiPrime, TypeOK, dbVars, loopVars
  <2>3. BatchOK(p)'
    <3>1. \A s \in Symbols : Primed(p, Symbols)[s] = Recent(p, s)
      BY DEF Primed
    <3>2. DOMAIN Primed(p, Symbols) = Symbols
      BY DEF Primed
    <3> QED BY <2>2, <3>1, <3>2 DEF BatchOK, Recent
  <2>4. ASSUME NEW q \in Profiles, q # p PROVE BatchOK(q)'
    BY <1>0, <2>2, <2>4 DEF BatchOK, Recent
  <2> QED BY <2>1, <2>2, <2>3, <2>4 DEF BatchInv
<1>21. CASE AlertEnds
  <2>1. ReentryRespected'
    BY <1>0, <1>21 DEF AlertEnds, ReentryRespected, Cycle, Cooling, CooldownAfter, dbVars, loopVars, vars
  <2>2. ASSUME NEW q \in Profiles PROVE BatchOK(q)'
    BY <1>0, <1>21 DEF AlertEnds, BatchOK, Recent, dbVars, loopVars, vars
  <2> QED BY <2>1, <2>2 DEF BatchInv
<1>22. CASE ApiEndScan
  <2>1. ReentryRespected'
    BY <1>0, <1>22 DEF ApiEndScan, ReentryRespected, loopVars, dbVars
  <2>2. /\ \A q \in Profiles : batch'[q] = batch[q] \/ batch'[q] = NoBatch
        /\ batch'[api] = NoBatch /\ UNCHANGED <<cur, queue, exit>>
    BY <1>0, <1>22 DEF ApiEndScan, TypeOK, Cycle, dbVars, loopVars
  <2>3. ASSUME NEW q \in Profiles PROVE BatchOK(q)'
    BY <1>0, <1>22, <2>2 DEF ApiEndScan, BatchOK, Recent
  <2> QED BY <2>1, <2>3 DEF BatchInv
<1>23. ASSUME NEW p \in Profiles, NEW s \in Symbols, ApiTest(p, s) PROVE BatchInv'
  <2>1. ReentryRespected'
    BY <1>0, <1>23 DEF ApiTest, ReentryRespected, Cycle, Cooling, CooldownAfter, dbVars, loopVars, vars, Book
  <2>2. ASSUME NEW q \in Profiles PROVE BatchOK(q)'
    BY <1>0, <1>23 DEF ApiTest, BatchOK, Recent, dbVars, loopVars, vars, Book
  <2> QED BY <2>1, <2>2 DEF BatchInv
<1>24. CASE Tick
  <2>1. signals' = {} /\ \A q \in Profiles : batch'[q] = NoBatch
    BY <1>0, <1>24 DEF Tick, Cycle, BatchOK, loopVars
  <2> QED BY <2>1 DEF BatchInv, BatchOK, ReentryRespected
<1>25. CASE Restart
  <2>1. signals' = {} /\ \A q \in Profiles : batch'[q] = NoBatch
    BY <1>0, <1>25 DEF Restart, Cycle, BatchOK, loopVars
  <2> QED BY <2>1 DEF BatchInv, BatchOK, ReentryRespected
<1>26. CASE UNCHANGED vars
  <2>1. ReentryRespected'
    BY <1>0, <1>26 DEF ReentryRespected, Cycle, Cooling, CooldownAfter, dbVars, loopVars, vars
  <2>2. ASSUME NEW q \in Profiles PROVE BatchOK(q)'
    BY <1>0, <1>26 DEF BatchOK, Recent, dbVars, loopVars, vars
  <2> QED BY <2>1, <2>2 DEF BatchInv
<1> QED
  BY <1>1, <1>2, <1>3, <1>4, <1>5, <1>6, <1>7, <1>8, <1>9, <1>10, <1>11, <1>12, <1>13, <1>14, <1>15, <1>16, <1>17, <1>18, <1>19, <1>20, <1>21, <1>22, <1>23, <1>24, <1>25, <1>26
  DEF Next, LoopStep, RequestStep

-----------------------------------------------------------------------------
(* The theorems.                                                           *)

LEMMA TypedAlways == Spec => []Typed
  BY TypedInit, TypedStep, PTL DEF Spec

\* Every variable keeps its type: in particular no stamp or age grows past its
\* bound, and a batch tells of exits of active symbols.
THEOREM LoopTyped == Spec => []TypeOK
<1>1. Typed => TypeOK
  BY DEF Typed
<1> QED BY TypedAlways, <1>1, PTL

\* What the loop fills at once never takes the group over a limit, nor a
\* profile over a cap, whatever the request threads book or close between the
\* check and the order.
THEOREM CapsHeldAlways == Spec => []CapsHeld
<1>1. Spec => [](Typed /\ CapInv)
  BY TypedInit, TypedStep, CapInit, CapStep, PTL DEF Spec
<1>2. CapInv => CapsHeld
  BY DEF CapInv
<1> QED BY <1>1, <1>2, PTL

\* The loop opens positions of a pair at least a signal cooldown apart, also
\* across restarts, for profiles that do not enter as makers.
THEOREM EntriesSpacedAlways == Spec => EntriesSpaced
<1>1. Spec => [](Typed /\ StampInv)
  BY TypedInit, TypedStep, StampInit, StampStep, PTL DEF Spec
<1>2. Typed /\ StampInv /\ [Next]_vars => Spaced
  BY SpacedStep
<1> QED BY <1>1, <1>2, PTL DEF Spec, EntriesSpaced

\* A signal whose re-entry check ran follows no exit from before its cycle
\* within that exit's cooldown: neither the lookback, nor the batch of another
\* thread, primed or dropped meanwhile, hides the exit.
THEOREM ReentryRespectedAlways == Spec => []ReentryRespected
<1>1. Spec => [](Typed /\ BatchInv)
  BY TypedInit, TypedStep, BatchInit, BatchStep, PTL DEF Spec
<1>2. BatchInv => ReentryRespected
  BY DEF BatchInv
<1> QED BY <1>1, <1>2, PTL
=============================================================================
