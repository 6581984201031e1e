-------------------------- MODULE Services_proofs --------------------------
(***************************************************************************)
(* Theorems about the threads that must go on, for every value of the      *)
(* constants: the PnL breaker, the adapter of a venue, the monitoring loop *)
(* and the settings.                                                       *)
(***************************************************************************)
EXTENDS Services, Sequences, FiniteSetTheorems, WellFoundedInduction, TLAPS

-----------------------------------------------------------------------------
(* The breaker.  The typing and the daily cap hold for every value of the  *)
(* constants; that one lock stands, blocks, lasts its hours and is not set *)
(* again on the same gain is proved for one thread and an account of its   *)
(* own (Alone), for every number of profiles, values, limits, events, days *)
(* and faults.                                                             *)

\* One thread in the service, and the profiles share an account.
Alone == (\E t : Threads = {t}) /\ ~Standalone

-----------------------------------------------------------------------------
(* The invariants.                                                         *)

Last == Cardinality(Created)

\* What a thread carries to and from a clearing, and to Create.
Visits == [profile : Profiles \cup {"none"}, event : Events \cup {NoEvent},
           then : {"idle", "inner", "limits"}]
Orders == [profile : Profiles, event : {NoEvent}, then : {"idle"},
           kind : {"profit", "loss"}, balance : Values, day : 0..LastDay]

JobOK(t) ==
    /\ at[t] = "create" => job[t] \in Orders
    /\ at[t] # "create" => job[t] \in Visits
    /\ at[t] \in {"outer", "inner", "limits"} => job[t].profile \in Profiles
    /\ at[t] \in {"clear", "expire", "rebase"} /\ job[t].then # "idle" =>
           job[t].profile \in Profiles
    /\ at[t] = "idle" => job[t] = Idle

Jobs == DOMAIN job = Threads /\ \A t \in Threads : JobOK(t)

\* Events are numbered as they come, and every thread that is about to create
\* one has room for it.
Numbered ==
    /\ Created = 1..Last
    /\ IsFiniteSet(Creating)
    /\ Last + Cardinality(Creating) <= MaxEvents

\* The cached snapshot and its row tell the same day.
SameDay ==
    snap # NoSnap => /\ snapDb # NoSnap
                     /\ snapDb.start = snap.start
                     /\ snapDb.base = snap.base
                     /\ snapDb.day = snap.day

Typed == TypeOK /\ Jobs /\ Numbered /\ SameDay

\* Locks set for losses at most at the day's start do not move the baseline up.
BaseBelow ==
    snapDb # NoSnap /\ LossesOnly(snapDb) => Base(snapDb) <= snapDb.start

\* The cached event, and the one a thread holds, by what the thread is doing.
Flow(t) ==
    /\ at[t] \in {"expire", "rebase", "limits", "create", "publish"} => cached = NoEvent
    /\ at[t] = "clear" => /\ cached = job[t].event
                          /\ over[cached] \/ cached \in waived
    /\ at[t] = "publish" => rows[job[t].event].status = "active"

Flows ==
    /\ cached # NoEvent => rows[cached].status = "active"
    /\ \A t \in Threads : Flow(t)

\* Until a write fails, the one active row is the cached one or the one the
\* thread is about to expire or to publish.
Held(t) ==
    /\ at[t] \in {"idle", "outer", "inner", "clear"} => Active \subseteq {cached}
    /\ at[t] \in {"expire", "publish"} => Active \subseteq {job[t].event}
    /\ at[t] \in {"rebase", "limits", "create"} => Active = {}

HeldInv == Spared({"db"}) => \A t \in Threads : Held(t)

\* The last event is the one in the cache or in hand.
Latest(t) ==
    /\ cached # NoEvent => cached = Last
    /\ at[t] \in {"clear", "expire", "rebase", "publish"} => job[t].event = Last

\* The last event has not moved the baseline yet.
Pending(t) == cached = Last \/ at[t] \in {"expire", "rebase", "publish"}

\* Rows are of the snapshot's day or earlier.  Once the last one is cleared, a
\* gain of the day is measured from the balance it locked in.
GainFrom(t) ==
    /\ Created # {} => snap # NoSnap
    /\ \A e \in Created : rows[e].day <= snap.day
    /\ at[t] = "create" => snap # NoSnap /\ job[t].day = snap.day
    /\ Last # 0 /\ rows[Last].kind = "profit" /\ rows[Last].day = snap.day =>
           Pending(t) \/ snap.base = rows[Last].balance
    /\ at[t] = "create" /\ job[t].kind = "profit" /\ Last # 0
           /\ rows[Last].kind = "profit" /\ rows[Last].day = job[t].day =>
           job[t].balance * 100 >= rows[Last].balance * (100 + ProfitPct)

\* Two profit locks of one day, the second on a further ProfitPct.
Further(a, b) ==
    a.kind = "profit" /\ b.kind = "profit" /\ a.day = b.day =>
        b.balance * 100 >= a.balance * (100 + ProfitPct)

Gains ==
    /\ \A t \in Threads : Latest(t) /\ GainFrom(t)
    /\ \A e \in Created : e + 1 \in Created => Further(rows[e], rows[e + 1])

GainInv == Spared({"crash", "db"}) => Gains

-----------------------------------------------------------------------------
(* Typing.                                                                 *)

\* What a fault adds to the history.
LEMMA StrikeTyped ==
    ASSUME TypeOK, NEW f, Strike(f)
    PROVE  /\ struck' \in [count : Nat, kinds : SUBSET AllFaults]
           /\ struck.kinds \subseteq struck'.kinds /\ f \in struck'.kinds
           /\ struck' # struck
  BY PnlBreakerAssumption DEF TypeOK, Strike

\* An event that exists is a row.
LEMMA RowTyped ==
    ASSUME TypeOK, NEW e \in Events, rows[e] # NoRow
    PROVE  rows[e] \in Row /\ e \in Created
  BY DEF TypeOK, Created

\* The baseline a clearing moves to.
LEMMA NewBaseTyped ==
    ASSUME TypeOK, snap # NoSnap, NEW e \in Events, rows[e] # NoRow
    PROVE  NewBase(e) \in Nat
<1>1. rows[e].balance \in Nat /\ Base(snap) \in Nat
  BY RowTyped, PnlBreakerAssumption DEF Row, Base, TypeOK, Snap
<1> DEFINE s == Base(snap) + rows[e].balance
<1>2. s \in Nat
  BY <1>1
<1>3. s \div 2 \in Nat
  BY <1>2
<1> QED BY <1>1, <1>3 DEF NewBase

LEMMA WalletTyped ==
    ASSUME TypeOK
    PROVE  /\ \A p \in Profiles : value[Wallet(p)] \in Values
           /\ Canonical \in Profiles
  BY PnlBreakerAssumption DEF TypeOK, Wallets, Canonical

LEMMA NewSnapTyped ==
    ASSUME TypeOK, NEW v \in Values
    PROVE  NewSnap(v) \in Snap /\ NewSnap(v) # NoSnap
  BY PnlBreakerAssumption DEF TypeOK, NewSnap, Snap, NoSnap

\* A higher high-water mark.
Marked(s, h) ==
    LET r == [s EXCEPT !.high = Higher(@, h)]
    IN /\ r \in Snap /\ r # NoSnap
       /\ r.start = s.start /\ r.base = s.base /\ r.day = s.day

LEMMA HighTyped == \A s \in Snap, h \in Nat : Marked(s, h)
  BY DEF Snap, Higher, NoSnap, Marked

Moved(s, r, e) ==
    /\ r \in Snap /\ r # NoSnap
    /\ r.start = s.start /\ r.base = NewBase(e) /\ r.day = s.day

LEMMA RebasedTyped ==
    ASSUME TypeOK, snap # NoSnap, NEW e \in Events, rows[e] # NoRow,
           NEW s \in Snap, NEW raise
    PROVE  Moved(s, Rebased(s, e, raise), e)
<1>1. NewBase(e) \in Nat
  BY NewBaseTyped
<1> QED BY <1>1 DEF Snap, Higher, NoSnap, Rebased, Moved

\* While no event is created, it is enough that no thread joins the others.
LEMMA StillNumbered ==
    ASSUME Numbered, Created' = Created, Creating' \subseteq Creating
    PROVE  Numbered'
<1>1. Last' = Last
  BY DEF Last
<1>2. IsFiniteSet(Creating') /\ Cardinality(Creating') <= Cardinality(Creating)
  BY FS_Subset DEF Numbered
<1>3. Last \in Nat /\ Cardinality(Creating) \in Nat /\ Cardinality(Creating') \in Nat
  <2>1. IsFiniteSet(1..MaxEvents) /\ Created \subseteq 1..MaxEvents
    BY FS_Interval, PnlBreakerAssumption DEF Created, Events
  <2> QED BY <2>1, <1>2, FS_Subset, FS_CardinalityType DEF Numbered, Last
<1>4. MaxEvents \in Nat
  BY PnlBreakerAssumption
<1> QED BY <1>1, <1>2, <1>3, <1>4 DEF Numbered

LEMMA LastTyped == ASSUME Numbered PROVE Last \in Nat /\ Created \subseteq Events
<1>1. IsFiniteSet(1..MaxEvents) /\ Created \subseteq 1..MaxEvents
  BY FS_Interval, PnlBreakerAssumption DEF Created, Events
<1> QED BY <1>1, FS_Subset, FS_CardinalityType DEF Numbered, Last, Events

\* The event a thread creates gets the next number.
LEMMA NextNumber ==
    ASSUME TypeOK, Jobs, Numbered, NEW t \in Threads, Create(t)
    PROVE  /\ Numbered'
           /\ Last + 1 \in Events /\ Last' = Last + 1
           /\ Created' = Created \cup {Last + 1}
<1> DEFINE others == Creating \ {t}
<1>1. Last \in Nat /\ MaxEvents \in Nat
  BY LastTyped, PnlBreakerAssumption
<1>2. Creating' = others /\ t \in Creating
  BY DEF Create, Creating, TypeOK, Go
<1>3. /\ IsFiniteSet(others) /\ Cardinality(others) = Cardinality(Creating) - 1
      /\ Cardinality(others) \in Nat
  BY <1>2, FS_RemoveElement, FS_CardinalityType DEF Numbered
<1>4. Cardinality(Creating) \in Nat
  BY FS_CardinalityType DEF Numbered
<1>5. Last + 1 \in Events
  BY <1>1, <1>3, <1>4 DEF Numbered, Events
<1>6. Created' = Created \cup {Last + 1}
  BY <1>5 DEF Create, Created, Last, TypeOK, NoRow
<1>7. Created' = 1..(Last + 1)
  BY <1>1, <1>6 DEF Numbered
<1>8. Last' = Last + 1
  BY <1>1, <1>7, FS_Interval DEF Last
<1> QED BY <1>1, <1>2, <1>3, <1>4, <1>5, <1>6, <1>7, <1>8 DEF Numbered

\* The monitoring loop takes the balance v.
Fresh == snap = NoSnap \/ (snap # NoSnap /\ day > snap.day)
Taken(v) ==
    IF Fresh THEN snap' = NewSnap(v) /\ snapDb' = NewSnap(v)
    ELSE /\ snap' = [snap EXCEPT !.high = Higher(@, v)]
         /\ snapDb' = [snapDb EXCEPT !.high = Higher(@, v)]

LEMMA TakenTyped ==
    ASSUME TypeOK, SameDay, NEW v \in Values, Taken(v)
    PROVE  /\ snap' \in Snap /\ snapDb' \in Snap /\ SameDay'
           /\ Fresh => snap' = NewSnap(v)
           /\ ~Fresh => /\ snap'.start = snap.start /\ snap'.base = snap.base
                         /\ snap'.day = snap.day
<1>0. v \in Nat
  BY PnlBreakerAssumption
<1>1. CASE Fresh
  BY <1>1, NewSnapTyped DEF Taken, SameDay
<1>2. CASE ~Fresh
  <2>1. snap \in Snap /\ snapDb \in Snap
    BY <1>2 DEF Fresh, TypeOK, SameDay
  <2>2. Marked(snap, v) /\ Marked(snapDb, v)
    BY <1>0, <2>1, HighTyped
  <2>3. /\ snap' \in Snap /\ snap' # NoSnap
        /\ snap'.start = snap.start /\ snap'.base = snap.base /\ snap'.day = snap.day
    BY <1>2, <2>2 DEF Taken, Marked
  <2>4. /\ snapDb' \in Snap /\ snapDb' # NoSnap
        /\ snapDb'.start = snapDb.start /\ snapDb'.base = snapDb.base
        /\ snapDb'.day = snapDb.day
    BY <1>2, <2>2 DEF Taken, Marked
  <2>5. snap # NoSnap
    BY <1>2 DEF Fresh
  <2> QED BY <1>2, <2>3, <2>4, <2>5 DEF SameDay
<1> QED BY <1>1, <1>2

\* A start or a reload finds an active row, if the key has one.
LEMMA Loaded ==
    ASSUME TypeOK, LoadState
    PROVE  /\ cached' \in Active \cup {NoEvent}
           /\ cached' \in Events \cup {NoEvent}
           /\ cached' # NoEvent => rows[cached'] # NoRow
           /\ ~Standalone /\ Active # {} => cached' \in Active
  BY DEF LoadState, Active, NoRow

LEMMA TypedInit == Init => Typed
<1> SUFFICES ASSUME Init PROVE Typed
  OBVIOUS
<1>1. TypeOK
  BY PnlBreakerAssumption DEF Init, TypeOK, Steps, AllFaults
<1>2. Jobs
  BY DEF Init, Jobs, JobOK, Idle, Visits
<1>3. Created = {} /\ Creating = {}
  BY DEF Init, Created, Creating
<1>4. Numbered
  BY <1>3, FS_EmptySet, PnlBreakerAssumption DEF Numbered, Last
<1> QED BY <1>1, <1>2, <1>4 DEF Typed, SameDay, Init

LEMMA TypedStep == ASSUME Typed PROVE [Next]_vars => Typed'
<1>0. TypeOK /\ Jobs /\ Numbered /\ SameDay
  BY DEF Typed
<1> USE <1>0 DEF Typed
<1>1. ASSUME NEW t \in Threads, NEW p \in Profiles, BeginCheck(t, p) PROVE Typed'
  <2>1. TypeOK'
    BY <1>1, StrikeTyped, PnlBreakerAssumption
          DEF BeginCheck, TypeOK, Go, Done, world, Steps, Jobs, JobOK, Visits, Idle
  <2>2. Jobs'
    BY <1>1 DEF BeginCheck, TypeOK, Jobs, JobOK, Visits, Idle, Go, Done, world
  <2>3. Created' = Created /\ Creating' \subseteq Creating
    BY <1>1 DEF BeginCheck, Created, Creating, TypeOK, Go, Done, world
  <2> QED BY <1>1, <2>1, <2>2, <2>3, StillNumbered DEF SameDay, BeginCheck
<1>2. ASSUME NEW t \in Threads, Blocked(t) PROVE Typed'
  <2>1. TypeOK'
    BY <1>2, StrikeTyped, PnlBreakerAssumption
          DEF Blocked, TypeOK, Go, Done, world, Steps, Jobs, JobOK, Visits, Idle
  <2>2. Jobs'
    BY <1>2 DEF Blocked, TypeOK, Jobs, JobOK, Visits, Idle, Go, Done, world
  <2>3. Created' = Created /\ Creating' \subseteq Creating
    BY <1>2 DEF Blocked, Created, Creating, TypeOK, Go, Done, world
  <2> QED BY <1>2, <2>1, <2>2, <2>3, StillNumbered DEF SameDay, Blocked
<1>3. ASSUME NEW t \in Threads, NotLocked(t) PROVE Typed'
  <2>1. TypeOK'
    BY <1>3, StrikeTyped, PnlBreakerAssumption
          DEF NotLocked, TypeOK, Go, Done, world, Steps, Jobs, JobOK, Visits, Idle
  <2>2. Jobs'
    BY <1>3 DEF NotLocked, TypeOK, Jobs, JobOK, Visits, Idle, Go, Done, world
  <2>3. Created' = Created /\ Creating' \subseteq Creating
    BY <1>3 DEF NotLocked, Created, Creating, TypeOK, Go, Done, world
  <2> QED BY <1>3, <2>1, <2>2, <2>3, StillNumbered DEF SameDay, NotLocked
<1>4. ASSUME NEW t \in Threads, SeeExpired(t) PROVE Typed'
  <2>1. TypeOK'
    BY <1>4, StrikeTyped, PnlBreakerAssumption
          DEF SeeExpired, TypeOK, Go, Done, world, Steps, Jobs, JobOK, Visits, Idle
  <2>2. Jobs'
    <3>1. job[t] \in Visits /\ job[t].profile \in Profiles /\ cached \in Events
      BY <1>4 DEF SeeExpired, TypeOK, Jobs, JobOK
    <3>2. /\ at' = [at EXCEPT ![t] = "clear"]
          /\ \E x \in {"inner", "limits"} :
                job' = [job EXCEPT ![t].event = cached, ![t].then = x]
      BY <1>4 DEF SeeExpired, Go
    <3>3. job'[t] \in Visits /\ job'[t].profile \in Profiles
      <4>1. PICK x \in {"inner", "limits"} :
                job' = [job EXCEPT ![t].event = cached, ![t].then = x]
        BY <3>2
      <4>2. job'[t] = [job[t] EXCEPT !.event = cached, !.then = x]
        BY <4>1 DEF Jobs
      <4>3. job'[t] = [profile |-> job[t].profile, event |-> cached, then |-> x]
        BY <3>1, <4>2 DEF Visits
      <4> QED BY <3>1, <4>1, <4>3 DEF Visits
    <3> QED BY <3>2, <3>3 DEF TypeOK, Jobs, JobOK
  <2>3. Created' = Created /\ Creating' \subseteq Creating
    BY <1>4 DEF SeeExpired, Created, Creating, TypeOK, Go, Done, world
  <2> QED BY <1>4, <2>1, <2>2, <2>3, StillNumbered DEF SameDay, SeeExpired
<1>5. ASSUME NEW t \in Threads, Clear(t) PROVE Typed'
  <2>1. TypeOK'
    BY <1>5, StrikeTyped, PnlBreakerAssumption
          DEF Clear, TypeOK, Go, Done, world, Steps, Jobs, JobOK, Visits, Idle
  <2>2. Jobs'
    BY <1>5 DEF Clear, TypeOK, Jobs, JobOK, Visits, Idle, Go, Done, world
  <2>3. Created' = Created /\ Creating' \subseteq Creating
    BY <1>5 DEF Clear, Created, Creating, TypeOK, Go, Done, world
  <2> QED BY <1>5, <2>1, <2>2, <2>3, StillNumbered DEF SameDay, Clear
<1>6. ASSUME NEW t \in Threads, Expire(t) PROVE Typed'
  <2>1. TypeOK'
    BY <1>6, StrikeTyped, PnlBreakerAssumption
          DEF Expire, TypeOK, Go, Done, world, Steps, Jobs, JobOK, Visits, Idle, Row, NoRow
  <2>2. Jobs'
    BY <1>6 DEF Expire, TypeOK, Jobs, JobOK, Visits, Idle, Go, Done, world
  <2>3. Created' = Created /\ Creating' \subseteq Creating
    BY <1>6 DEF Expire, Created, Creating, TypeOK, Go, Done, world, Row, NoRow
  <2> QED BY <1>6, <2>1, <2>2, <2>3, StillNumbered DEF SameDay, Expire
<1>7. ASSUME NEW t \in Threads, Rebase(t) PROVE Typed'
  <2>1. /\ job[t].event \in Events /\ rows[job[t].event] # NoRow
        /\ job[t] \in Visits
    BY <1>7 DEF Rebase, TypeOK, Jobs, JobOK
  <2>2. /\ snap' \in Snap \cup {NoSnap} /\ snapDb' \in Snap \cup {NoSnap}
        /\ SameDay'
    <3>1. CASE snap = NoSnap
      BY <1>7, <3>1 DEF Rebase, TypeOK, SameDay
    <3>2. CASE snap # NoSnap
      <4>1. snap \in Snap /\ snapDb \in Snap
        BY <3>2 DEF TypeOK, SameDay
      <4>2. /\ Moved(snap, snap', job[t].event)
            /\ Moved(snapDb, snapDb', job[t].event)
        BY <1>7, <2>1, <3>2, <4>1, RebasedTyped DEF Rebase
      <4> QED BY <3>2, <4>2 DEF SameDay, Moved
    <3> QED BY <3>1, <3>2
  <2>3. at' = [at EXCEPT ![t] = job[t].then] /\ job[t].then \in {"idle", "inner", "limits"}
    BY <1>7, <2>1 DEF Rebase, Go, Visits
  <2>4. TypeOK'
    BY <1>7, <2>2, <2>3 DEF Rebase, TypeOK, world, Steps
  <2>5. Jobs'
    BY <1>7, <2>1, <2>3 DEF Rebase, TypeOK, Jobs, JobOK, Visits, Idle
  <2>6. Created' = Created /\ Creating' \subseteq Creating
    BY <1>7, <2>3 DEF Rebase, Created, Creating, TypeOK
  <2> QED BY <2>2, <2>4, <2>5, <2>6, StillNumbered
<1>8. ASSUME NEW t \in Threads, NoLimit(t) PROVE Typed'
  <2>1. Worth(t) \in Nat
    BY <1>8, WalletTyped, PnlBreakerAssumption DEF NoLimit, Worth, Jobs, JobOK
  <2>2. snap' \in Snap \cup {NoSnap} /\ SameDay'
    <3>1. snap \in Snap => Marked(snap, Worth(t))
      BY <2>1, HighTyped
    <3> QED BY <1>8, <3>1 DEF NoLimit, Looked, TypeOK, SameDay, Marked
  <2>3. TypeOK'
    BY <1>8, <2>2 DEF NoLimit, TypeOK, Done, Go, world, Steps
  <2>4. Jobs'
    BY <1>8 DEF NoLimit, TypeOK, Jobs, JobOK, Visits, Idle, Go, Done
  <2>5. Created' = Created /\ Creating' \subseteq Creating
    BY <1>8 DEF NoLimit, Created, Creating, TypeOK, Go, Done
  <2> QED BY <2>2, <2>3, <2>4, <2>5, StillNumbered
<1>9. ASSUME NEW t \in Threads, NEW kind \in {"profit", "loss"}, LimitHit(t, kind)
      PROVE Typed'
  <2>1. Worth(t) \in Values /\ Worth(t) \in Nat
    BY <1>9, WalletTyped, PnlBreakerAssumption DEF LimitHit, Worth, Jobs, JobOK
  <2>2. snap' \in Snap /\ SameDay'
    <3>1. snap \in Snap => Marked(snap, Worth(t))
      BY <2>1, HighTyped
    <3> QED BY <1>9, <3>1 DEF LimitHit, Looked, TypeOK, SameDay, Marked
  <2>3. TypeOK'
    BY <1>9, <2>2 DEF LimitHit, TypeOK, Go, world, Steps
  <2>4. Jobs'
    <3>1. job[t].profile \in Profiles /\ snap.day \in 0..LastDay
      BY <1>9 DEF LimitHit, Jobs, JobOK, TypeOK, Snap
    <3>2. job'[t] \in Orders
      BY <1>9, <2>1, <3>1 DEF LimitHit, Jobs, Orders
    <3> QED BY <1>9, <3>2 DEF LimitHit, Go, TypeOK, Jobs, JobOK
  <2>5. Numbered'
    <3>1. Created' = Created /\ Creating' = Creating \cup {t} /\ t \notin Creating
      BY <1>9 DEF LimitHit, Created, Creating, TypeOK, Go
    <3>2. IsFiniteSet(Creating') /\ Cardinality(Creating') = Cardinality(Creating) + 1
      BY <3>1, FS_AddElement DEF Numbered
    <3>3. Last \in Nat /\ Cardinality(Creating) \in Nat
      BY LastTyped, FS_CardinalityType DEF Numbered
    <3> QED BY <1>9, <3>1, <3>2, <3>3, PnlBreakerAssumption
          DEF Numbered, Last, LimitHit, HasRoom
  <2> QED BY <2>2, <2>3, <2>4, <2>5
<1>10. ASSUME NEW t \in Threads, Create(t) PROVE Typed'
  <2>1. Numbered' /\ Last + 1 \in Events /\ Last' = Last + 1
    BY <1>10, NextNumber
  <2>2. job[t] \in Orders
    BY <1>10 DEF Create, Jobs, JobOK
  <2>3. rows' \in [Events -> Row \cup {NoRow}] /\ rows'[Last + 1] \in Row
        /\ \A e \in Events : e # Last + 1 => rows'[e] = rows[e]
    BY <1>10, <2>1, <2>2 DEF Create, TypeOK, Orders, Row, Last
  <2>4. job' = [job EXCEPT ![t] = [Idle EXCEPT !.event = Last + 1]]
        /\ at' = [at EXCEPT ![t] = "publish"]
    BY <1>10 DEF Create, Go, Last
  <2>5. \A e \in Events : rows[e] # NoRow => rows'[e] # NoRow
    BY <2>3 DEF Row, NoRow
  <2>6. TypeOK'
    BY <1>10, <2>1, <2>2, <2>3, <2>4, <2>5
          DEF Create, TypeOK, world, Steps, Idle, Jobs, Row, NoRow
  <2>7. Jobs'
    BY <2>1, <2>4 DEF TypeOK, Jobs, JobOK, Visits, Idle
  <2> QED BY <1>10, <2>1, <2>6, <2>7 DEF Create, SameDay
<1>11. ASSUME NEW t \in Threads, Publish(t) PROVE Typed'
  <2>1. TypeOK'
    BY <1>11, StrikeTyped, PnlBreakerAssumption
          DEF Publish, TypeOK, Go, Done, world, Steps, Jobs, JobOK, Visits, Idle
  <2>2. Jobs'
    BY <1>11 DEF Publish, TypeOK, Jobs, JobOK, Visits, Idle, Go, Done, world
  <2>3. Created' = Created /\ Creating' \subseteq Creating
    BY <1>11 DEF Publish, Created, Creating, TypeOK, Go, Done, world
  <2> QED BY <1>11, <2>1, <2>2, <2>3, StillNumbered DEF SameDay, Publish
<1>12. ASSUME NEW t \in Threads, ForceReset(t) PROVE Typed'
  <2>1. TypeOK'
    BY <1>12, StrikeTyped, PnlBreakerAssumption
          DEF ForceReset, TypeOK, Go, Done, world, Steps, Jobs, JobOK, Visits, Idle
  <2>2. Jobs'
    BY <1>12 DEF ForceReset, TypeOK, Jobs, JobOK, Visits, Idle, Go, Done, world
  <2>3. Created' = Created /\ Creating' \subseteq Creating
    BY <1>12 DEF ForceReset, Created, Creating, TypeOK, Go, Done, world
  <2> QED BY <1>12, <2>1, <2>2, <2>3, StillNumbered DEF SameDay, ForceReset
<1>13. ASSUME NEW t \in Threads, ValueMissing(t) PROVE Typed'
  <2>1. TypeOK'
    BY <1>13, StrikeTyped, PnlBreakerAssumption
          DEF ValueMissing, TypeOK, Go, Done, world, Steps, Jobs, JobOK, Visits, Idle
  <2>2. Jobs'
    BY <1>13 DEF ValueMissing, TypeOK, Jobs, JobOK, Visits, Idle, Go, Done, world
  <2>3. Created' = Created /\ Creating' \subseteq Creating
    BY <1>13 DEF ValueMissing, Created, Creating, TypeOK, Go, Done, world
  <2> QED BY <1>13, <2>1, <2>2, <2>3, StillNumbered DEF SameDay, ValueMissing
<1>14. ASSUME NEW t \in Threads, CommitFails(t) PROVE Typed'
  <2>1. TypeOK'
    BY <1>14, StrikeTyped, PnlBreakerAssumption
          DEF CommitFails, TypeOK, Go, Done, world, Steps, Jobs, JobOK, Visits, Idle
  <2>2. Jobs'
    BY <1>14 DEF CommitFails, TypeOK, Jobs, JobOK, Visits, Idle, Go, Done, world
  <2>3. Created' = Created /\ Creating' \subseteq Creating
    BY <1>14 DEF CommitFails, Created, Creating, TypeOK, Go, Done, world
  <2> QED BY <1>14, <2>1, <2>2, <2>3, StillNumbered DEF SameDay, CommitFails
<1>15. ASSUME NEW t \in Threads, UpdateSnapshot(t) PROVE Typed'
  <2>1. Taken(value[Wallet(Canonical)])
    BY <1>15 DEF UpdateSnapshot, Taken, Fresh
  <2>2. value[Wallet(Canonical)] \in Values /\ value[Wallet(Canonical)] \in Nat
    BY WalletTyped, PnlBreakerAssumption
  <2>3. snap' \in Snap /\ snapDb' \in Snap /\ SameDay'
    BY <2>1, <2>2, TakenTyped
  <2>4. TypeOK'
    BY <1>15, <2>3 DEF UpdateSnapshot, TypeOK, world
  <2>5. Jobs' /\ Created' = Created /\ Creating' = Creating
    BY <1>15 DEF UpdateSnapshot, Jobs, JobOK, Created, Creating
  <2> QED BY <2>3, <2>4, <2>5, StillNumbered
<1>16. ASSUME NEW t \in Threads, FullReload(t) PROVE Typed'
  <2>1. cached' \in Events \cup {NoEvent} /\ (cached' # NoEvent => rows[cached'] # NoRow)
    BY <1>16, Loaded DEF FullReload
  <2>2. snap' \in Snap \cup {NoSnap} /\ snapDb' = snapDb /\ SameDay'
    BY <1>16 DEF FullReload, LoadState, TypeOK, SameDay
  <2>3. TypeOK'
    BY <1>16, <2>1, <2>2 DEF FullReload, TypeOK, world
  <2>4. Jobs' /\ Created' = Created /\ Creating' = Creating
    BY <1>16 DEF FullReload, Jobs, JobOK, Created, Creating
  <2> QED BY <2>2, <2>3, <2>4, StillNumbered
<1>17. ASSUME NEW w \in Wallets, MarketMoves(w) PROVE Typed'
  <2>1. TypeOK'
    BY <1>17, PnlBreakerAssumption DEF MarketMoves, TypeOK
  <2>2. Jobs' /\ Created' = Created /\ Creating' = Creating
    BY <1>17 DEF MarketMoves, Jobs, JobOK, Created, Creating
  <2> QED BY <1>17, <2>1, <2>2, StillNumbered DEF SameDay, MarketMoves
<1>18. ASSUME NEW e \in Events, LockRunsOut(e) PROVE Typed'
  <2>1. TypeOK'
    BY <1>18, PnlBreakerAssumption DEF LockRunsOut, TypeOK
  <2>2. Jobs' /\ Created' = Created /\ Creating' = Creating
    BY <1>18 DEF LockRunsOut, Jobs, JobOK, Created, Creating
  <2> QED BY <1>18, <2>1, <2>2, StillNumbered DEF SameDay, LockRunsOut
<1>19. CASE Midnight
  <2>1. TypeOK'
    BY <1>19, PnlBreakerAssumption DEF Midnight, TypeOK
  <2>2. Jobs' /\ Created' = Created /\ Creating' = Creating
    BY <1>19 DEF Midnight, Jobs, JobOK, Created, Creating
  <2> QED BY <1>19, <2>1, <2>2, StillNumbered DEF SameDay, Midnight
<1>20. CASE Restart
  <2>1. cached' \in Events \cup {NoEvent} /\ (cached' # NoEvent => rows[cached'] # NoRow)
    BY <1>20, Loaded DEF Restart
  <2>2. snap' \in Snap \cup {NoSnap} /\ snapDb' = snapDb /\ SameDay'
    BY <1>20 DEF Restart, LoadState, TypeOK, SameDay
  <2>3. TypeOK'
    BY <1>20, <2>1, <2>2, StrikeTyped DEF Restart, TypeOK, world, Steps
  <2>4. Jobs' /\ Created' = Created /\ Creating' \subseteq Creating
    BY <1>20 DEF Restart, Jobs, JobOK, Created, Creating, Idle, Visits
  <2> QED BY <2>2, <2>3, <2>4, StillNumbered
<1>21. CASE UNCHANGED vars
  BY <1>21 DEF vars, world, TypeOK, Jobs, JobOK, Numbered, Last, Created, Creating, SameDay
<1> QED
  BY <1>1, <1>2, <1>3, <1>4, <1>5, <1>6, <1>7, <1>8, <1>9, <1>10, <1>11, <1>12, <1>13,
        <1>14, <1>15, <1>16, <1>17, <1>18, <1>19, <1>20, <1>21 DEF Next, Check, World

\* Faults add up: what has been spared after a step was spared before it.
LEMMA SparedBefore ==
    ASSUME Typed, [Next]_vars, NEW K, Spared(K)'
    PROVE  Spared(K)
<1>1. struck' = struck \/ \E f \in AllFaults : Strike(f)
  BY DEF Next, Check, World, vars, BeginCheck, Blocked, NotLocked, SeeExpired, Clear,
         Expire, Rebase, NoLimit, LimitHit, Create, Publish, ForceReset, ValueMissing,
         CommitFails, UpdateSnapshot, FullReload, MarketMoves, LockRunsOut, Midnight,
         Restart, AllFaults
<1>2. struck.kinds \subseteq struck'.kinds
  BY <1>1, StrikeTyped DEF Typed
<1> QED BY <1>2 DEF Spared

-----------------------------------------------------------------------------
(* The daily cap.                                                          *)

\* Locks set below the start are no higher once the row is expired, and the
\* ones before the last are among all of them.
LEMMA LossesBefore ==
    ASSUME TypeOK, Jobs, Numbered, UNCHANGED snapDb,
           UNCHANGED rows \/ \E t \in Threads : Expire(t) \/ Create(t),
           LossesOnly(snapDb)'
    PROVE  LossesOnly(snapDb)
<1>1. CASE UNCHANGED rows
  BY <1>1 DEF LossesOnly, Created
<1>2. ASSUME NEW t \in Threads, Expire(t) PROVE LossesOnly(snapDb)
  <2>1. \A e \in Events : rows[e] # NoRow =>
            /\ rows'[e] # NoRow /\ rows'[e].kind = rows[e].kind
            /\ rows'[e].day = rows[e].day /\ rows'[e].balance = rows[e].balance
    BY <1>2 DEF Expire, TypeOK, Row, NoRow
  <2> QED BY <2>1 DEF LossesOnly, Created
<1>3. ASSUME NEW t \in Threads, Create(t) PROVE LossesOnly(snapDb)
  <2>1. \A e \in Events : rows[e] # NoRow => rows'[e] = rows[e]
    <3>1. Last + 1 \in Events /\ Last + 1 \notin Created
      BY <1>3, NextNumber, LastTyped DEF Numbered
    <3> QED BY <1>3, <3>1 DEF Create, TypeOK, Created, Last
  <2> QED BY <2>1 DEF LossesOnly, Created
<1> QED BY <1>1, <1>2, <1>3

\* A clearing moves the baseline half way to a balance at most at the start.
LEMMA RebaseBelow ==
    ASSUME Typed, BaseBelow, NEW t \in Threads, Rebase(t)
    PROVE  BaseBelow'
<1>0. TypeOK /\ SameDay
  BY DEF Typed
<1>1. CASE snap = NoSnap
  BY <1>1 DEF Rebase, BaseBelow, LossesOnly, Created, Base
<1>2. CASE snap # NoSnap
  <2> DEFINE e == job[t].event
  <2>1. e \in Events /\ rows[e] # NoRow /\ e \in Created
    BY <1>0 DEF Rebase, TypeOK, Created
  <2>2. snap \in Snap /\ snapDb \in Snap
    BY <1>0, <1>2 DEF TypeOK, SameDay
  <2>3. Moved(snapDb, snapDb', e)
    BY <1>0, <1>2, <2>1, <2>2, RebasedTyped DEF Rebase
  <2>4. SUFFICES ASSUME LossesOnly(snapDb)'
                 PROVE  Base(snapDb)' <= snapDb'.start
    BY DEF BaseBelow
  <2>5. LossesOnly(snapDb)
    BY <2>3, <2>4 DEF LossesOnly, Rebase, Created, Moved
  <2>6. Base(snapDb) <= snapDb.start /\ Base(snapDb) = Base(snap)
    BY <1>0, <1>2, <2>5 DEF BaseBelow, SameDay, Base
  <2>7. rows[e].kind = "loss" /\ rows[e].balance <= snapDb.start
    BY <2>1, <2>5 DEF LossesOnly
  <2>8. rows[e].balance \in Nat /\ snapDb.start \in Nat /\ Base(snap) \in Nat
    BY <1>0, <2>1, <2>2, RowTyped, PnlBreakerAssumption DEF Row, Snap, Base
  <2>9. NewBase(e) <= snapDb.start
    BY <2>6, <2>7, <2>8 DEF NewBase
  <2> QED BY <2>3, <2>8, <2>9 DEF Base, Moved
<1> QED BY <1>1, <1>2

LEMMA BaseBelowStep == ASSUME Typed, BaseBelow PROVE [Next]_vars => BaseBelow'
<1>1. ASSUME NEW t \in Threads, Rebase(t) PROVE BaseBelow'
  BY <1>1, RebaseBelow
<1>2. ASSUME NEW t \in Threads, UpdateSnapshot(t) PROVE BaseBelow'
  <2> DEFINE v == value[Wallet(Canonical)]
  <2>1. v \in Nat /\ v \in Values
    BY WalletTyped, PnlBreakerAssumption DEF Typed
  <2>2. CASE Fresh
    BY <1>2, <2>1, <2>2 DEF UpdateSnapshot, Fresh, NewSnap, BaseBelow, Base
  <2>3. CASE ~Fresh
    <3>1. snapDb \in Snap /\ snapDb' = [snapDb EXCEPT !.high = Higher(@, v)]
      BY <1>2, <2>3 DEF UpdateSnapshot, Fresh, Typed, TypeOK, SameDay
    <3>2. snapDb # NoSnap /\ Marked(snapDb, v)
      BY <2>1, <2>3, <3>1, HighTyped DEF Typed, SameDay, Fresh
    <3>3. /\ snapDb'.start = snapDb.start /\ snapDb'.base = snapDb.base
          /\ snapDb'.day = snapDb.day
      BY <3>1, <3>2 DEF Marked
    <3> QED BY <1>2, <3>2, <3>3 DEF UpdateSnapshot, BaseBelow, LossesOnly, Created, Base
  <2> QED BY <2>2, <2>3
<1>3. ASSUME UNCHANGED snapDb, UNCHANGED rows \/ \E t \in Threads : Expire(t) \/ Create(t)
      PROVE BaseBelow'
  BY <1>3, LossesBefore DEF BaseBelow, Typed, Base
<1>4. ASSUME [Next]_vars
      PROVE  \/ \E t \in Threads : Rebase(t) \/ UpdateSnapshot(t)
             \/ /\ UNCHANGED snapDb
                /\ UNCHANGED rows \/ \E t \in Threads : Expire(t) \/ Create(t)
  <2> USE DEF vars, world
  <2>1. ASSUME NEW t \in Threads, Check(t) PROVE <1>4!2
    BY <2>1 DEF Check, BeginCheck, Blocked, NotLocked, SeeExpired, Clear,
         Expire, NoLimit, LimitHit, Create, Publish
  <2>2. ASSUME NEW t \in Threads,
               \/ ForceReset(t) \/ ValueMissing(t) \/ CommitFails(t)
               \/ UpdateSnapshot(t) \/ FullReload(t)
        PROVE <1>4!2
    BY <2>2 DEF ForceReset, ValueMissing, CommitFails, FullReload
  <2>3. ASSUME World PROVE <1>4!2
    BY <2>3 DEF World, MarketMoves, LockRunsOut, Midnight, Restart
  <2> QED BY <1>4, <2>1, <2>2, <2>3 DEF Next
<1> QED BY <1>1, <1>2, <1>3, <1>4

\* The gain from the baseline is no less than the one from a higher start.
LEMMA CapFromStart ==
    ASSUME NEW v \in Nat, NEW b \in Nat, NEW s \in Nat, b <= s,
           ~((v - b) * 100 >= ProfitPct * b)
    PROVE  v * 100 < s * (100 + ProfitPct)
<1>1. ProfitPct \in Nat
  BY PnlBreakerAssumption
<1>2. b * (100 + ProfitPct) <= s * (100 + ProfitPct)
  BY <1>1
<1>3. (v - b) * 100 < ProfitPct * b
  BY <1>1
<1> QED BY <1>1, <1>2, <1>3

LEMMA CapStep ==
    ASSUME Typed, BaseBelow, [Next]_vars, NEW t \in Threads,
           at[t] = "limits", at'[t] = "idle", struck' = struck,
           snap # NoSnap, HasRoom, LossesOnly(snap)
    PROVE  Worth(t) * 100 < snap.start * (100 + ProfitPct)
<1>0. TypeOK /\ Jobs /\ SameDay
  BY DEF Typed
<1>1. NoLimit(t)
  <2>1. ASSUME NEW x \in Threads, Check(x) PROVE NoLimit(t)
    BY <2>1, <1>0 DEF TypeOK, Check, BeginCheck, Blocked, NotLocked, SeeExpired, Clear,
         Expire, Rebase, NoLimit, LimitHit, Create, Publish, Go, Done
  <2>2. ASSUME NEW x \in Threads,
               \/ ForceReset(x) \/ ValueMissing(x) \/ CommitFails(x)
               \/ UpdateSnapshot(x) \/ FullReload(x)
        PROVE NoLimit(t)
    BY <2>2, <1>0, StrikeTyped DEF TypeOK, ForceReset, ValueMissing, CommitFails,
         UpdateSnapshot, FullReload, Go
  <2>3. ASSUME World PROVE NoLimit(t)
    BY <2>3, <1>0, StrikeTyped DEF World, MarketMoves, LockRunsOut, Midnight, Restart
  <2> QED BY <2>1, <2>2, <2>3 DEF Next, vars
<1>2. Worth(t) \in Nat
  BY <1>0, WalletTyped, PnlBreakerAssumption DEF Worth, Jobs, JobOK
<1>3. snap \in Snap /\ Marked(snap, Worth(t)) /\ snap.start \in Nat /\ Base(snap) \in Nat
  BY <1>0, <1>2, HighTyped, PnlBreakerAssumption DEF TypeOK, Snap, Base
<1>4. Base(snap') = Base(snap) /\ ~ProfitHit(snap', Worth(t))
  BY <1>1, <1>3 DEF NoLimit, Looked, Marked, Base
<1>5. Base(snap) <= snap.start
  BY <1>0 DEF BaseBelow, SameDay, LossesOnly, Base
<1> QED BY <1>2, <1>3, <1>4, <1>5, CapFromStart DEF ProfitHit


-----------------------------------------------------------------------------
(* One lock, and the thread that holds it.                                 *)

LEMMA OneThread ==
    ASSUME Alone, NEW t \in Threads, NEW x \in Threads
    PROVE  t = x
  BY DEF Alone

LEMMA FlowsInit == Init => Flows
  BY DEF Init, Flows, Flow

LEMMA FlowsStep == ASSUME Alone, Typed, Flows PROVE [Next]_vars => Flows'
<1>1. ASSUME NEW t \in Threads, NEW p \in Profiles, BeginCheck(t, p) PROVE Flows'
  BY <1>1, OneThread DEF BeginCheck, Flows, Flow, Go, Done, vars, world, Typed, TypeOK, Jobs
<1>2. ASSUME NEW t \in Threads, Blocked(t) PROVE Flows'
  BY <1>2, OneThread DEF Blocked, Flows, Flow, Go, Done, vars, world, Typed, TypeOK, Jobs
<1>3. ASSUME NEW t \in Threads, NotLocked(t) PROVE Flows'
  BY <1>3, OneThread DEF NotLocked, Flows, Flow, Go, Done, vars, world, Typed, TypeOK, Jobs
<1>4. ASSUME NEW t \in Threads, SeeExpired(t) PROVE Flows'
  BY <1>4, OneThread DEF SeeExpired, Flows, Flow, Go, Done, vars, world, Typed, TypeOK, Jobs
<1>5. ASSUME NEW t \in Threads, Clear(t) PROVE Flows'
  BY <1>5, OneThread DEF Clear, Flows, Flow, Go, Done, vars, world, Typed, TypeOK, Jobs
<1>6. ASSUME NEW t \in Threads, Expire(t) PROVE Flows'
  <2>1. cached = NoEvent /\ cached' = NoEvent /\ at'[t] = "rebase"
    BY <1>6 DEF Expire, Flows, Flow, Typed, TypeOK, Go, world
  <2> QED BY <2>1, OneThread DEF Flows, Flow
<1>7. ASSUME NEW t \in Threads, Rebase(t) PROVE Flows'
  <2>1. cached = NoEvent /\ cached' = NoEvent /\ job[t] \in Visits
    BY <1>7 DEF Rebase, Flows, Flow, Typed, Jobs, JobOK
  <2>2. at'[t] \in {"idle", "inner", "limits"}
    BY <1>7, <2>1 DEF Rebase, Visits, Go, Typed, TypeOK
  <2> QED BY <2>1, <2>2, OneThread DEF Flows, Flow
<1>8. ASSUME NEW t \in Threads, NoLimit(t) PROVE Flows'
  BY <1>8, OneThread DEF NoLimit, Flows, Flow, Go, Done, vars, world, Typed, TypeOK, Jobs
<1>9. ASSUME NEW t \in Threads, NEW kind \in {"profit", "loss"}, LimitHit(t, kind)
      PROVE Flows'
  BY <1>9, OneThread DEF LimitHit, Flows, Flow, Go, Done, vars, world, Typed, TypeOK, Jobs
<1>10. ASSUME NEW t \in Threads, Create(t) PROVE Flows'
  <2>1. cached = NoEvent /\ cached' = NoEvent
    BY <1>10 DEF Create, Flows, Flow
  <2>2. /\ at'[t] = "publish" /\ Last + 1 \in Events
        /\ job'[t].event = Last + 1 /\ rows'[Last + 1].status = "active"
    BY <1>10, NextNumber DEF Create, Typed, TypeOK, Jobs, Go, Idle, Last
  <2> QED BY <2>1, <2>2, OneThread DEF Flows, Flow
<1>11. ASSUME NEW t \in Threads, Publish(t) PROVE Flows'
  BY <1>11, OneThread DEF Publish, Flows, Flow, Go, Done, vars, world, Typed, TypeOK, Jobs
<1>12. ASSUME NEW t \in Threads, ForceReset(t) PROVE Flows'
  BY <1>12, OneThread
        DEF ForceReset, Flows, Flow, Go, Done, vars, world, Typed, TypeOK, Jobs
<1>13. ASSUME NEW t \in Threads, ValueMissing(t) PROVE Flows'
  BY <1>13, OneThread
        DEF ValueMissing, Flows, Flow, Go, Done, vars, world, Typed, TypeOK, Jobs
<1>14. ASSUME NEW t \in Threads, CommitFails(t) PROVE Flows'
  BY <1>14, OneThread
        DEF CommitFails, Flows, Flow, Go, Done, vars, world, Typed, TypeOK, Jobs
<1>15. ASSUME NEW t \in Threads, UpdateSnapshot(t) PROVE Flows'
  BY <1>15, OneThread
        DEF UpdateSnapshot, Flows, Flow, Go, Done, vars, world, Typed, TypeOK, Jobs
<1>16. ASSUME NEW t \in Threads, FullReload(t) PROVE Flows'
  <2>1. cached' # NoEvent => rows'[cached'].status = "active"
    BY <1>16, Loaded DEF FullReload, Typed, Active
  <2>2. \A x \in Threads : at'[x] = "idle"
    BY <1>16, OneThread DEF FullReload
  <2> QED BY <2>1, <2>2 DEF Flows, Flow
<1>17. ASSUME NEW w \in Wallets, MarketMoves(w) PROVE Flows'
  BY <1>17, OneThread
        DEF MarketMoves, Flows, Flow, Go, Done, vars, world, Typed, TypeOK, Jobs
<1>18. ASSUME NEW e \in Events, LockRunsOut(e) PROVE Flows'
  BY <1>18, OneThread
        DEF LockRunsOut, Flows, Flow, Go, Done, vars, world, Typed, TypeOK, Jobs
<1>19. CASE Midnight
  BY <1>19, OneThread DEF Midnight, Flows, Flow, Go, Done, vars, world, Typed, TypeOK, Jobs
<1>20. CASE Restart
  <2>1. cached' # NoEvent => rows'[cached'].status = "active"
    BY <1>20, Loaded DEF Restart, Typed, Active
  <2>2. \A x \in Threads : at'[x] = "idle"
    BY <1>20, OneThread DEF Restart
  <2> QED BY <2>1, <2>2 DEF Flows, Flow
<1>21. CASE UNCHANGED vars
  BY <1>21, OneThread DEF Flows, Flow, Go, Done, vars, world, Typed, TypeOK, Jobs
<1> QED
  BY <1>1, <1>2, <1>3, <1>4, <1>5, <1>6, <1>7, <1>8, <1>9, <1>10, <1>11, <1>12, <1>13,
        <1>14, <1>15, <1>16, <1>17, <1>18, <1>19, <1>20, <1>21 DEF Next, Check, World

LEMMA HeldInit == Init => HeldInv
  BY DEF Init, HeldInv, Held, Active, NoRow

LEMMA HeldStep == ASSUME Alone, Typed, Flows, HeldInv PROVE [Next]_vars => HeldInv'
<1> SUFFICES ASSUME [Next]_vars, Spared({"db"})' PROVE (\A t \in Threads : Held(t))'
  BY DEF HeldInv
<1>0. \A t \in Threads : Held(t) /\ Flow(t)
  BY SparedBefore DEF HeldInv, Flows
<1>1. ASSUME NEW t \in Threads, NEW p \in Profiles, BeginCheck(t, p)
      PROVE (\A x \in Threads : Held(x))'
  BY <1>0, <1>1, OneThread
        DEF BeginCheck, Held, Flow, Active, Go, Done, vars, world, Typed, TypeOK, Jobs,
              JobOK, Visits
<1>2. ASSUME NEW t \in Threads, Blocked(t) PROVE (\A x \in Threads : Held(x))'
  BY <1>0, <1>2, OneThread
        DEF Blocked, Held, Flow, Active, Go, Done, vars, world, Typed, TypeOK, Jobs, JobOK,
              Visits
<1>3. ASSUME NEW t \in Threads, NotLocked(t) PROVE (\A x \in Threads : Held(x))'
  <2>1. Active \subseteq {cached} /\ cached = NoEvent /\ Active' = Active /\ cached' = cached
    BY <1>0, <1>3 DEF NotLocked, Held, Active
  <2>2. Active = {}
    BY <2>1 DEF Active, Events, NoEvent
  <2>3. at'[t] \in {"idle", "inner", "limits"}
    BY <1>3 DEF NotLocked, Go, Done, Typed, TypeOK
  <2> QED BY <2>1, <2>2, <2>3, OneThread DEF Held
<1>4. ASSUME NEW t \in Threads, SeeExpired(t) PROVE (\A x \in Threads : Held(x))'
  BY <1>0, <1>4, OneThread
        DEF SeeExpired, Held, Flow, Active, Go, Done, vars, world, Typed, TypeOK, Jobs,
              JobOK, Visits
<1>5. ASSUME NEW t \in Threads, Clear(t) PROVE (\A x \in Threads : Held(x))'
  BY <1>0, <1>5, OneThread
        DEF Clear, Held, Flow, Active, Go, Done, vars, world, Typed, TypeOK, Jobs, JobOK,
              Visits
<1>6. ASSUME NEW t \in Threads, Expire(t) PROVE (\A x \in Threads : Held(x))'
  <2>1. /\ at[t] = "expire" /\ Active \subseteq {job[t].event}
        /\ at'[t] = "rebase"
    BY <1>0, <1>6 DEF Expire, Held, Typed, TypeOK, Go
  <2>2. Active' \subseteq Active \ {job[t].event}
    BY <1>6 DEF Expire, Active, Typed, TypeOK, Row, NoRow
  <2> QED BY <2>1, <2>2, OneThread DEF Held
<1>7. ASSUME NEW t \in Threads, Rebase(t) PROVE (\A x \in Threads : Held(x))'
  BY <1>0, <1>7, OneThread
        DEF Rebase, Held, Flow, Active, Go, Done, vars, world, Typed, TypeOK, Jobs, JobOK,
              Visits
<1>8. ASSUME NEW t \in Threads, NoLimit(t) PROVE (\A x \in Threads : Held(x))'
  BY <1>0, <1>8, OneThread
        DEF NoLimit, Held, Flow, Active, Go, Done, vars, world, Typed, TypeOK, Jobs, JobOK,
              Visits
<1>9. ASSUME NEW t \in Threads, NEW kind \in {"profit", "loss"}, LimitHit(t, kind)
      PROVE (\A x \in Threads : Held(x))'
  BY <1>0, <1>9, OneThread
        DEF LimitHit, Held, Flow, Active, Go, Done, vars, world, Typed, TypeOK, Jobs,
              JobOK, Visits
<1>10. ASSUME NEW t \in Threads, Create(t) PROVE (\A x \in Threads : Held(x))'
  <2>1. Active = {} /\ at'[t] = "publish" /\ job'[t].event = Last + 1
    BY <1>0, <1>10 DEF Create, Held, Typed, TypeOK, Jobs, Go, Idle, Last
  <2>2. Active' \subseteq Active \cup {Last + 1}
    BY <1>10 DEF Create, Active, Last, Typed, TypeOK
  <2> QED BY <2>1, <2>2, OneThread DEF Held
<1>11. ASSUME NEW t \in Threads, Publish(t) PROVE (\A x \in Threads : Held(x))'
  BY <1>0, <1>11, OneThread
        DEF Publish, Held, Flow, Active, Go, Done, vars, world, Typed, TypeOK, Jobs, JobOK,
              Visits
<1>12. ASSUME NEW t \in Threads, ForceReset(t) PROVE (\A x \in Threads : Held(x))'
  BY <1>0, <1>12, OneThread
        DEF ForceReset, Held, Flow, Active, Go, Done, vars, world, Typed, TypeOK, Jobs,
              JobOK, Visits
<1>13. ASSUME NEW t \in Threads, ValueMissing(t) PROVE (\A x \in Threads : Held(x))'
  BY <1>0, <1>13, OneThread
        DEF ValueMissing, Held, Flow, Active, Go, Done, vars, world, Typed, TypeOK, Jobs,
              JobOK, Visits
<1>14. ASSUME NEW t \in Threads, CommitFails(t) PROVE (\A x \in Threads : Held(x))'
  <2>1. "db" \in struck'.kinds
    BY <1>14, StrikeTyped DEF CommitFails, Typed
  <2> QED BY <2>1 DEF Spared
<1>15. ASSUME NEW t \in Threads, UpdateSnapshot(t) PROVE (\A x \in Threads : Held(x))'
  BY <1>0, <1>15, OneThread
        DEF UpdateSnapshot, Held, Flow, Active, Go, Done, vars, world, Typed, TypeOK, Jobs,
              JobOK, Visits
<1>16. ASSUME NEW t \in Threads, FullReload(t) PROVE (\A x \in Threads : Held(x))'
  <2>1. \E e : Active \subseteq {e}
    BY <1>0, <1>16 DEF FullReload, Held, Alone, Typed, TypeOK, Steps
  <2>2. Active' = Active /\ (Active # {} => cached' \in Active)
    BY <1>16, Loaded DEF FullReload, Active, Typed, Alone
  <2>3. \A x \in Threads : at'[x] = "idle"
    BY <1>16, OneThread DEF FullReload
  <2> QED BY <2>1, <2>2, <2>3 DEF Held
<1>17. ASSUME NEW w \in Wallets, MarketMoves(w) PROVE (\A x \in Threads : Held(x))'
  BY <1>0, <1>17, OneThread
        DEF MarketMoves, Held, Flow, Active, Go, Done, vars, world, Typed, TypeOK, Jobs,
              JobOK, Visits
<1>18. ASSUME NEW e \in Events, LockRunsOut(e) PROVE (\A x \in Threads : Held(x))'
  BY <1>0, <1>18, OneThread
        DEF LockRunsOut, Held, Flow, Active, Go, Done, vars, world, Typed, TypeOK, Jobs,
              JobOK, Visits
<1>19. CASE Midnight
  BY <1>0, <1>19, OneThread
        DEF Midnight, Held, Flow, Active, Go, Done, vars, world, Typed, TypeOK, Jobs,
              JobOK, Visits
<1>20. CASE Restart
  <2>1. \E e : Active \subseteq {e}
    BY <1>0, <1>20 DEF Restart, Held, Alone, Typed, TypeOK, Steps
  <2>2. Active' = Active /\ (Active # {} => cached' \in Active)
    BY <1>20, Loaded DEF Restart, Active, Typed, Alone
  <2>3. \A x \in Threads : at'[x] = "idle"
    BY <1>20, OneThread DEF Restart
  <2> QED BY <2>1, <2>2, <2>3 DEF Held
<1>21. CASE UNCHANGED vars
  BY <1>0, <1>21, OneThread
        DEF Held, Flow, Active, Go, Done, vars, world, Typed, TypeOK, Jobs, JobOK, Visits
<1> QED
  BY <1>1, <1>2, <1>3, <1>4, <1>5, <1>6, <1>7, <1>8, <1>9, <1>10, <1>11, <1>12, <1>13,
        <1>14, <1>15, <1>16, <1>17, <1>18, <1>19, <1>20, <1>21 DEF Next, Check, World

-----------------------------------------------------------------------------
(* The further gain.                                                       *)

LEMMA GainInit == Init => GainInv
<1> SUFFICES ASSUME Init PROVE Gains
  BY DEF GainInv
<1>1. Created = {} /\ Last = 0
  BY FS_EmptySet DEF Init, Created, Last
<1> QED BY <1>1 DEF Init, Gains, Latest, GainFrom

\* The snapshot keeps its day and its baseline.
SameBase ==
    snap # NoSnap => /\ snap' # NoSnap
                     /\ snap'.base = snap.base /\ snap'.day = snap.day

\* Neither an event nor the baseline changes, and the last event is not in
\* hand but to be cleared.
LEMMA CalmGain ==
    ASSUME Alone, Typed, Gains, NEW t \in Threads,
           UNCHANGED <<rows, cached>>, SameBase,
           at[t] \notin {"expire", "rebase", "publish"},
           at'[t] \notin {"create", "expire", "rebase", "publish"},
           at'[t] = "clear" => job'[t].event = cached /\ cached # NoEvent
    PROVE  Gains'
<1>1. Created' = Created /\ Last' = Last
  BY DEF Created, Last
<1>2. Created # {} <=> Last # 0
  <2>1. Created = 1..Last /\ Last \in Nat
    BY LastTyped DEF Typed, Numbered
  <2>2. Last # 0 => 1 \in 1..Last
    BY <2>1
  <2>3. Last = 0 => 1..Last = {}
    OBVIOUS
  <2> QED BY <2>1, <2>2, <2>3
<1>3. ASSUME NEW x \in Threads PROVE Latest(x)' /\ GainFrom(x)'
  <2>1. x = t /\ Latest(t) /\ GainFrom(t)
    BY OneThread DEF Gains
  <2>2. Latest(x)'
    BY <1>1, <2>1 DEF Latest
  <2>3. /\ Created # {} => snap # NoSnap
        /\ Last # 0 /\ rows[Last].kind = "profit" /\ rows[Last].day = snap.day =>
               cached = Last \/ snap.base = rows[Last].balance
        /\ \A e \in Created : rows[e].day <= snap.day
    BY <2>1 DEF GainFrom, Pending
  <2> QED BY <1>1, <1>2, <2>1, <2>2, <2>3 DEF GainFrom, Pending, SameBase
<1>4. (\A e \in Created : e + 1 \in Created => Further(rows[e], rows[e + 1]))'
  BY <1>1 DEF Gains, Further
<1> QED BY <1>3, <1>4 DEF Gains

\* The row of the last event: expiring it changes its status alone.
LEMMA ExpireGain ==
    ASSUME Alone, Typed, Gains, NEW t \in Threads, Expire(t)
    PROVE  Gains'
<1>1. \A e \in Events : rows[e] # NoRow =>
          /\ rows'[e] # NoRow /\ rows'[e].kind = rows[e].kind
          /\ rows'[e].day = rows[e].day /\ rows'[e].balance = rows[e].balance
  BY DEF Expire, Typed, TypeOK, Row, NoRow
<1>2. Created' = Created
  BY DEF Expire, Created, Typed, TypeOK, Row, NoRow
<1>3. Last' = Last /\ Created \subseteq Events /\ (Last # 0 => Last \in Created)
  BY <1>2, LastTyped DEF Last, Typed, Numbered
<1>4. \A e \in Created : /\ rows'[e].kind = rows[e].kind
                         /\ rows'[e].day = rows[e].day
                         /\ rows'[e].balance = rows[e].balance
  BY <1>1 DEF Created
<1>5. ASSUME NEW x \in Threads PROVE Latest(x)' /\ GainFrom(x)'
  <2>1. x = t /\ Latest(t) /\ GainFrom(t)
    BY OneThread DEF Gains
  <2>2. /\ at[t] = "expire" /\ at'[t] = "rebase"
        /\ UNCHANGED <<cached, snap, job>>
    BY DEF Expire, Go, Typed, TypeOK
  <2> QED BY <1>2, <1>3, <1>4, <2>1, <2>2 DEF Latest, GainFrom, Pending
<1>6. (\A e \in Created : e + 1 \in Created => Further(rows[e], rows[e + 1]))'
  BY <1>2, <1>4 DEF Gains, Further
<1> QED BY <1>5, <1>6 DEF Gains

\* Clearing the last event makes its balance the baseline, if it was a gain.
LEMMA RebaseGain ==
    ASSUME Alone, Typed, Gains, NEW t \in Threads, Rebase(t)
    PROVE  Gains'
<1>1. Created' = Created /\ Last' = Last /\ UNCHANGED <<rows, cached>>
  BY DEF Rebase, Created, Last
<1>2. /\ job[t].event = Last /\ Last \in Events /\ rows[Last] # NoRow
      /\ Last \in Created /\ job[t] \in Visits
  BY DEF Gains, Latest, Rebase, Typed, TypeOK, Jobs, JobOK, Created
<1>3. snap \in Snap /\ Moved(snap, snap', Last)
  <2>1. snap \in Snap /\ snap # NoSnap
    BY <1>2 DEF Gains, GainFrom, Typed, TypeOK
  <2> QED BY <1>2, <2>1, RebasedTyped DEF Rebase, Typed
<1>4. at'[t] \in {"idle", "inner", "limits"}
  BY <1>2 DEF Rebase, Visits, Go, Typed, TypeOK
<1>5. ASSUME NEW x \in Threads PROVE Latest(x)' /\ GainFrom(x)'
  <2>1. x = t /\ Latest(t) /\ GainFrom(t)
    BY OneThread DEF Gains
  <2>2. rows[Last].kind = "profit" => snap'.base = rows[Last].balance
    BY <1>3 DEF Moved, NewBase
  <2>3. snap' # NoSnap /\ snap'.day = snap.day
    BY <1>3 DEF Moved
  <2> QED BY <1>1, <1>4, <2>1, <2>2, <2>3 DEF Latest, GainFrom, Pending
<1>6. (\A e \in Created : e + 1 \in Created => Further(rows[e], rows[e + 1]))'
  BY <1>1 DEF Gains, Further
<1> QED BY <1>5, <1>6 DEF Gains

\* The gain is measured from the baseline.
LEMMA GainOverBase ==
    ASSUME NEW v \in Nat, NEW b \in Nat, (v - b) * 100 >= ProfitPct * b
    PROVE  v * 100 >= b * (100 + ProfitPct)
  BY PnlBreakerAssumption

LEMMA LimitHitGain ==
    ASSUME Alone, Typed, Flows, Gains, NEW t \in Threads,
           NEW kind \in {"profit", "loss"}, LimitHit(t, kind)
    PROVE  Gains'
<1>0. TypeOK /\ Jobs /\ Numbered
  BY DEF Typed
<1>1. Created' = Created /\ Last' = Last /\ UNCHANGED <<rows, cached>>
  BY DEF LimitHit, Created, Last
<1>2. /\ at[t] = "limits" /\ cached = NoEvent /\ at'[t] = "create"
      /\ job'[t].kind = kind /\ job'[t].balance = Worth(t) /\ job'[t].day = snap.day
  BY <1>0 DEF LimitHit, Flows, Flow, Go, TypeOK, Jobs
<1>3. Worth(t) \in Nat
  BY <1>0, WalletTyped, PnlBreakerAssumption DEF LimitHit, Worth, Jobs, JobOK
<1>4. snap \in Snap /\ snap # NoSnap /\ Marked(snap, Worth(t)) /\ Base(snap) \in Nat
  BY <1>0, <1>3, HighTyped, PnlBreakerAssumption DEF LimitHit, TypeOK, Snap, Base
<1>5. snap' # NoSnap /\ snap'.base = snap.base /\ snap'.day = snap.day
      /\ Base(snap') = Base(snap)
  BY <1>4 DEF LimitHit, Looked, Marked, Base
<1>6. /\ Latest(t) /\ GainFrom(t)
      /\ Last # 0 => Last \in Created /\ Last \in Events /\ rows[Last] # NoRow
  BY <1>0, LastTyped DEF Gains, Numbered, Created
<1>7. ASSUME kind = "profit", Last # 0, rows[Last].kind = "profit",
      rows[Last].day = snap.day
      PROVE  Worth(t) * 100 >= rows[Last].balance * (100 + ProfitPct)
  <2>1. snap.base = rows[Last].balance
    BY <1>2, <1>6, <1>7 DEF GainFrom, Pending, NoEvent
  <2>2. rows[Last].balance \in Nat \ {0}
    BY <1>0, <1>6, <1>7, RowTyped, PnlBreakerAssumption DEF Row
  <2>3. Base(snap) = rows[Last].balance
    BY <2>1, <2>2 DEF Base
  <2>4. ProfitHit(snap', Worth(t))
    BY <1>7 DEF LimitHit
  <2> QED BY <1>3, <1>5, <2>2, <2>3, <2>4, GainOverBase DEF ProfitHit
<1>8. ASSUME NEW x \in Threads PROVE Latest(x)' /\ GainFrom(x)'
  <2>1. x = t
    BY OneThread
  <2>2. Latest(x)'
    BY <1>1, <1>2, <1>6, <2>1 DEF Latest
  <2> QED BY <1>1, <1>2, <1>5, <1>6, <1>7, <2>1, <2>2 DEF GainFrom, Pending
<1>9. (\A e \in Created : e + 1 \in Created => Further(rows[e], rows[e + 1]))'
  BY <1>1 DEF Gains, Further
<1> QED BY <1>8, <1>9 DEF Gains

LEMMA CreateGain ==
    ASSUME Alone, Typed, Flows, Gains, NEW t \in Threads, Create(t)
    PROVE  Gains'
<1>0. TypeOK /\ Jobs /\ Numbered
  BY DEF Typed
<1> DEFINE n == Last + 1
<1>1. /\ n \in Events /\ Last' = n /\ Created' = Created \cup {n}
      /\ Created = 1..Last /\ Last \in Nat
  BY <1>0, NextNumber, LastTyped DEF Numbered
<1>2. /\ at[t] = "create" /\ cached = NoEvent /\ UNCHANGED <<cached, snap>>
      /\ at'[t] = "publish" /\ job'[t].event = n
  BY <1>0 DEF Create, Flows, Flow, Go, TypeOK, Jobs, Last, Idle
<1>3. /\ rows'[n].kind = job[t].kind /\ rows'[n].day = job[t].day
      /\ rows'[n].balance = job[t].balance
      /\ \A e \in Created : rows'[e] = rows[e]
  BY <1>0, <1>1 DEF Create, TypeOK, Last
<1>4. Latest(t) /\ GainFrom(t)
  BY DEF Gains
<1>5. job[t] \in Orders
  BY <1>0, <1>2 DEF Jobs, JobOK
<1>6. ASSUME NEW x \in Threads PROVE Latest(x)' /\ GainFrom(x)'
  <2>1. x = t
    BY OneThread
  <2>2. \A e \in Created \cup {n} : rows'[e].day <= snap.day
    BY <1>2, <1>3, <1>4, <1>5 DEF GainFrom, Orders
  <2>3. snap # NoSnap
    BY <1>2, <1>4 DEF GainFrom
  <2> QED BY <1>1, <1>2, <2>1, <2>2, <2>3 DEF Latest, GainFrom, Pending, NoEvent
<1>7. (\A e \in Created : e + 1 \in Created => Further(rows[e], rows[e + 1]))'
  <2>1. SUFFICES ASSUME NEW e \in Created', e + 1 \in Created'
                 PROVE  Further(rows'[e], rows'[e + 1])
    BY DEF Further
  <2>2. CASE e + 1 \in Created
    <3>1. e \in Created
      BY <1>1, <2>2
    <3> QED BY <1>3, <2>2, <3>1 DEF Gains
  <2>3. CASE e + 1 = n
    <3>1. e = Last /\ e \in Created /\ Last # 0
      BY <1>1, <2>3
    <3>2. rows'[e] = rows[Last]
      BY <1>3, <3>1
    <3> QED BY <1>2, <1>3, <1>4, <2>3, <3>1, <3>2 DEF Further, GainFrom
  <2> QED BY <1>1, <2>1, <2>2, <2>3
<1> QED BY <1>6, <1>7 DEF Gains

LEMMA GainStep == ASSUME Alone, Typed, Flows, HeldInv, GainInv PROVE [Next]_vars => GainInv'
<1> SUFFICES ASSUME [Next]_vars, Spared({"crash", "db"})' PROVE Gains'
  BY DEF GainInv
<1>0. Gains /\ TypeOK /\ Jobs /\ SameDay
  BY SparedBefore DEF GainInv, Typed
<1>1. ASSUME NEW t \in Threads, NEW p \in Profiles, BeginCheck(t, p) PROVE Gains'
  <2>1. /\ UNCHANGED <<rows, cached>> /\ SameBase
        /\ at[t] \notin {"expire", "rebase", "publish"}
        /\ at'[t] \notin {"create", "expire", "rebase", "publish"}
        /\ at'[t] = "clear" => job'[t].event = cached /\ cached # NoEvent
    BY <1>0, <1>1 DEF BeginCheck, Go, Done, SameBase, TypeOK, Jobs
  <2> QED BY <1>0, <2>1, CalmGain
<1>2. ASSUME NEW t \in Threads, Blocked(t) PROVE Gains'
  <2>1. /\ UNCHANGED <<rows, cached>> /\ SameBase
        /\ at[t] \notin {"expire", "rebase", "publish"}
        /\ at'[t] \notin {"create", "expire", "rebase", "publish"}
        /\ at'[t] = "clear" => job'[t].event = cached /\ cached # NoEvent
    BY <1>0, <1>2 DEF Blocked, Go, Done, SameBase, TypeOK, Jobs
  <2> QED BY <1>0, <2>1, CalmGain
<1>3. ASSUME NEW t \in Threads, NotLocked(t) PROVE Gains'
  <2>1. /\ UNCHANGED <<rows, cached>> /\ SameBase
        /\ at[t] \notin {"expire", "rebase", "publish"}
        /\ at'[t] \notin {"create", "expire", "rebase", "publish"}
        /\ at'[t] = "clear" => job'[t].event = cached /\ cached # NoEvent
    BY <1>0, <1>3 DEF NotLocked, Go, Done, SameBase, TypeOK, Jobs
  <2> QED BY <1>0, <2>1, CalmGain
<1>4. ASSUME NEW t \in Threads, SeeExpired(t) PROVE Gains'
  <2>1. /\ UNCHANGED <<rows, cached>> /\ SameBase
        /\ at[t] \notin {"expire", "rebase", "publish"}
        /\ at'[t] \notin {"create", "expire", "rebase", "publish"}
        /\ at'[t] = "clear" => job'[t].event = cached /\ cached # NoEvent
    BY <1>0, <1>4 DEF SeeExpired, Go, Done, SameBase, TypeOK, Jobs
  <2> QED BY <1>0, <2>1, CalmGain
<1>5. ASSUME NEW t \in Threads, Clear(t) PROVE Gains'
  <2>1. /\ at[t] = "clear" /\ at'[t] = "expire" /\ cached' = NoEvent
        /\ UNCHANGED <<rows, snap, job>>
    BY <1>0, <1>5 DEF Clear, Go, TypeOK
  <2>2. Created' = Created /\ Last' = Last
    BY <2>1 DEF Created, Last
  <2>3. ASSUME NEW x \in Threads PROVE Latest(x)' /\ GainFrom(x)'
    BY <1>0, <2>1, <2>2, OneThread DEF Gains, Latest, GainFrom, Pending
  <2> QED BY <1>0, <2>1, <2>2, <2>3 DEF Gains, Further
<1>6. ASSUME NEW t \in Threads, Expire(t) PROVE Gains'
  BY <1>0, <1>6, ExpireGain
<1>7. ASSUME NEW t \in Threads, Rebase(t) PROVE Gains'
  BY <1>0, <1>7, RebaseGain
<1>8. ASSUME NEW t \in Threads, NoLimit(t) PROVE Gains'
  <2>0. Worth(t) \in Nat
    BY <1>0, <1>8, WalletTyped, PnlBreakerAssumption DEF NoLimit, Worth, Jobs, JobOK
  <2>1. /\ UNCHANGED <<rows, cached>>
        /\ at[t] \notin {"expire", "rebase", "publish"}
        /\ at'[t] \notin {"create", "expire", "rebase", "publish"}
        /\ at'[t] = "clear" => job'[t].event = cached /\ cached # NoEvent
    BY <1>0, <1>8 DEF NoLimit, Go, Done, TypeOK, Jobs
  <2>2. SameBase
    <3>1. snap # NoSnap => Marked(snap, Worth(t)) /\ snap' = Looked(t)
      BY <1>0, <1>8, <2>0, HighTyped DEF NoLimit, TypeOK
    <3> QED BY <3>1 DEF SameBase, Looked, Marked
  <2> QED BY <1>0, <2>1, <2>2, CalmGain
<1>9. ASSUME NEW t \in Threads, NEW kind \in {"profit", "loss"}, LimitHit(t, kind)
      PROVE Gains'
  BY <1>0, <1>9, LimitHitGain
<1>10. ASSUME NEW t \in Threads, Create(t) PROVE Gains'
  BY <1>0, <1>10, CreateGain
<1>11. ASSUME NEW t \in Threads, Publish(t) PROVE Gains'
  <2>1. /\ at[t] = "publish" /\ at'[t] = "idle" /\ cached' = job[t].event
        /\ UNCHANGED <<rows, snap>>
    BY <1>0, <1>11 DEF Publish, Done, Go, TypeOK
  <2>2. Created' = Created /\ Last' = Last
    BY <2>1 DEF Created, Last
  <2>3. ASSUME NEW x \in Threads PROVE Latest(x)' /\ GainFrom(x)'
    BY <1>0, <2>1, <2>2, OneThread DEF Gains, Latest, GainFrom, Pending
  <2> QED BY <1>0, <2>1, <2>2, <2>3 DEF Gains, Further
<1>12. ASSUME NEW t \in Threads, ForceReset(t) PROVE Gains'
  <2>1. /\ UNCHANGED <<rows, cached>> /\ SameBase
        /\ at[t] \notin {"expire", "rebase", "publish"}
        /\ at'[t] \notin {"create", "expire", "rebase", "publish"}
        /\ at'[t] = "clear" => job'[t].event = cached /\ cached # NoEvent
    BY <1>0, <1>12 DEF ForceReset, Go, Done, SameBase, TypeOK, Jobs
  <2> QED BY <1>0, <2>1, CalmGain
<1>13. ASSUME NEW t \in Threads, ValueMissing(t) PROVE Gains'
  <2>1. /\ UNCHANGED <<rows, cached>> /\ SameBase
        /\ at[t] \notin {"expire", "rebase", "publish"}
        /\ at'[t] \notin {"create", "expire", "rebase", "publish"}
        /\ at'[t] = "clear" => job'[t].event = cached /\ cached # NoEvent
    BY <1>0, <1>13 DEF ValueMissing, Go, Done, SameBase, TypeOK, Jobs
  <2> QED BY <1>0, <2>1, CalmGain
<1>14. ASSUME NEW t \in Threads, CommitFails(t) PROVE Gains'
  <2>1. "db" \in struck'.kinds
    BY <1>0, <1>14, StrikeTyped DEF CommitFails
  <2> QED BY <2>1 DEF Spared
<1>15. ASSUME NEW t \in Threads, UpdateSnapshot(t) PROVE Gains'
  <2> DEFINE v == value[Wallet(Canonical)]
  <2>1. /\ Taken(v) /\ at[t] = "idle" /\ UNCHANGED <<rows, cached, at, job>>
        /\ day \in Nat
    BY <1>0, <1>15, PnlBreakerAssumption DEF UpdateSnapshot, Taken, Fresh, TypeOK
  <2>2. /\ snap' \in Snap /\ (Fresh => snap' = NewSnap(v))
        /\ ~Fresh => snap'.base = snap.base /\ snap'.day = snap.day
    BY <1>0, <2>1, WalletTyped, TakenTyped
  <2>3. snap' # NoSnap
    BY <2>2 DEF Snap, NoSnap
  <2>4. CASE ~Fresh
    BY <1>0, <2>1, <2>2, <2>3, <2>4, CalmGain DEF SameBase
  <2>5. CASE Fresh
    <3>1. Created' = Created /\ Last' = Last
      BY <2>1 DEF Created, Last
    <3>2. snap'.day = day
      BY <2>2, <2>5 DEF NewSnap
    <3>3. \A e \in Created : rows[e].day \in Nat /\ rows[e].day < day
      <4>1. \A e \in Created : rows[e].day \in Nat
        BY <1>0, RowTyped, PnlBreakerAssumption DEF Created, Row
      <4>2. \A e \in Created : snap # NoSnap /\ rows[e].day <= snap.day
        BY <1>0 DEF Gains, GainFrom
      <4>3. Created # {} => snap.day \in Nat /\ day > snap.day
        BY <1>0, <2>5, <4>2, PnlBreakerAssumption DEF TypeOK, Snap, Fresh
      <4> QED BY <2>1, <4>1, <4>2, <4>3
    <3>4. Last # 0 => Last \in Created
      BY LastTyped DEF Typed, Numbered
    <3>5. ASSUME NEW x \in Threads PROVE Latest(x)' /\ GainFrom(x)'
      <4>1. x = t
        BY OneThread
      <4> QED BY <1>0, <2>1, <2>3, <3>1, <3>2, <3>3, <3>4, <4>1
            DEF Gains, Latest, GainFrom, Pending
    <3> QED BY <1>0, <2>1, <3>1, <3>5 DEF Gains, Further
  <2> QED BY <2>4, <2>5
<1>16. ASSUME NEW t \in Threads, FullReload(t) PROVE Gains'
  <2>1. /\ at[t] = "idle" /\ at'[t] = "idle" /\ UNCHANGED rows
        /\ snap' = snapDb
    BY <1>16 DEF FullReload, LoadState, Alone
  <2>2. SameBase
    BY <1>0, <2>1 DEF SameBase, SameDay
  <2>3. Held(t) /\ (cached # NoEvent => cached \in Active)
    BY <1>16 DEF HeldInv, Flows, Active, Spared, FullReload, Typed, TypeOK
  <2>4. cached' = cached
    <3>1. Active \subseteq {cached}
      BY <2>1, <2>3 DEF Held
    <3>2. cached' \in Active \cup {NoEvent} /\ (Active # {} => cached' \in Active)
      BY <1>0, <1>16, Loaded DEF FullReload, Alone
    <3> QED BY <2>3, <3>1, <3>2
  <2> QED BY <1>0, <2>1, <2>2, <2>4, CalmGain
<1>17. ASSUME NEW w \in Wallets, MarketMoves(w) PROVE Gains'
  <2>1. UNCHANGED <<rows, cached, snap, at, job>>
    BY <1>17 DEF MarketMoves, vars
  <2> QED BY <1>0, <2>1 DEF Gains, Latest, GainFrom, Pending, Further, Last, Created
<1>18. ASSUME NEW e \in Events, LockRunsOut(e) PROVE Gains'
  <2>1. UNCHANGED <<rows, cached, snap, at, job>>
    BY <1>18 DEF LockRunsOut, vars
  <2> QED BY <1>0, <2>1 DEF Gains, Latest, GainFrom, Pending, Further, Last, Created
<1>19. CASE Midnight
  <2>1. UNCHANGED <<rows, cached, snap, at, job>>
    BY <1>19 DEF Midnight, vars
  <2> QED BY <1>0, <2>1 DEF Gains, Latest, GainFrom, Pending, Further, Last, Created
<1>20. CASE Restart
  <2>1. "crash" \in struck'.kinds
    BY <1>0, <1>20, StrikeTyped DEF Restart
  <2> QED BY <2>1 DEF Spared
<1>21. CASE UNCHANGED vars
  <2>1. UNCHANGED <<rows, cached, snap, at, job>>
    BY <1>21 DEF vars
  <2> QED BY <1>0, <2>1 DEF Gains, Latest, GainFrom, Pending, Further, Last, Created
<1> QED
  BY <1>1, <1>2, <1>3, <1>4, <1>5, <1>6, <1>7, <1>8, <1>9, <1>10, <1>11, <1>12, <1>13,
        <1>14, <1>15, <1>16, <1>17, <1>18, <1>19, <1>20, <1>21 DEF Next, Check, World

-----------------------------------------------------------------------------
(* The theorems.                                                           *)

IInv == Typed /\ Flows /\ HeldInv /\ GainInv

LEMMA TypedAlways == Spec => []Typed
  BY TypedInit, TypedStep, PTL DEF Spec

LEMMA IInvAlways == ASSUME Alone PROVE Spec => []IInv
<1>1. Init => IInv
  BY TypedInit, FlowsInit, HeldInit, GainInit DEF IInv
<1>2. IInv /\ [Next]_vars => IInv'
  BY TypedStep, FlowsStep, HeldStep, GainStep DEF IInv
<1> QED BY <1>1, <1>2, PTL DEF Spec

\* Every variable keeps its type: in particular the cached event, and the one
\* a thread clears or publishes, exist in the database.
THEOREM BreakerTyped == Spec => []TypeOK
<1>1. Typed => TypeOK
  BY DEF Typed
<1> QED BY TypedAlways, <1>1, PTL

\* A check that finds the day's gain at the daily cap locks, as long as the
\* only locks so far were the day's loss locks, each at most at its start:
\* with any threads and profiles, with an account or without, whatever fails.
THEOREM DailyCapAlways == Spec => DailyCap
<1>1. Init => BaseBelow
  BY DEF Init, BaseBelow
<1>2. Spec => [](Typed /\ BaseBelow)
  BY TypedInit, TypedStep, <1>1, BaseBelowStep, PTL DEF Spec
<1>3. Typed /\ BaseBelow /\ [Next]_vars => CapLocks
  BY CapStep DEF CapLocks
<1> QED BY <1>2, <1>3, PTL DEF Spec, DailyCap

\* Only a clearing and a start empty the cache: a clearing that of a lock that
\* ran out or was reset, a start none whose row is active.
LEMMA Lasts == ASSUME Alone, IInv PROVE [Next]_vars => StaysLocked
<1> SUFFICES ASSUME [Next]_vars, Locked, cached \notin waived, cached' = NoEvent PROVE FALSE
  BY DEF StaysLocked
<1>0. cached \in Active /\ \A t \in Threads : Flow(t)
  BY DEF IInv, Flows, Locked, Active, Typed, TypeOK
<1>1. ASSUME LoadState PROVE FALSE
  BY <1>0, <1>1, Loaded DEF IInv, Typed, Alone, Active, Events, NoEvent
<1>2. ASSUME NEW t \in Threads, Clear(t) PROVE FALSE
  BY <1>0, <1>2 DEF Clear, Flow, Locked
<1>3. ASSUME NEW t \in Threads, Publish(t) PROVE FALSE
  BY <1>0, <1>3 DEF Publish, Flow, Locked
<1>4. ASSUME UNCHANGED cached PROVE FALSE
  BY <1>4 DEF Locked
<1>5. ASSUME NEW t \in Threads, Check(t) PROVE FALSE
  BY <1>2, <1>3, <1>4, <1>5 DEF Check, BeginCheck, Blocked, NotLocked, SeeExpired,
       Expire, Rebase, NoLimit, LimitHit, Create
<1>6. ASSUME NEW t \in Threads,
             \/ ForceReset(t) \/ ValueMissing(t) \/ CommitFails(t)
             \/ UpdateSnapshot(t) \/ FullReload(t)
      PROVE FALSE
  BY <1>1, <1>4, <1>6 DEF ForceReset, ValueMissing, CommitFails, UpdateSnapshot, FullReload
<1>7. ASSUME World PROVE FALSE
  BY <1>1, <1>4, <1>7 DEF World, MarketMoves, LockRunsOut, Midnight, Restart
<1> QED BY <1>4, <1>5, <1>6, <1>7 DEF Next, vars

LEMMA Stands == ASSUME Alone, IInv PROVE LockStands
<1>0. TypeOK /\ Flows /\ HeldInv
  BY DEF IInv, Typed
<1>1. OneLock
  <2>1. SUFFICES ASSUME Spared({"db"}) PROVE SingleLock
    BY DEF OneLock
  <2>2. PICK e : Active \subseteq {e}
    BY <1>0, <2>1 DEF HeldInv, Held, Alone, TypeOK, Steps
  <2>3. IsFiniteSet({e}) /\ Cardinality({e}) = 1 /\ Standing \subseteq {e}
    BY <2>2, FS_Singleton DEF Standing
  <2>4. Cardinality(Standing) <= Cardinality({e})
    BY <2>3, FS_Subset
  <2> QED BY <2>3, <2>4 DEF SingleLock
<1>2. LockHolds
  <2>1. SUFFICES ASSUME Spared({"db"}), AllIdle, Standing # {} PROVE Locked
    BY DEF LockHolds
  <2>2. Active \subseteq {cached}
    BY <1>0, <2>1 DEF HeldInv, Held, Alone, AllIdle
  <2>3. cached \in Standing /\ cached \in Events
    BY <2>1, <2>2 DEF Standing, Active
  <2> QED BY <2>3 DEF Locked, Standing, Events, NoEvent
<1> QED BY <1>1, <1>2 DEF LockStands

\* With one thread, a lock is the only one while it stands and blocks every
\* check of the key once the thread is done, after a restart or a reload too,
\* until a write fails.
THEOREM LockStandsAlways == ASSUME Alone PROVE Spec => []LockStands
<1>1. IInv => LockStands
  BY Stands
<1> QED BY IInvAlways, <1>1, PTL

\* With one thread, a lock lasts its hours, whatever fails, and a day whose gain
\* is at the cap is locked.
THEOREM LockLastsAlways == ASSUME Alone PROVE Spec => LockLasts
<1>1. IInv /\ [Next]_vars => StaysLocked
  BY Lasts
<1>2. Spec => NotLifted
  BY IInvAlways, <1>1, PTL DEF Spec, NotLifted
<1> QED BY DailyCapAlways, <1>2 DEF LockLasts

\* With one thread, a cleared profit lock does not trigger again on the same
\* gain, until a crash or a failed write.
THEOREM FurtherGainAlways == ASSUME Alone PROVE Spec => []FurtherGain
<1>1. IInv => FurtherGain
  BY DEF IInv, GainInv, Gains, Further, FurtherGain
<1> QED BY IInvAlways, <1>1, PTL

-----------------------------------------------------------------------------
(* The other parts.                                                        *)

\* A step of the whole is a step of the part it is about, or none of it.
LEMMA PartsApart ==
    ASSUME [EveryNext]_allVars
    PROVE  /\ part' = part
           /\ part = "adapter" => [Adapter!Next]_Adapter!vars
           /\ part = "cycle" => [Cycle!Next]_Cycle!vars
           /\ part = "setting" => [Setting!Next]_Setting!vars
<1>1. CASE EveryNext
  BY <1>1 DEF EveryNext
<1>2. CASE UNCHANGED allVars
  <2>1. /\ part' = part /\ UNCHANGED adapter /\ UNCHANGED cycle /\ UNCHANGED setting
    BY <1>2 DEF allVars
  <2>2. UNCHANGED Adapter!vars
    BY <2>1 DEF adapter, Adapter!vars
  <2>3. UNCHANGED Cycle!vars
    BY <2>1 DEF cycle, Cycle!vars
  <2>4. UNCHANGED Setting!vars
    BY <2>1 DEF setting, Setting!vars
  <2> QED BY <2>1, <2>2, <2>3, <2>4
<1> QED BY <1>1, <1>2

-----------------------------------------------------------------------------
(* The settings.                                                           *)

\* The table, the cache and what a thread is about to install are contents the
\* table has had, and so is an empty one.
ContentsInv ==
    /\ {Setting!Empty, settings, cache} \subseteq contents
    /\ handler.stage = "install" => handler.read \in contents
    /\ timer # Nothing => timer \in contents

LEMMA ContentsInit == ASSUME Setting!Init PROVE ContentsInv
  BY DEF Setting!Init, Setting!AtRest, ContentsInv

LEMMA ContentsStep ==
    ASSUME ContentsInv, [Setting!Next]_Setting!vars
    PROVE  ContentsInv'
<1>e. ASSUME NEW t, Setting!Edited(t), UNCHANGED <<cache, timer>>,
             handler' = handler \/ handler'.stage = "refresh"
      PROVE  ContentsInv'
  BY <1>e DEF Setting!Edited, ContentsInv, Setting!Empty, Setting!Owners
<1>1. ASSUME NEW o, NEW n, NEW v, Setting!Upsert(o, n, v) PROVE ContentsInv'
  BY <1>1, <1>e DEF Setting!Upsert
<1>2. ASSUME NEW o, NEW n, NEW v, Setting!SetByTool(o, n, v) PROVE ContentsInv'
  BY <1>2, <1>e DEF Setting!SetByTool
<1>3. ASSUME NEW o, NEW n, Setting!Delete(o, n) PROVE ContentsInv'
  BY <1>3, <1>e DEF Setting!Delete
<1>4. ASSUME NEW v, Setting!PopulateDefaults(v) PROVE ContentsInv'
  BY <1>4, <1>e DEF Setting!PopulateDefaults
<1>5. CASE Setting!RefreshByHand
  BY <1>5 DEF Setting!RefreshByHand, ContentsInv, Setting!Empty, Setting!Owners
<1>6. CASE Setting!HandlerReads \/ Setting!HandlerFails \/ Setting!HandlerInstalls
  BY <1>6
        DEF Setting!HandlerReads, Setting!HandlerFails, Setting!HandlerInstalls,
              Setting!Install,
     Setting!Read, Setting!AtRest, ContentsInv, Setting!Empty, Setting!Owners
<1>7. CASE Setting!TimerReads \/ Setting!TimerInstalls
  BY <1>7 DEF Setting!TimerReads, Setting!TimerInstalls, Setting!Install, Setting!Read,
     ContentsInv, Setting!Empty, Setting!Owners
<1>8. CASE Setting!Stop
  BY <1>8 DEF Setting!Stop, Setting!AtRest, ContentsInv, Setting!Empty, Setting!Owners
<1>9. ASSUME NEW ok, Setting!Start(ok) PROVE ContentsInv'
  BY <1>9 DEF Setting!Start, Setting!Read, ContentsInv, Setting!Empty, Setting!Owners
<1>10. CASE UNCHANGED Setting!vars
  BY <1>10 DEF Setting!vars, ContentsInv, Setting!Empty, Setting!Owners
<1> QED
  BY <1>1, <1>2, <1>3, <1>4, <1>5, <1>6, <1>7, <1>8, <1>9, <1>10 DEF Setting!Next

LEMMA OneVersionKept == ASSUME ContentsInv PROVE Setting!OneVersion
  BY DEF ContentsInv, Setting!OneVersion

-----------------------------------------------------------------------------
(* The monitoring loop.                                                    *)

\* What is owed is due; the trend check, which gives its turn up early, is not
\* among it.
OwedInv == owed \subseteq Cycle!Periodic /\ Cycle!DueStaysDue

LEMMA OwedInit == ASSUME Cycle!Init PROVE OwedInv
  BY DEF Cycle!Init, OwedInv, Cycle!DueStaysDue

LEMMA OwedStep ==
    ASSUME OwedInv, [Cycle!Next]_Cycle!vars
    PROVE  OwedInv'
<1>0. \A c \in owed : c \in Cycle!Checks /\ c # "trend" /\ counters[c] >= Every[c]
  BY DEF OwedInv, Cycle!DueStaysDue, Cycle!Due, Cycle!Periodic
<1>u. ASSUME UNCHANGED <<counters, owed>> PROVE OwedInv'
  BY <1>u DEF OwedInv, Cycle!DueStaysDue, Cycle!Due
<1>1. ASSUME NEW l \in Loops,
      Cycle!Start(l) \/ Cycle!End(l) \/ Cycle!Complete(l) \/ Cycle!Wake(l)
      PROVE  OwedInv'
  BY <1>1, <1>u DEF Cycle!Start, Cycle!End, Cycle!Complete, Cycle!Wake
<1>2. ASSUME NEW l \in Loops, Cycle!Begin(l) PROVE OwedInv'
  <2>1. \A c \in owed : counters'[c] = counters[c]
    BY <1>0, <1>2 DEF Cycle!Begin, Cycle!Due
  <2>2. owed' = owed \cup {c \in Cycle!Periodic : counters'[c] >= Every[c]}
    BY <1>2 DEF Cycle!Begin
  <2> QED BY <1>0, <2>1, <2>2 DEF OwedInv, Cycle!DueStaysDue, Cycle!Due
<1>3. ASSUME NEW l \in Loops, Cycle!Do(l) PROVE OwedInv'
  <2>1. owed' = owed \ {c \in Cycle!Periodic : c = Cycle!Step(l) /\ Cycle!Due(c)}
    BY <1>3 DEF Cycle!Do
  <2>2. \A c \in owed' : c \in owed /\ c # Cycle!Step(l)
    BY <1>0, <2>1 DEF OwedInv, Cycle!Due
  <2>3. \A c \in owed' : counters'[c] = counters[c]
    BY <1>0, <1>3, <2>2 DEF Cycle!Do, Cycle!Counted, Cycle!TrendTurn
  <2> QED BY <1>0, <2>1, <2>2, <2>3 DEF OwedInv, Cycle!DueStaysDue, Cycle!Due
<1>4. ASSUME NEW l \in Loops, Cycle!Raise(l) PROVE OwedInv'
  <2>1. owed' = owed /\ ~Cycle!TurnDone(l)
    BY <1>4 DEF Cycle!Raise, Cycle!TurnDone
  <2>2. \A c \in owed : counters'[c] = counters[c]
    BY <1>0, <1>4, <2>1 DEF Cycle!Raise, Cycle!Counted, Cycle!TrendTurn
  <2> QED BY <1>0, <2>1, <2>2 DEF OwedInv, Cycle!DueStaysDue, Cycle!Due
<1>5. CASE Cycle!Stop
  BY <1>5, <1>u DEF Cycle!Stop
<1>6. ASSUME NEW s, Cycle!OutageChanges(s) PROVE OwedInv'
  BY <1>6, <1>u DEF Cycle!OutageChanges
<1>7. CASE UNCHANGED Cycle!vars
  BY <1>7, <1>u DEF Cycle!vars
<1> QED
  BY <1>1, <1>2, <1>3, <1>4, <1>5, <1>6, <1>7 DEF Cycle!Next

-----------------------------------------------------------------------------
(* Sums over finite sets, as the folds of the adapter compute them.        *)

\* Induction, as a fact about a set of numbers.
LEMMA Numbers ==
    ASSUME NEW T \in SUBSET Nat, 0 \in T, \A n \in T : n + 1 \in T
    PROVE  T = Nat
<1> DEFINE Bad == Nat \ T
<1>1. ASSUME Bad # {} PROVE FALSE
  <2> DEFINE Less == OpToRel(<, Nat)
  <2>1. \A m, n \in Nat : m < n => <<m, n>> \in Less
    BY DEF OpToRel
  <2>2. IsWellFoundedOn(Less, Nat)
    BY NatLessThanWellFounded
  <2> HIDE DEF Less
  <2>3. PICK n \in Bad : \A m \in Bad : ~(<<m, n>> \in Less)
    BY <1>1, <2>2, WFMin
  <2>4. n # 0 /\ n - 1 \in Nat /\ n - 1 < n
    BY <2>3
  <2>5. n - 1 \notin Bad
    BY <2>1, <2>3, <2>4
  <2> QED BY <2>3, <2>4, <2>5
<1> QED BY <1>1

Pick(s) == CHOOSE x \in s : TRUE
Adds(g, F,
      S) == g = [s \in SUBSET S |-> IF s = {} THEN 0 ELSE F[Pick(s)] + g[s \ {Pick(s)}]]
Sum(F, S) == (CHOOSE g : Adds(g, F, S))[S]

LEMMA PickIn == ASSUME NEW s, s # {} PROVE Pick(s) \in s
  BY DEF Pick

LEMMA SumDefined ==
    ASSUME NEW S, IsFiniteSet(S), NEW F
    PROVE  \E g : Adds(g, F, S)
<1> DEFINE V(g, s) == IF s = {} THEN 0 ELSE F[Pick(s)] + g[s \ {Pick(s)}]
           T == {n \in Nat : \E g : \A s \in SUBSET S : Cardinality(s) <= n => g[s] = V(g,
                 s)}
<1> HIDE DEF T
<1>0. \A s \in SUBSET S : IsFiniteSet(s) /\ Cardinality(s) \in Nat
  BY FS_Subset, FS_CardinalityType
<1>1. 0 \in T
  <2> DEFINE g == [s \in SUBSET S |-> 0]
  <2>1. \A s \in SUBSET S : Cardinality(s) <= 0 => g[s] = V(g, s)
    BY <1>0, FS_EmptySet
  <2> QED BY <2>1 DEF T
<1>2. ASSUME NEW n \in T PROVE n + 1 \in T
  <2>1. PICK g : \A s \in SUBSET S : Cardinality(s) <= n => g[s] = V(g, s)
    BY DEF T
  <2>2. n \in Nat BY DEF T
  <2> DEFINE h == [s \in SUBSET S |-> IF Cardinality(s) <= n THEN g[s] ELSE V(g, s)]
  <2>3. ASSUME NEW s \in SUBSET S, Cardinality(s) <= n + 1 PROVE h[s] = V(h, s)
    <3>1. h[s] = V(g, s)
      BY <2>1
    <3>2. CASE s = {}
      BY <3>1, <3>2
    <3>3. CASE s # {}
      <4>1. Pick(s) \in s BY <3>3, PickIn
      <4>2. Cardinality(s \ {Pick(s)}) <= n
        BY <4>1, <1>0, <2>2, <2>3, FS_RemoveElement
      <4>3. h[s \ {Pick(s)}] = g[s \ {Pick(s)}]
        BY <4>2
      <4> QED BY <3>1, <3>3, <4>3
    <3> QED BY <3>2, <3>3
  <2> HIDE DEF h, V
  <2> QED BY <2>2, <2>3 DEF T
<1>3. Cardinality(S) \in T
  <2>1. T \in SUBSET Nat BY DEF T
  <2>2. T = Nat BY <1>1, <1>2, <2>1, Numbers
  <2> QED BY <2>2, <1>0
<1>4. PICK g : \A s \in SUBSET S : g[s] = V(g, s)
  <2>1. \A s \in SUBSET S : Cardinality(s) <= Cardinality(S)
    BY FS_Subset
  <2> QED BY <1>3, <2>1 DEF T
<1> DEFINE h == [s \in SUBSET S |-> g[s]]
<1>5. \A s \in SUBSET S : h[s] = V(h, s)
  BY <1>4
<1> QED BY <1>5 DEF Adds

\* The sum of a subset does not depend on the set it is taken from, nor on
\* anything but the terms.
LEMMA AddsAgree ==
    ASSUME NEW S, IsFiniteSet(S), NEW W \in SUBSET S, NEW F, NEW G,
           \A y \in W : F[y] = G[y],
           NEW g, NEW h, Adds(g, F, S), Adds(h, G, W)
    PROVE  \A s \in SUBSET W : g[s] = h[s]
<1>0. \A s \in SUBSET W : IsFiniteSet(s) /\ Cardinality(s) \in Nat
  BY FS_Subset, FS_CardinalityType
<1>1. \A s \in SUBSET S : g[s] = IF s = {} THEN 0 ELSE F[Pick(s)] + g[s \ {Pick(s)}]
  BY DEF Adds
<1>2. \A s \in SUBSET W : h[s] = IF s = {} THEN 0 ELSE G[Pick(s)] + h[s \ {Pick(s)}]
  BY DEF Adds
<1> DEFINE T == {n \in Nat : \A s \in SUBSET W : Cardinality(s) = n => g[s] = h[s]}
<1>3. 0 \in T
  <2> SUFFICES ASSUME NEW s \in SUBSET W, Cardinality(s) = 0 PROVE g[s] = h[s]
    OBVIOUS
  <2>1. s = {}
    BY <1>0, FS_EmptySet
  <2>2. g[s] = 0 /\ h[s] = 0
    BY <1>1, <1>2, <2>1
  <2> QED BY <2>2
<1>4. ASSUME NEW n \in T PROVE n + 1 \in T
  <2> SUFFICES ASSUME NEW s \in SUBSET W, Cardinality(s) = n + 1 PROVE g[s] = h[s]
    OBVIOUS
  <2>1. s # {} /\ Pick(s) \in s
    BY PickIn, FS_EmptySet, <1>0
  <2>2. s \ {Pick(s)} \in SUBSET W /\ Cardinality(s \ {Pick(s)}) = n
    <3>1. IsFiniteSet(s)
      BY <1>0
    <3> DEFINE x == Pick(s)
    <3>2. x \in s
      BY <2>1
    <3> HIDE DEF x
    <3>3. Cardinality(s \ {x}) = Cardinality(s) - 1
      BY <3>1, <3>2, FS_RemoveElement
    <3> QED BY <3>3 DEF x
  <2>3. g[s \ {Pick(s)}] = h[s \ {Pick(s)}]
    BY <2>2
  <2>4. F[Pick(s)] = G[Pick(s)]
    BY <2>1
  <2>5. g[s] = F[Pick(s)] + g[s \ {Pick(s)}]
    BY <1>1, <2>1
  <2>6. h[s] = G[Pick(s)] + h[s \ {Pick(s)}]
    BY <1>2, <2>1
  <2> QED BY <2>3, <2>4, <2>5, <2>6
<1>5. T = Nat
  <2>1. T \in SUBSET Nat
    OBVIOUS
  <2> HIDE DEF T
  <2> QED BY <1>3, <1>4, <2>1, Numbers
<1> QED BY <1>0, <1>5

LEMMA SumIs ==
    ASSUME NEW S, IsFiniteSet(S), NEW W \in SUBSET S, NEW F, NEW G,
          \A y \in W : F[y] = G[y],
           NEW g, Adds(g, F, S)
    PROVE  g[W] = Sum(G, W)
<1>1. IsFiniteSet(W)
  BY FS_Subset
<1> DEFINE h == CHOOSE k : Adds(k, G, W)
<1>2. Adds(h, G, W)
  BY <1>1, SumDefined
<1> HIDE DEF h
<1>3. g[W] = h[W]
  BY <1>2, AddsAgree
<1> QED BY <1>3 DEF h, Sum

\* Equal terms, equal sums; and no terms, no sum.
LEMMA SumAgrees ==
    ASSUME NEW S, IsFiniteSet(S), NEW F, NEW G, \A y \in S : F[y] = G[y]
    PROVE  Sum(F, S) = Sum(G, S)
<1>1. PICK g : Adds(g, F, S)
  BY SumDefined
<1>2. g[S] = Sum(G, S)
  BY <1>1, SumIs
<1>3. g[S] = Sum(F, S)
  BY <1>1, SumIs
<1> QED BY <1>2, <1>3

LEMMA SumOfNone == ASSUME NEW F PROVE Sum(F, {}) = 0
<1>0. IsFiniteSet({}) /\ {} \in SUBSET {}
  BY FS_EmptySet
<1>1. PICK g : Adds(g, F, {})
  BY <1>0, SumDefined
<1>2. g[{}] = 0
  BY <1>0, <1>1 DEF Adds
<1>3. g[{}] = Sum(F, {})
  BY <1>0, <1>1, SumIs
<1> QED BY <1>2, <1>3

\* A term may be taken out of a sum.
LEMMA SumRemove ==
    ASSUME NEW S, IsFiniteSet(S), NEW F, \A y \in S : F[y] \in Int
    PROVE  Sum(F, S) \in Int /\ \A y \in S : Sum(F, S) = F[y] + Sum(F, S \ {y})
<1>0. \A s \in SUBSET S : IsFiniteSet(s) /\ Cardinality(s) \in Nat
  BY FS_Subset, FS_CardinalityType
<1>a. PICK g : Adds(g, F, S)
  BY SumDefined
<1>1. \A s \in SUBSET S :
        /\ s = {} => g[s] = 0
        /\ s # {} => g[s] = F[Pick(s)] + g[s \ {Pick(s)}]
  BY <1>a DEF Adds
<1> DEFINE OK(s) == /\ g[s] \in Int
                    /\ \A y \in s : g[s] = F[y] + g[s \ {y}]
           T == {n \in Nat : \A s \in SUBSET S : Cardinality(s) <= n => OK(s)}
<1>2. 0 \in T
  <2> SUFFICES ASSUME NEW s \in SUBSET S, Cardinality(s) <= 0 PROVE OK(s)
    OBVIOUS
  <2>1. s = {}
    BY <1>0, FS_EmptySet
  <2>2. g[s] = 0
    BY <1>1, <2>1
  <2> QED BY <2>1, <2>2
<1>3. ASSUME NEW n \in T PROVE n + 1 \in T
  <2>0. ASSUME NEW s \in SUBSET S, s = {} PROVE OK(s)
    <3>1. g[s] = 0
      BY <1>1, <2>0
    <3> QED BY <2>0, <3>1
  <2>n. n + 1 \in Nat
    OBVIOUS
  <2> SUFFICES ASSUME NEW s \in SUBSET S, Cardinality(s) <= n + 1, s # {} PROVE OK(s)
    <3> HIDE DEF OK
    <3> QED BY <2>0, <2>n
  <2> DEFINE x == Pick(s)
  <2>1. x \in s
    BY PickIn
  <2>2. ASSUME NEW r \in SUBSET S, NEW y \in r, Cardinality(r) <= n + 1
        PROVE  r \ {y} \in SUBSET S /\ Cardinality(r \ {y}) <= n
    BY <1>0, <2>2, FS_RemoveElement
  <2>3. g[s] = F[x] + g[s \ {x}]
    BY <1>1
  <2> HIDE DEF x
  <2>4. n \in Nat /\ \A r \in SUBSET S : Cardinality(r) <= n => OK(r)
    OBVIOUS
  <2>5. \A y \in s : OK(s \ {y})
    BY <2>2, <2>4
  <2> HIDE DEF T
  <2>6. ASSUME NEW y \in s PROVE g[s] = F[y] + g[s \ {y}]
    <3>1. CASE y = x
      BY <2>3, <3>1
    <3>2. CASE y # x
      <4> DEFINE r == (s \ {x}) \ {y}
      <4>1. r = (s \ {y}) \ {x} /\ y \in s \ {x} /\ x \in s \ {y}
        BY <2>1, <3>2
      <4>2. g[s \ {x}] = F[y] + g[r]
        BY <2>1, <2>5, <4>1
      <4>3. g[s \ {y}] = F[x] + g[(s \ {y}) \ {x}]
        BY <2>5, <4>1
      <4>4. g[r] \in Int
        <5>1. s \ {x} \in SUBSET S /\ Cardinality(s \ {x}) <= n
          BY <2>1, <2>2
        <5>2. Cardinality(s \ {x}) <= n + 1
          BY <1>0, <2>4, <5>1
        <5>3. r \in SUBSET S /\ Cardinality(r) <= n
          BY <2>2, <4>1, <5>1, <5>2
        <5> QED BY <2>4, <5>3
      <4>5. F[x] \in Int /\ F[y] \in Int
        BY <2>1
      <4> HIDE DEF r
      <4> QED BY <2>3, <4>1, <4>2, <4>3, <4>4, <4>5
    <3> QED BY <3>1, <3>2
  <2>7. F[x] \in Int
    BY <2>1
  <2>8. g[s \ {x}] \in Int
    BY <2>1, <2>5
  <2>9. g[s] \in Int
    BY <2>3, <2>7, <2>8
  <2> QED BY <2>6, <2>9
<1>4. T = Nat
  <2>1. T \in SUBSET Nat
    OBVIOUS
  <2> HIDE DEF T
  <2> QED BY <1>2, <1>3, <2>1, Numbers
<1>5. OK(S)
  <2>1. Cardinality(S) \in Nat /\ S \in SUBSET S
    BY <1>0
  <2> HIDE DEF OK
  <2> QED BY <1>4, <2>1
<1>6. \A s \in SUBSET S : g[s] = Sum(F, s)
  BY <1>a, SumIs
<1> QED BY <1>5, <1>6

\* A term may be added, and one sum of natural numbers is one.
LEMMA SumInsert ==
    ASSUME NEW S, IsFiniteSet(S), NEW x, x \notin S, NEW F,
          \A y \in S \cup {x} : F[y] \in Int
    PROVE  Sum(F, S \cup {x}) = F[x] + Sum(F, S) /\ Sum(F, S) \in Int
<1>1. IsFiniteSet(S \cup {x}) /\ (S \cup {x}) \ {x} = S
  BY FS_AddElement
<1>2. Sum(F, S \cup {x}) = F[x] + Sum(F, (S \cup {x}) \ {x})
  BY <1>1, SumRemove
<1>3. Sum(F, S) \in Int
  BY SumRemove
<1> QED BY <1>1, <1>2, <1>3

LEMMA SumNat ==
    ASSUME NEW S, IsFiniteSet(S), NEW F, \A y \in S : F[y] \in Nat
    PROVE  Sum(F, S) \in Nat
<1> DEFINE T == {n \in Nat : \A s \in SUBSET S : Cardinality(s) = n => Sum(F, s) \in Nat}
<1>0. \A s \in SUBSET S : IsFiniteSet(s) /\ Cardinality(s) \in Nat
  BY FS_Subset, FS_CardinalityType
<1>1. 0 \in T
  <2> SUFFICES ASSUME NEW s \in SUBSET S, Cardinality(s) = 0 PROVE Sum(F, s) \in Nat
    OBVIOUS
  <2>1. s = {}
    BY <1>0, FS_EmptySet
  <2> QED BY <2>1, SumOfNone
<1>2. ASSUME NEW n \in T PROVE n + 1 \in T
  <2> SUFFICES ASSUME NEW s \in SUBSET S, Cardinality(s) = n + 1 PROVE Sum(F, s) \in Nat
    OBVIOUS
  <2>1. PICK y : y \in s
    <3>1. s # {}
      BY FS_EmptySet
    <3> QED BY <3>1
  <2>2. s \ {y} \in SUBSET S /\ Cardinality(s \ {y}) = n
    <3>1. IsFiniteSet(s)
      BY <1>0
    <3>2. Cardinality(s \ {y}) = Cardinality(s) - 1
      BY <2>1, <3>1, FS_RemoveElement
    <3> QED BY <3>2
  <2>3. Sum(F, s \ {y}) \in Nat
    BY <2>2
  <2>4. Sum(F, s) = F[y] + Sum(F, s \ {y})
    <3>1. IsFiniteSet(s) /\ \A z \in s : F[z] \in Int
      BY <1>0
    <3> QED BY <2>1, <3>1, SumRemove
  <2>5. F[y] \in Nat
    BY <2>1
  <2> QED BY <2>3, <2>4, <2>5
<1>3. T = Nat
  <2>1. T \in SUBSET Nat
    OBVIOUS
  <2> HIDE DEF T
  <2> QED BY <1>1, <1>2, <2>1, Numbers
<1> QED BY <1>0, <1>3

-----------------------------------------------------------------------------
(* What the open rows hold, and what the answered orders will change.      *)

Holding == [left : Nat, open : BOOLEAN]
Lefts(R) == [i \in DOMAIN R |-> R[i].left]
OpenOf(R) == {i \in DOMAIN R : R[i].open}
SumLeft(R) == Sum(Lefts(R), OpenOf(R))
SumBefore(R, i) == Sum(Lefts(R), {j \in OpenOf(R) : j < i})

LEMMA RowsFinite ==
    ASSUME NEW R \in Seq(Holding)
    PROVE  /\ Len(R) \in Nat /\ DOMAIN R = 1 .. Len(R)
           /\ \A S \in SUBSET DOMAIN R : IsFiniteSet(S)
           /\ \A i \in DOMAIN R : R[i] \in Holding /\ Lefts(R)[i] = R[i].left /\ R[i].left \in Nat
<1>1. Len(R) \in Nat /\ DOMAIN R = 1 .. Len(R) /\ \A i \in DOMAIN R : R[i] \in Holding
  OBVIOUS
<1>2. IsFiniteSet(DOMAIN R)
  BY <1>1, FS_Interval
<1>3. \A S \in SUBSET DOMAIN R : IsFiniteSet(S)
  BY <1>2, FS_Subset
<1> QED BY <1>1, <1>3 DEF Lefts, Holding

\* The fold of the adapter over rows is a sum.
LeftAdds(g, R, S) ==
    g = [s \in SUBSET S |-> IF s = {} THEN 0 ELSE R[Pick(s)].left + g[s \ {Pick(s)}]]

LEMMA LeftFold ==
    ASSUME NEW R \in Seq(Holding), NEW S \in SUBSET DOMAIN R
    PROVE  (CHOOSE g : LeftAdds(g, R, S))[S] = Sum(Lefts(R), S)
<1>0. IsFiniteSet(S) /\ \A i \in S : Lefts(R)[i] = R[i].left
  BY RowsFinite
<1>1. PICK h : Adds(h, Lefts(R), S)
  BY <1>0, SumDefined
<1> DEFINE c == CHOOSE g : LeftAdds(g, R, S)
<1>2. \A s \in SUBSET S : s # {} => Lefts(R)[Pick(s)] = R[Pick(s)].left
  BY <1>0, PickIn
<1>3. LeftAdds(h, R, S)
  <2>1. h = [s \in SUBSET S |-> IF s = {} THEN 0 ELSE Lefts(R)[Pick(s)] + h[s \ {Pick(s)}]]
    BY <1>1 DEF Adds
  <2>2. \A s \in SUBSET S : h[s] = IF s = {} THEN 0 ELSE R[Pick(s)].left + h[s \ {Pick(s)}]
    BY <1>2, <2>1
  <2> QED BY <2>1, <2>2 DEF LeftAdds
<1>4. LeftAdds(c, R, S)
  BY <1>3
<1> HIDE DEF c
<1>5. Adds(c, Lefts(R), S)
  <2>1. c = [s \in SUBSET S |-> IF s = {} THEN 0 ELSE R[Pick(s)].left + c[s \ {Pick(s)}]]
    BY <1>4 DEF LeftAdds
  <2>2. \A s \in SUBSET S : c[s] = IF s = {} THEN 0 ELSE Lefts(R)[Pick(s)] + c[s \ {Pick(s)}]
    BY <1>2, <2>1
  <2> QED BY <2>1, <2>2 DEF Adds
<1>6. c[S] = Sum(Lefts(R), S)
  <2> DEFINE F == Lefts(R)
  <2>1. Adds(c, F, S) /\ IsFiniteSet(S) /\ S \in SUBSET S
    BY <1>0, <1>5
  <2> HIDE DEF F
  <2>2. c[S] = Sum(F, S)
    BY <2>1, SumIs
  <2> QED BY <2>2 DEF F
<1> QED BY <1>6 DEF c

LEMMA LeftIs ==
    ASSUME positions \in Seq(Holding)
    PROVE  /\ Adapter!Left = SumLeft(positions)
           /\ \A i : Adapter!Before(i) = SumBefore(positions, i)
<1>0. Adapter!OpenRows = OpenOf(positions)
  BY DEF Adapter!OpenRows, OpenOf
<1>1. Adapter!Left = (CHOOSE g : LeftAdds(g, positions, Adapter!OpenRows))[Adapter!OpenRows]
  BY DEF Adapter!Left, Adapter!MapThenSumSet, Adapter!MapThenFoldSet, LeftAdds, Pick
<1>2. OpenOf(positions) \in SUBSET DOMAIN positions
  BY DEF OpenOf
<1>3. Adapter!Left = SumLeft(positions)
  BY <1>0, <1>1, <1>2, LeftFold DEF SumLeft
<1>4. ASSUME NEW i PROVE Adapter!Before(i) = SumBefore(positions, i)
  <2> DEFINE S == {j \in Adapter!OpenRows : j < i}
  <2>1. Adapter!Before(i) = (CHOOSE g : LeftAdds(g, positions, S))[S]
    BY DEF Adapter!Before, Adapter!MapThenSumSet, Adapter!MapThenFoldSet, LeftAdds, Pick
  <2>2. S \in SUBSET DOMAIN positions /\ S = {j \in OpenOf(positions) : j < i}
    BY <1>0, <1>2
  <2> HIDE DEF S
  <2> QED BY <2>1, <2>2, LeftFold DEF SumBefore
<1> QED BY <1>3, <1>4

LEMMA SumLeftNat == ASSUME NEW R \in Seq(Holding) PROVE SumLeft(R) \in Nat
<1>1. OpenOf(R) \in SUBSET DOMAIN R
  BY DEF OpenOf
<1>2. IsFiniteSet(OpenOf(R)) /\ \A i \in OpenOf(R) : Lefts(R)[i] \in Nat
  BY <1>1, RowsFinite
<1> QED BY <1>2, SumNat DEF SumLeft

\* A new row adds what it holds.
LEMMA SumLeftAppend ==
    ASSUME NEW R \in Seq(Holding), NEW n \in Nat
    PROVE  LET Q == Append(R, [left |-> n, open |-> TRUE])
           IN  Q \in Seq(Holding) /\ SumLeft(Q) = SumLeft(R) + n
<1> DEFINE Q == Append(R, [left |-> n, open |-> TRUE])
           k == Len(R) + 1
           O == OpenOf(R)
<1>0. [left |-> n, open |-> TRUE] \in Holding
  BY DEF Holding
<1>1. Q \in Seq(Holding) /\ Len(R) \in Nat
  BY <1>0
<1>2. /\ DOMAIN Q = DOMAIN R \cup {k} /\ k \notin DOMAIN R
      /\ Q[k] = [left |-> n, open |-> TRUE] /\ \A i \in DOMAIN R : Q[i] = R[i]
  BY <1>0, RowsFinite
<1> HIDE DEF Q, k
<1>3. OpenOf(Q) = O \cup {k} /\ k \notin O /\ O \in SUBSET DOMAIN R
  BY <1>2 DEF OpenOf
<1>4. Lefts(Q)[k] = n /\ \A i \in O : Lefts(Q)[i] = Lefts(R)[i] /\ Lefts(R)[i] \in Nat
  BY <1>2, <1>3, RowsFinite DEF Lefts
<1>5. IsFiniteSet(O)
  BY <1>3, RowsFinite
<1> HIDE DEF O
<1>6. Sum(Lefts(Q), O \cup {k}) = n + Sum(Lefts(Q), O) /\ Sum(Lefts(Q), O) \in Int
  <2>1. \A i \in O \cup {k} : Lefts(Q)[i] \in Int
    BY <1>4
  <2> QED BY <1>3, <1>4, <1>5, <2>1, SumInsert
<1>7. Sum(Lefts(Q), O) = Sum(Lefts(R), O)
  BY <1>4, <1>5, SumAgrees
<1>8. SumLeft(Q) = SumLeft(R) + n
  BY <1>3, <1>6, <1>7 DEF SumLeft, O
<1> QED BY <1>1, <1>8 DEF Q

\* close_positions_fifo takes no more from the open rows than it was given.
LEMMA FifoTakes ==
    ASSUME NEW R \in Seq(Holding), NEW q \in Nat, NEW T, NEW Q,
           \A i \in DOMAIN R :
              T[i] = IF i \notin OpenOf(R) \/ q <= SumBefore(R, i) THEN 0
                     ELSE IF R[i].left <= q - SumBefore(R, i) THEN R[i].left
                          ELSE q - SumBefore(R, i),
           Q = [i \in DOMAIN R |-> [left |-> R[i].left - T[i],
                                    open |-> R[i].open /\ (T[i] = 0 \/ T[i] < R[i].left)]]
    PROVE  Q \in Seq(Holding) /\ SumLeft(R) <= SumLeft(Q) + q
<1> DEFINE O(k) == {j \in OpenOf(R) : j < k}
           P(k) == {j \in OpenOf(Q) : j < k}
           B(k) == Sum(Lefts(R), O(k))
           C(k) == Sum(Lefts(Q), P(k))
           n == Len(R)
<1>0. n \in Nat /\ DOMAIN R = 1 .. n /\ \A i \in DOMAIN R : R[i] \in Holding /\ R[i].left \in Nat
  BY RowsFinite
<1>1. ASSUME NEW k \in Nat
      PROVE  /\ O(k) \in SUBSET DOMAIN R /\ IsFiniteSet(O(k)) /\ B(k) \in Nat
             /\ SumBefore(R, k) = B(k)
  <2>1. O(k) \in SUBSET DOMAIN R
    BY DEF OpenOf
  <2>2. IsFiniteSet(O(k)) /\ \A i \in O(k) : Lefts(R)[i] \in Nat
    BY <2>1, RowsFinite
  <2> QED BY <2>1, <2>2, SumNat DEF SumBefore
<1>2. ASSUME NEW i \in DOMAIN R
      PROVE  /\ T[i] \in Nat /\ T[i] <= R[i].left
             /\ i \notin OpenOf(R) => T[i] = 0
             /\ i \in OpenOf(R) /\ q <= B(i) => T[i] = 0
             /\ i \in OpenOf(R) /\ ~(q <= B(i)) =>
                  T[i] = IF R[i].left <= q - B(i) THEN R[i].left ELSE q - B(i)
  <2>0. i \in Nat /\ R[i].left \in Nat
    BY <1>0
  <2> HIDE DEF B, O
  <2>1. B(i) \in Nat /\ SumBefore(R, i) = B(i)
    BY <1>1, <2>0
  <2> QED BY <2>0, <2>1
<1>3. Q \in Seq(Holding) /\ DOMAIN Q = DOMAIN R
      /\ \A i \in DOMAIN R : Lefts(Q)[i] = R[i].left - T[i] /\ Lefts(R)[i] = R[i].left
                             /\ (i \in OpenOf(Q) <=> i \in OpenOf(R) /\ (T[i] = 0 \/ T[i] < R[i].left))
  <2>1. DOMAIN Q = 1 .. n
    BY <1>0
  <2>2. \A i \in 1 .. n : Q[i] \in Holding
    <3> SUFFICES ASSUME NEW i \in 1 .. n PROVE Q[i] \in Holding
      OBVIOUS
    <3>1. i \in DOMAIN R /\ R[i].left \in Nat /\ R[i].open \in BOOLEAN
      BY <1>0 DEF Holding
    <3>2. T[i] \in Nat /\ T[i] <= R[i].left
      BY <1>2, <3>1
    <3>3. R[i].left - T[i] \in Nat
      BY <3>1, <3>2
    <3>4. Q[i] = [left |-> R[i].left - T[i],
                  open |-> R[i].open /\ (T[i] = 0 \/ T[i] < R[i].left)]
      BY <3>1
    <3> QED BY <3>3, <3>4 DEF Holding
  <2>3. Q \in Seq(Holding)
    <3>1. Q = [i \in 1 .. n |-> Q[i]]
      BY <1>0
    <3> HIDE DEF n
    <3>2. [i \in 1 .. n |-> Q[i]] \in [1 .. n -> Holding]
      BY <2>2
    <3>3. Q \in [1 .. n -> Holding]
      BY <3>1, <3>2
    <3> QED BY <1>0, <3>3
  <2>4. \A i \in DOMAIN R : Q[i].left = R[i].left - T[i]
                            /\ (Q[i].open <=> R[i].open /\ (T[i] = 0 \/ T[i] < R[i].left))
    BY <1>0
  <2> QED BY <1>0, <2>1, <2>3, <2>4 DEF Lefts, OpenOf
<1>4. ASSUME NEW k \in Nat
      PROVE  P(k) \in SUBSET DOMAIN R /\ IsFiniteSet(P(k)) /\ C(k) \in Nat
  <2>1. P(k) \in SUBSET DOMAIN Q
    BY DEF OpenOf
  <2>2. IsFiniteSet(P(k)) /\ \A i \in P(k) : Lefts(Q)[i] \in Nat
    BY <1>3, <2>1, RowsFinite
  <2> QED BY <1>3, <2>1, <2>2, SumNat
<1>5. ASSUME NEW k \in DOMAIN R
      PROVE  /\ k \notin OpenOf(R) => B(k + 1) = B(k) /\ C(k + 1) = C(k)
             /\ k \in OpenOf(R) => B(k + 1) = R[k].left + B(k)
                                   /\ C(k + 1) = (R[k].left - T[k]) + C(k)
  <2>0. k \in Nat /\ k + 1 \in Nat
    BY <1>0
  <2>1. /\ OpenOf(R) \in SUBSET Nat /\ OpenOf(Q) \in SUBSET Nat
        /\ k \notin O(k) /\ k \notin P(k)
    BY <1>0, <1>3, <2>0 DEF OpenOf
  <2>a. \A S \in SUBSET Nat : /\ k \notin S => {j \in S : j < k + 1} = {j \in S : j < k}
                              /\ k \in S => {j \in S : j < k + 1} = {j \in S : j < k} \cup {k}
    <3> SUFFICES ASSUME NEW S \in SUBSET Nat
                 PROVE  /\ k \notin S => {j \in S : j < k + 1} = {j \in S : j < k}
                        /\ k \in S => {j \in S : j < k + 1} = {j \in S : j < k} \cup {k}
      OBVIOUS
    <3>1. \A j \in S : j < k + 1 <=> (j < k \/ j = k)
      BY <2>0
    <3>2. ~(k < k)
      BY <2>0
    <3> QED BY <3>1, <3>2
  <2>2. /\ k \notin OpenOf(R) => O(k + 1) = O(k)
        /\ k \in OpenOf(R) => O(k + 1) = O(k) \cup {k}
        /\ k \notin OpenOf(Q) => P(k + 1) = P(k)
        /\ k \in OpenOf(Q) => P(k + 1) = P(k) \cup {k}
    BY <2>1, <2>a
  <2>3. /\ IsFiniteSet(O(k)) /\ IsFiniteSet(P(k)) /\ B(k) \in Nat /\ C(k) \in Nat
        /\ O(k) \in SUBSET DOMAIN R /\ P(k) \in SUBSET DOMAIN R
    BY <1>1, <1>4, <2>0
  <2>4. \A i \in DOMAIN R : Lefts(R)[i] \in Int /\ Lefts(Q)[i] \in Int
    <3>1. \A i \in DOMAIN R : R[i].left \in Nat /\ T[i] \in Nat
      BY <1>0, <1>2
    <3>2. \A i \in DOMAIN R : Lefts(Q)[i] = R[i].left - T[i] /\ Lefts(R)[i] = R[i].left
      BY <1>3
    <3> SUFFICES ASSUME NEW i \in DOMAIN R PROVE Lefts(R)[i] \in Int /\ Lefts(Q)[i] \in Int
      OBVIOUS
    <3>3. R[i].left \in Nat /\ T[i] \in Nat
      BY <3>1
    <3>4. Lefts(Q)[i] = R[i].left - T[i] /\ Lefts(R)[i] = R[i].left
      BY <3>2
    <3> DEFINE l == R[i].left
    <3>5. l - T[i] \in Int /\ l \in Int
      BY <3>3
    <3> QED BY <3>4, <3>5
  <2>5. Sum(Lefts(R), O(k) \cup {k}) = Lefts(R)[k] + Sum(Lefts(R), O(k))
    <3> HIDE DEF O
    <3>1. \A i \in O(k) \cup {k} : Lefts(R)[i] \in Int
      BY <2>3, <2>4
    <3> QED BY <2>1, <2>3, <3>1, SumInsert
  <2>6. Sum(Lefts(Q), P(k) \cup {k}) = Lefts(Q)[k] + Sum(Lefts(Q), P(k))
    <3> HIDE DEF P
    <3>1. \A i \in P(k) \cup {k} : Lefts(Q)[i] \in Int
      BY <2>3, <2>4
    <3> QED BY <2>1, <2>3, <3>1, SumInsert
  <2>7. ASSUME k \in OpenOf(R) PROVE C(k + 1) = (R[k].left - T[k]) + C(k)
    <3>1. CASE k \in OpenOf(Q)
      BY <1>3, <2>2, <2>6, <3>1
    <3>2. CASE k \notin OpenOf(Q)
      <4>0. R[k].left \in Nat /\ T[k] \in Nat /\ T[k] <= R[k].left
        BY <1>0, <1>2
      <4>1. R[k].left - T[k] = 0
        <5>1. ~(T[k] = 0 \/ T[k] < R[k].left)
          BY <1>3, <2>7, <3>2
        <5> QED BY <4>0, <5>1
      <4>2. C(k + 1) = C(k)
        BY <2>2, <3>2
      <4> HIDE DEF C
      <4> QED BY <2>3, <4>1, <4>2
    <3> QED BY <3>1, <3>2
  <2>8. ASSUME k \in OpenOf(R) PROVE B(k + 1) = R[k].left + B(k)
    BY <1>3, <2>2, <2>5, <2>8
  <2>9. ASSUME k \notin OpenOf(R) PROVE B(k + 1) = B(k) /\ C(k + 1) = C(k)
    BY <1>3, <2>2, <2>9
  <2> HIDE DEF B, C
  <2> QED BY <2>7, <2>8, <2>9
<1> DEFINE Spent(k) == IF q <= B(k) THEN q ELSE B(k)
           N == {k \in Nat : k + 1 \in 1 .. n + 1 => B(k + 1) <= C(k + 1) + Spent(k + 1)}
<1>6. 0 \in N
  <2>1. O(1) = {}
    BY <1>0 DEF OpenOf
  <2>2. B(1) = 0
    BY <2>1, SumOfNone
  <2>3. C(1) \in Nat
    BY <1>4
  <2> HIDE DEF B, C
  <2> QED BY <2>2, <2>3
<1>7. ASSUME NEW k \in N PROVE k + 1 \in N
  <2> SUFFICES ASSUME (k + 1) + 1 \in 1 .. n + 1
               PROVE  B((k + 1) + 1) <= C((k + 1) + 1) + Spent((k + 1) + 1)
    OBVIOUS
  <2> DEFINE m == k + 1
  <2>1. m \in DOMAIN R /\ m \in Nat /\ m + 1 \in Nat /\ B(m) <= C(m) + Spent(m)
    BY <1>0
  <2>2. B(m) \in Nat /\ C(m) \in Nat /\ B(m + 1) \in Nat /\ C(m + 1) \in Nat
    BY <1>1, <1>4, <2>1
  <2>3. /\ m \notin OpenOf(R) => B(m + 1) = B(m) /\ C(m + 1) = C(m)
        /\ m \in OpenOf(R) => B(m + 1) = R[m].left + B(m)
                              /\ C(m + 1) = (R[m].left - T[m]) + C(m)
    BY <1>5, <2>1
  <2>4. R[m].left \in Nat /\ T[m] \in Nat /\ T[m] <= R[m].left
        /\ (m \in OpenOf(R) /\ q <= B(m) => T[m] = 0)
        /\ (m \in OpenOf(R) /\ ~(q <= B(m)) =>
                T[m] = IF R[m].left <= q - B(m) THEN R[m].left ELSE q - B(m))
    BY <1>0, <1>2, <2>1
  <2> HIDE DEF B, C, m, N
  <2>5. CASE m \notin OpenOf(R)
    BY <2>1, <2>2, <2>3, <2>5 DEF m
  <2>6. CASE m \in OpenOf(R) /\ q <= B(m)
    <3>1. B(m) <= C(m) + q /\ B(m + 1) = R[m].left + B(m) /\ C(m + 1) = R[m].left + C(m)
      BY <2>1, <2>2, <2>3, <2>4, <2>6
    <3>2. Spent(m + 1) = q
      BY <2>2, <2>4, <2>6, <3>1
    <3> HIDE DEF Spent
    <3>4. R[m].left \in Nat /\ q \in Nat /\ B(m) \in Nat /\ C(m) \in Nat
      BY <2>2, <2>4
    <3>5. B(m + 1) = R[m].left + B(m) /\ C(m + 1) + Spent(m + 1) = R[m].left + C(m) + q
      BY <3>1, <3>2, <3>4
    <3>3. B(m + 1) <= C(m + 1) + Spent(m + 1)
      BY <3>1, <3>4, <3>5
    <3> QED BY <3>3 DEF m
  <2>7. CASE m \in OpenOf(R) /\ ~(q <= B(m))
    <3>1. B(m + 1) = R[m].left + B(m) /\ C(m + 1) = (R[m].left - T[m]) + C(m)
      BY <2>3, <2>7
    <3>0. q \in Nat /\ T[m] = IF R[m].left <= q - B(m) THEN R[m].left ELSE q - B(m)
      BY <1>0, <2>4, <2>7
    <3>2. Spent(m + 1) = B(m) + T[m]
      <4>1. CASE R[m].left <= q - B(m)
        BY <2>2, <2>4, <2>7, <3>0, <3>1, <4>1
      <4>2. CASE ~(R[m].left <= q - B(m))
        BY <2>2, <2>4, <2>7, <3>0, <3>1, <4>2
      <4> QED BY <4>1, <4>2
    <3> HIDE DEF Spent
    <3>4. R[m].left \in Nat /\ T[m] \in Nat /\ B(m) \in Nat /\ C(m) \in Nat
      BY <2>2, <2>4
    <3>5. B(m + 1) = R[m].left + B(m)
          /\ C(m + 1) + Spent(m + 1) = (R[m].left - T[m]) + C(m) + (B(m) + T[m])
      BY <3>1, <3>2
    <3>3. B(m + 1) <= C(m + 1) + Spent(m + 1)
      BY <3>4, <3>5
    <3> QED BY <3>3 DEF m
  <2> QED BY <2>5, <2>6, <2>7
<1>8. N = Nat
  <2>1. N \in SUBSET Nat
    OBVIOUS
  <2> HIDE DEF N
  <2> QED BY <1>6, <1>7, <2>1, Numbers
<1>9. B(n + 1) <= C(n + 1) + Spent(n + 1)
  <2>1. n \in N
    BY <1>0, <1>8
  <2> HIDE DEF B, C, Spent
  <2> QED BY <1>0, <2>1
<1>10. O(n + 1) = OpenOf(R) /\ P(n + 1) = OpenOf(Q)
  BY <1>0, <1>3 DEF OpenOf
<1>11. B(n + 1) = SumLeft(R) /\ C(n + 1) = SumLeft(Q)
  BY <1>10 DEF SumLeft
<1>12. B(n + 1) \in Nat /\ C(n + 1) \in Nat
  <2>1. n + 1 \in Nat
    BY <1>0
  <2> HIDE DEF B, C, O, P
  <2> QED BY <1>1, <1>4, <2>1
<1> HIDE DEF B, C
<1> QED BY <1>3, <1>9, <1>11, <1>12

-----------------------------------------------------------------------------
(* The adapter.                                                            *)

Sending == [at : {"idle", "sent", "answered"}, pid : Nat, qty : Nat, got : Nat, over : Nat]
Placed == [Adapter!Callers -> Sending]
Other(t) == IF t = "monitor" THEN "web" ELSE "monitor"

\* What the booking of an answered order will add to, or keep in, the rows beyond
\* what the exchange did.
Change(o) == [t \in Adapter!Callers |-> IF o[t].pid = 0 THEN o[t].got ELSE o[t].over - o[t].got]
Fly(o, t) == IF o[t].at = "answered" THEN Change(o)[t] ELSE 0
Flying(o) == Fly(o, "monitor") + Fly(o, "web")
AnsweredOf(o) == {t \in Adapter!Callers : o[t].at = "answered"}

AdapterTyped ==
    /\ venue \in {"bullet", "binance"}
    /\ held \in Nat
    /\ positions \in Seq(Holding)
    /\ order \in Placed
    /\ \A t \in Adapter!Callers : /\ order[t].over <= order[t].got
                                  /\ order[t].at = "sent" => order[t].got = 0 /\ order[t].over = 0
    /\ astray \in BOOLEAN

\* What is held has a row, or will have one.
TrackInv == AdapterTyped /\ (~astray => held <= SumLeft(positions) + Flying(order))

FlyAdds(g, o, S) ==
    g = [s \in SUBSET S |-> IF s = {} THEN 0
           ELSE (IF o[Pick(s)].pid = 0 THEN o[Pick(s)].got ELSE o[Pick(s)].over - o[Pick(s)].got)
                + g[s \ {Pick(s)}]]

LEMMA FlyFold ==
    ASSUME NEW o
    PROVE  (CHOOSE g : FlyAdds(g, o, AnsweredOf(o)))[AnsweredOf(o)] = Sum(Change(o),
          AnsweredOf(o))
<1> DEFINE S == AnsweredOf(o)
           F == Change(o)
           V(x) == IF o[x].pid = 0 THEN o[x].got ELSE o[x].over - o[x].got
<1>0. IsFiniteSet(S) /\ S \in SUBSET Adapter!Callers
  <2>1. IsFiniteSet({"monitor", "web"})
    <3>1. IsFiniteSet({"monitor"} \cup {"web"})
      BY FS_Singleton, FS_AddElement
    <3>2. {"monitor"} \cup {"web"} = {"monitor", "web"}
      OBVIOUS
    <3> QED BY <3>1, <3>2
  <2> QED BY <2>1, FS_Subset DEF Adapter!Callers, AnsweredOf
<1>1. \A x \in S : F[x] = V(x)
  BY <1>0 DEF Change
<1> HIDE DEF F, S
<1>2. PICK h : Adds(h, F, S)
  BY <1>0, SumDefined
<1> DEFINE c == CHOOSE g : FlyAdds(g, o, S)
<1>3. \A s \in SUBSET S : s # {} => F[Pick(s)] = V(Pick(s))
  BY <1>1, PickIn
<1>4. FlyAdds(h, o, S)
  <2>1. h = [s \in SUBSET S |-> IF s = {} THEN 0 ELSE F[Pick(s)] + h[s \ {Pick(s)}]]
    BY <1>2 DEF Adds
  <2>2. \A s \in SUBSET S : h[s] = IF s = {} THEN 0 ELSE V(Pick(s)) + h[s \ {Pick(s)}]
    BY <1>3, <2>1
  <2> QED BY <2>1, <2>2 DEF FlyAdds
<1>5. FlyAdds(c, o, S)
  BY <1>4
<1> HIDE DEF c
<1>6. Adds(c, F, S)
  <2>1. c = [s \in SUBSET S |-> IF s = {} THEN 0 ELSE V(Pick(s)) + c[s \ {Pick(s)}]]
    BY <1>5 DEF FlyAdds
  <2>2. \A s \in SUBSET S : c[s] = IF s = {} THEN 0 ELSE F[Pick(s)] + c[s \ {Pick(s)}]
    BY <1>3, <2>1
  <2> QED BY <2>1, <2>2 DEF Adds
<1>7. S \in SUBSET S
  OBVIOUS
<1>8. c[S] = Sum(F, S)
  BY <1>0, <1>6, <1>7, SumIs
<1> QED BY <1>8 DEF c, S, F

\* Two threads, two terms.
LEMMA FlyIsTwo ==
    ASSUME NEW o \in Placed
    PROVE  Sum(Change(o), AnsweredOf(o)) = Flying(o)
<1> DEFINE F == Change(o)
           S == AnsweredOf(o)
           m == "monitor"
           w == "web"
<1>0. F[m] \in Int /\ F[w] \in Int
  BY DEF Change, Placed, Sending, Adapter!Callers
<1>1. /\ S = (IF o[m].at = "answered" THEN {m} ELSE {})
               \cup (IF o[w].at = "answered" THEN {w} ELSE {})
      /\ m # w
  BY DEF AnsweredOf, Adapter!Callers
<1>2. Flying(o) = (IF o[m].at = "answered" THEN F[m] ELSE 0)
                  + (IF o[w].at = "answered" THEN F[w] ELSE 0)
  BY DEF Flying, Fly
<1> HIDE DEF F, S, m, w
<1>3. IsFiniteSet({}) /\ IsFiniteSet({w}) /\ Sum(F, {}) = 0
  BY FS_EmptySet, FS_Singleton, SumOfNone
<1>4. ASSUME NEW x \in {m, w} PROVE Sum(F, {x}) = F[x]
  <2>1. Sum(F, {} \cup {x}) = F[x] + Sum(F, {})
    BY <1>0, <1>3, SumInsert
  <2>2. {} \cup {x} = {x} /\ F[x] \in Int
    BY <1>0
  <2> QED BY <1>3, <2>1, <2>2
<1>5. Sum(F, {w} \cup {m}) = F[m] + F[w]
  <2>1. Sum(F, {w} \cup {m}) = F[m] + Sum(F, {w})
    BY <1>0, <1>1, <1>3, SumInsert
  <2> QED BY <1>4, <2>1
<1>6. CASE o[m].at = "answered" /\ o[w].at = "answered"
  <2>1. S = {w} \cup {m} /\ Flying(o) = F[m] + F[w]
    BY <1>1, <1>2, <1>6
  <2> QED BY <1>5, <2>1 DEF F, S
<1>7. CASE o[m].at = "answered" /\ o[w].at # "answered"
  <2>1. S = {m} /\ Flying(o) = F[m]
    BY <1>0, <1>1, <1>2, <1>7
  <2> QED BY <1>4, <2>1 DEF F, S
<1>8. CASE o[m].at # "answered" /\ o[w].at = "answered"
  <2>1. S = {w} /\ Flying(o) = F[w]
    BY <1>0, <1>1, <1>2, <1>8
  <2> QED BY <1>4, <2>1 DEF F, S
<1>9. CASE o[m].at # "answered" /\ o[w].at # "answered"
  <2>1. S = {} /\ Flying(o) = 0
    BY <1>0, <1>1, <1>2, <1>9
  <2> QED BY <1>3, <2>1 DEF F, S
<1> QED BY <1>6, <1>7, <1>8, <1>9

LEMMA TrackedIs == ASSUME TrackInv PROVE Adapter!Tracked /\ Adapter!NoFlip
<1>1. Adapter!Left = SumLeft(positions)
  BY LeftIs DEF TrackInv, AdapterTyped
<1>2. Adapter!InFlight = Flying(order)
  <2>1. Adapter!InFlight = (CHOOSE g : FlyAdds(g, order,
        AnsweredOf(order)))[AnsweredOf(order)]
    BY DEF Adapter!InFlight, Adapter!MapThenSumSet, Adapter!MapThenFoldSet, Adapter!Opening,
           FlyAdds, Pick, AnsweredOf
  <2>2. order \in Placed
    BY DEF TrackInv, AdapterTyped
  <2> QED BY <2>1, <2>2, FlyFold, FlyIsTwo
<1> QED BY <1>1, <1>2 DEF TrackInv, AdapterTyped, Adapter!Tracked, Adapter!NoFlip

LEMMA TrackInit == ASSUME Adapter!Init PROVE TrackInv
<1>1. /\ venue \in {"bullet", "binance"} /\ held = 0 /\ positions = <<>>
      /\ order = [t \in Adapter!Callers |-> Adapter!Idle] /\ astray = FALSE
  BY DEF Adapter!Init, Adapter!Venues
<1>2. /\ positions \in Seq(Holding) /\ order \in Placed
      /\ \A t \in Adapter!Callers : order[t] = Adapter!Idle
  BY <1>1 DEF Placed, Sending, Adapter!Idle
<1>3. AdapterTyped
  <2>1. \A t \in Adapter!Callers : /\ order[t].over <= order[t].got
                                   /\ order[t].at = "sent" => order[t].got = 0 /\ order[t].over = 0
    BY <1>2 DEF Adapter!Idle
  <2>2. held \in Nat /\ astray \in BOOLEAN
    BY <1>1
  <2> QED BY <1>1, <1>2, <2>1, <2>2 DEF AdapterTyped
<1>4. Flying(order) = 0
  BY <1>2 DEF Flying, Fly, Adapter!Callers, Adapter!Idle
<1>5. SumLeft(positions) \in Nat
  BY <1>2, SumLeftNat
<1> QED BY <1>1, <1>3, <1>4, <1>5 DEF TrackInv

\* What the threads' orders come to, one thread at a time.
LEMMA FlyingOf ==
    ASSUME NEW o \in Placed, NEW t \in Adapter!Callers
    PROVE  /\ Other(t) \in Adapter!Callers \ {t} /\ Adapter!Callers = {t, Other(t)}
           /\ Fly(o, t) \in Int /\ Fly(o, Other(t)) \in Int
           /\ Flying(o) = Fly(o, t) + Fly(o, Other(t))
<1>1. Other(t) \in Adapter!Callers \ {t} /\ Adapter!Callers = {t, Other(t)}
  BY DEF Other, Adapter!Callers
<1>2. \A u \in Adapter!Callers : Fly(o, u) \in Int
  BY DEF Fly, Change, Placed, Sending
<1>3. Flying(o) = Fly(o, t) + Fly(o, Other(t))
  BY <1>2 DEF Flying, Other, Adapter!Callers
<1> QED BY <1>1, <1>2, <1>3

\* A thread's order changes, the other's does not.
LEMMA FlyingMoves ==
    ASSUME NEW o \in Placed, NEW p \in Placed, NEW t \in Adapter!Callers,
           p[Other(t)] = o[Other(t)]
    PROVE  /\ Fly(o, Other(t)) \in Int /\ Fly(p, t) \in Int /\ Fly(o, t) \in Int
           /\ Flying(o) = Fly(o, t) + Fly(o, Other(t))
           /\ Flying(p) = Fly(p, t) + Fly(o, Other(t))
<1>1. Fly(p, Other(t)) = Fly(o, Other(t))
  BY FlyingOf DEF Fly, Change
<1> QED BY <1>1, FlyingOf

\* The same of the whole invariant: what the step must do to held, to the rows
\* and to the thread's order.
LEMMA TrackMoves ==
    ASSUME TrackInv, NEW t \in Adapter!Callers,
           order' \in Placed, order'[Other(t)] = order[Other(t)],
           order'[t].over <= order'[t].got,
           order'[t].at = "sent" => order'[t].got = 0 /\ order'[t].over = 0,
           venue' = venue, held' \in Nat, positions' \in Seq(Holding), astray' \in BOOLEAN,
           ~astray' =>
              /\ ~astray
              /\ \/ held' - held <= (SumLeft(positions') - SumLeft(positions))
                                    + (Fly(order', t) - Fly(order, t))
                 \/ held' = 0 /\ Fly(order', t) = 0 /\ Fly(order, Other(t)) = 0
    PROVE  TrackInv'
<1> DEFINE u == Other(t)
<1>0. order \in Placed /\ held \in Nat /\ positions \in Seq(Holding)
  BY DEF TrackInv, AdapterTyped
<1>1. /\ Fly(order, u) \in Int /\ Fly(order', t) \in Int /\ Fly(order, t) \in Int
      /\ Flying(order) = Fly(order, t) + Fly(order, u)
      /\ Flying(order') = Fly(order', t) + Fly(order, u)
  <2> DEFINE p == order'
  <2>1. p \in Placed /\ p[u] = order[u]
    OBVIOUS
  <2> HIDE DEF p
  <2>2. /\ Fly(order, u) \in Int /\ Fly(p, t) \in Int /\ Fly(order, t) \in Int
        /\ Flying(order) = Fly(order, t) + Fly(order, u)
        /\ Flying(p) = Fly(p, t) + Fly(order, u)
    BY <1>0, <2>1, FlyingMoves
  <2> QED BY <2>2 DEF p
<1>2. u \in Adapter!Callers /\ Adapter!Callers = {t, u}
  BY <1>0, FlyingOf
<1>3. SumLeft(positions) \in Nat /\ SumLeft(positions') \in Nat
  BY <1>0, SumLeftNat
<1> HIDE DEF u
<1>4. \A v \in Adapter!Callers : /\ order'[v].over <= order'[v].got
                                 /\ order'[v].at = "sent" => order'[v].got = 0 /\ order'[v].over = 0
  BY <1>2 DEF u, TrackInv, AdapterTyped
<1>5. AdapterTyped'
  <2>1. Adapter!Callers' = Adapter!Callers /\ Placed' = Placed /\ Holding' = Holding
    BY DEF Adapter!Callers, Placed, Holding, Sending
  <2> QED BY <1>1, <1>4, <2>1 DEF TrackInv, AdapterTyped
<1>6. ASSUME ~astray' PROVE held' <= SumLeft(positions') + Flying(order')
  <2> DEFINE ft == Fly(order, t)
             gt == Fly(order', t)
             fu == Fly(order, u)
             s == SumLeft(positions)
             z == SumLeft(positions')
             h == held'
  <2>1. ft \in Int /\ gt \in Int /\ fu \in Int /\ s \in Nat /\ z \in Nat /\ h \in Nat /\ held \in Nat
    BY <1>0, <1>1, <1>3
  <2>2. Flying(order') = gt + fu /\ Flying(order) = ft + fu
    BY <1>1
  <2>3. held <= s + (ft + fu)
    BY <1>6, <2>2 DEF TrackInv
  <2>4. \/ h - held <= (z - s) + (gt - ft)
        \/ h = 0 /\ gt = 0 /\ fu = 0
    BY <1>6 DEF u
  <2> HIDE DEF ft, gt, fu, s, z, h
  <2>5. h <= z + (gt + fu)
    BY <2>1, <2>3, <2>4
  <2> QED BY <2>2, <2>5 DEF z, h
<1>7. (SumLeft(positions))' = SumLeft(positions') /\ (Flying(order))' = Flying(order')
  BY DEF SumLeft, Sum, Adds, Pick, Lefts, OpenOf, Flying, Fly, Change, Adapter!Callers
<1> QED BY <1>5, <1>6, <1>7 DEF TrackInv

\* An answer: what it claims is on its way, less what the exchange did not do.
LEMMA AnswerComes ==
    ASSUME TrackInv, NEW t \in Adapter!Callers, Adapter!Sent(t), NEW got \in Nat,
          NEW took \in Nat,
           took <= got, order' = Adapter!Answered(t, got, took),
           UNCHANGED <<venue, positions, astray>>,
           held' = Adapter!AfterTaking(t, took) \/ (took = 0 /\ held' = held), held' \in Nat
    PROVE  TrackInv'
<1>0. /\ order \in Placed /\ order[t] \in Sending /\ order[t].at = "sent"
      /\ held \in Nat /\ positions \in Seq(Holding) /\ astray \in BOOLEAN
  BY DEF TrackInv, AdapterTyped, Adapter!Sent, Placed
<1> DEFINE r == [order[t] EXCEPT !.at = "answered", !.qty = 0, !.got = got,
      !.over = got - took]
<1>1. order' = [order EXCEPT ![t] = r]
  BY <1>0 DEF Adapter!Answered, Placed, Sending
<1>2. r \in Sending /\ r.at = "answered" /\ r.pid = order[t].pid /\ r.got = got /\ r.over = got - took
  <2> DEFINE n == got - took
  <2>1. n \in Nat
    OBVIOUS
  <2>2. r = [order[t] EXCEPT !.at = "answered", !.qty = 0, !.got = got, !.over = n]
    OBVIOUS
  <2> HIDE DEF n, r
  <2>3. r \in Sending /\ r.at = "answered" /\ r.pid = order[t].pid /\ r.got = got /\ r.over = n
    BY <1>0, <2>1, <2>2 DEF Sending
  <2> QED BY <2>3 DEF n
<1> HIDE DEF r
<1>3. order' \in Placed /\ order'[t] = r /\ order'[Other(t)] = order[Other(t)]
  BY <1>0, <1>1, <1>2, FlyingOf DEF Placed
<1>4. Fly(order, t) = 0 /\ Fly(order',
      t) = IF order[t].pid = 0 THEN got ELSE (got - took) - got
  BY <1>0, <1>2, <1>3 DEF Fly, Change
<1>5. held' - held <= Fly(order', t) /\ held' - held \in Int /\ Fly(order', t) \in Int
  <2> DEFINE h == held'
             f == Fly(order', t)
  <2>0. held \in Nat /\ h \in Nat
    BY <1>0
  <2>1. CASE order[t].pid = 0
    <3>1. h = held + took \/ h = held
      BY <2>1 DEF Adapter!AfterTaking, Adapter!Opening
    <3>2. f = got
      BY <1>4, <2>1
    <3> HIDE DEF h, f
    <3>3. h - held <= f /\ h - held \in Int /\ f \in Int
      BY <2>0, <3>1, <3>2
    <3> QED BY <3>3 DEF h, f
  <2>2. CASE order[t].pid # 0
    <3>1. h = held - took
      BY <1>0, <2>2 DEF Adapter!AfterTaking, Adapter!Opening
    <3>2. f = (got - took) - got
      BY <1>4, <2>2
    <3> HIDE DEF h, f
    <3>3. h - held <= f /\ h - held \in Int /\ f \in Int
      BY <2>0, <3>1, <3>2
    <3> QED BY <3>3 DEF h, f
  <2> QED BY <2>1, <2>2
<1>6. SumLeft(positions') - SumLeft(positions) = 0
  <2>1. SumLeft(positions) \in Nat
    BY <1>0, SumLeftNat
  <2>2. SumLeft(positions') = SumLeft(positions)
    BY DEF SumLeft, OpenOf, Lefts
  <2> QED BY <2>1, <2>2
<1>7. held' - held <= (SumLeft(positions') - SumLeft(positions)) + (Fly(order',
      t) - Fly(order, t))
  <2> DEFINE a == held' - held
             b == SumLeft(positions') - SumLeft(positions)
             f == Fly(order', t)
             g == Fly(order, t)
  <2>1. a <= f /\ b = 0 /\ f \in Int /\ g = 0 /\ a \in Int
    BY <1>4, <1>5, <1>6
  <2> HIDE DEF a, b, f, g
  <2>2. a <= b + (f - g)
    BY <2>1
  <2> QED BY <2>2 DEF a, b, f, g
<1>8. order'[t].over <= order'[t].got /\ order'[t].at # "sent"
  BY <1>2, <1>3
<1> QED BY <1>0, <1>3, <1>7, <1>8, TrackMoves

\* An order that ends unbooked, or is placed, while it is not answered.
LEMMA NothingFlies ==
    ASSUME TrackInv, NEW t \in Adapter!Callers,
           order' \in Placed, order'[Other(t)] = order[Other(t)],
           order'[t].at # "answered", order'[t].got = 0, order'[t].over = 0,
           order[t].at # "answered",
           held' \in Nat, astray' \in BOOLEAN, ~astray' => held' <= held /\ ~astray,
           UNCHANGED <<venue, positions>>
    PROVE  TrackInv'
<1>0. order \in Placed /\ held \in Nat /\ positions \in Seq(Holding)
  BY DEF TrackInv, AdapterTyped
<1>2. Fly(order, t) = 0 /\ Fly(order', t) = 0
  BY DEF Fly
<1>3. SumLeft(positions') - SumLeft(positions) = 0
  <2>1. SumLeft(positions) \in Nat
    BY <1>0, SumLeftNat
  <2>2. SumLeft(positions') = SumLeft(positions)
    BY DEF SumLeft, OpenOf, Lefts
  <2> QED BY <2>1, <2>2
<1>4. ~astray' => held' - held <= (SumLeft(positions') - SumLeft(positions))
                                  + (Fly(order', t) - Fly(order, t))
  <2> DEFINE b == SumLeft(positions') - SumLeft(positions)
             f == Fly(order', t) - Fly(order, t)
             h == held'
  <2>1. b = 0 /\ f = 0 /\ held \in Nat /\ h \in Nat /\ (~astray' => h <= held)
    BY <1>0, <1>2, <1>3
  <2> HIDE DEF b, f, h
  <2>2. ~astray' => h - held <= b + f
    BY <2>1
  <2> QED BY <2>2 DEF b, f, h
<1>5. order'[t].over <= order'[t].got /\ (order'[t].at = "sent" => order'[t].got = 0 /\ order'[t].over = 0)
  OBVIOUS
<1> QED BY <1>0, <1>4, <1>5, TrackMoves

\* A booking, of a fill or of a close that the exchange did not do.
LEMMA BookingTracks ==
    ASSUME TrackInv, NEW t \in Adapter!Callers, order[t].at = "answered",
           positions' = IF Adapter!Opening(t) THEN Adapter!Opened(order[t].got)
                        ELSE Adapter!ClosedFifo(order[t].got),
           astray' = (astray \/ (~Adapter!Opening(t) /\ order[t].over > 0
                                 /\ (held > 0 \/ Adapter!Busy(t)))),
           order' = [order EXCEPT ![t] = Adapter!Idle],
           UNCHANGED <<venue, held>>
    PROVE  TrackInv'
<1>0. /\ order \in Placed /\ order[t] \in Sending /\ held \in Nat
      /\ positions \in Seq(Holding) /\ astray \in BOOLEAN /\ order[t].over <= order[t].got
  BY DEF TrackInv, AdapterTyped, Placed
<1>1. Adapter!Idle \in Sending /\ Adapter!Idle.at = "idle" /\ Adapter!Idle.got = 0 /\ Adapter!Idle.over = 0
  BY DEF Adapter!Idle, Sending
<1>2. order' \in Placed /\ order'[t] = Adapter!Idle /\ order'[Other(t)] = order[Other(t)]
  BY <1>0, <1>1, FlyingOf DEF Placed
<1>3. Fly(order', t) = 0
  BY <1>1, <1>2 DEF Fly
<1>7. /\ order'[t].over <= order'[t].got
      /\ order'[t].at = "sent" => order'[t].got = 0 /\ order'[t].over = 0
      /\ venue' = venue /\ held' \in Nat
  BY <1>0, <1>1, <1>2
<1> DEFINE got == order[t].got
           lost == order[t].over
           s == SumLeft(positions)
           z == SumLeft(positions')
           f == Fly(order, t)
<1>4. got \in Nat /\ lost \in Nat /\ lost <= got /\ s \in Nat
  BY <1>0, SumLeftNat DEF Sending
<1>5. CASE Adapter!Opening(t)
  <2>1. positions' = Append(positions, [left |-> got, open |-> TRUE])
    BY <1>5 DEF Adapter!Opened
  <2>2. positions' \in Seq(Holding) /\ z = s + got
    <3> DEFINE P == positions'
    <3> HIDE DEF got
    <3>1. P \in Seq(Holding) /\ SumLeft(P) = SumLeft(positions) + got
      BY <1>0, <1>4, <2>1, SumLeftAppend
    <3> QED BY <3>1
  <2>3. f = got
    BY <1>5 DEF Fly, Change, Adapter!Opening
  <2>4. astray' = astray
    BY <1>0, <1>5
  <2>5. held' - held <= (z - s) + (0 - f)
    <3> HIDE DEF got, s, z, f
    <3> QED BY <1>0, <1>4, <2>2, <2>3
  <2>6. ~astray' =>
          /\ ~astray
          /\ held' - held <= (SumLeft(positions') - SumLeft(positions))
                             + (Fly(order', t) - Fly(order, t))
    <3>1. held' - held <= (z - s) + (Fly(order', t) - f)
      BY <1>3, <2>5
    <3> QED BY <2>4, <3>1
  <2> QED BY <1>0, <1>2, <1>7, <2>2, <2>4, <2>6, TrackMoves
<1>6. CASE ~Adapter!Opening(t)
  <2>1. positions' = Adapter!ClosedFifo(got)
    BY <1>6
  <2>2. positions' \in Seq(Holding) /\ s <= z + got /\ z \in Nat
    <3> DEFINE P == positions'
               T == [i \in DOMAIN positions |-> Adapter!Taken(i, got)]
    <3> HIDE DEF got
    <3>1. \A i \in DOMAIN positions :
            T[i] = IF i \notin OpenOf(positions) \/ got <= SumBefore(positions, i) THEN 0
                   ELSE IF positions[i].left <= got - SumBefore(positions, i)
                        THEN positions[i].left ELSE got - SumBefore(positions, i)
      <4>1. \A i : Adapter!Before(i) = SumBefore(positions, i)
        BY <1>0, LeftIs
      <4>2. Adapter!OpenRows = OpenOf(positions)
        BY DEF Adapter!OpenRows, OpenOf
      <4> QED BY <4>1, <4>2 DEF Adapter!Taken, Adapter!Lesser
    <3>2. P = [i \in DOMAIN positions |->
                 [left |-> positions[i].left - T[i],
                  open |-> positions[i].open /\ (T[i] = 0 \/ T[i] < positions[i].left)]]
      BY <2>1 DEF Adapter!ClosedFifo
    <3> HIDE DEF P, T
    <3>3. P \in Seq(Holding) /\ SumLeft(positions) <= SumLeft(P) + got
      BY <1>0, <1>4, <3>1, <3>2, FifoTakes
    <3>4. SumLeft(P) \in Nat
      BY <3>3, SumLeftNat
    <3> QED BY <3>3, <3>4 DEF P
  <2>3. f = lost - got
    BY <1>6 DEF Fly, Change, Adapter!Opening
  <2>4. astray' = (astray \/ (lost > 0 /\ (held > 0 \/ Adapter!Busy(t))))
    BY <1>6
  <2>5. ASSUME ~astray'
        PROVE  /\ ~astray
               /\ \/ held' - held <= (z - s) + (0 - f)
                  \/ held' = 0 /\ Fly(order, Other(t)) = 0
    <3>1. ~astray /\ (lost = 0 \/ (held = 0 /\ ~Adapter!Busy(t)))
      <4> DEFINE B == Adapter!Busy(t)
      <4>1. astray \in BOOLEAN /\ held \in Nat /\ lost \in Nat /\ ~astray'
        BY <1>0, <1>4, <2>5
      <4>2. astray' = (astray \/ (lost > 0 /\ (held > 0 \/ B)))
        BY <2>4
      <4> HIDE DEF lost, B
      <4>3. ~astray /\ ~(lost > 0 /\ (held > 0 \/ B))
        BY ONLY <4>1, <4>2
      <4>4. ~astray /\ (lost = 0 \/ (held = 0 /\ ~B))
        BY <4>1, <4>3
      <4> QED BY <4>4 DEF B
    <3>2. CASE lost = 0
      <4> HIDE DEF got, s, z, f, lost
      <4>1. held' - held <= (z - s) + (0 - f)
        BY <1>0, <1>4, <2>2, <2>3, <3>2
      <4> QED BY <3>1, <4>1
    <3>3. CASE held = 0 /\ ~Adapter!Busy(t)
      <4>1. order[Other(t)] = Adapter!Idle
        BY <1>0, <3>3, FlyingOf DEF Adapter!Busy
      <4>2. Fly(order, Other(t)) = 0
        BY <1>1, <4>1 DEF Fly
      <4> QED BY <3>1, <3>3, <4>2
    <3> QED BY <3>1, <3>2, <3>3
  <2>6. astray' \in BOOLEAN
    BY <1>0, <2>4
  <2>7. ~astray' =>
          /\ ~astray
          /\ \/ held' - held <= (SumLeft(positions') - SumLeft(positions))
                                + (Fly(order', t) - Fly(order, t))
             \/ held' = 0 /\ Fly(order', t) = 0 /\ Fly(order, Other(t)) = 0
    <3>1. (z - s) + (0 - f) = (z - s) + (Fly(order', t) - f)
      BY <1>3
    <3> HIDE DEF lost, got
    <3> QED BY <1>3, <2>5, <3>1
  <2> HIDE DEF got, lost
  <2> QED BY <1>0, <1>2, <1>7, <2>2, <2>6, <2>7, TrackMoves
<1> QED BY <1>5, <1>6

\* The validation closes rows only of an empty account, unless astray, and what
\* is about to be booked on them changes nothing then.
LEMMA ValidationTracks == ASSUME TrackInv, Adapter!CloseInvalid PROVE TrackInv'
<1> DEFINE Any == \E i \in validated : Adapter!Gone(i)
<1>0. /\ order \in Placed /\ held \in Nat /\ positions \in Seq(Holding) /\ astray \in BOOLEAN
      /\ venue \in {"bullet", "binance"}
      /\ \A t \in Adapter!Callers : /\ order[t].over <= order[t].got
                                    /\ order[t].at = "sent" => order[t].got = 0 /\ order[t].over = 0
  BY DEF TrackInv, AdapterTyped
<1>1. /\ positions' = [i \in DOMAIN positions |->
                         IF i \in validated /\ Adapter!Gone(i) THEN [left |-> 0,
                               open |-> FALSE]
                         ELSE positions[i]]
      /\ order' = [t \in Adapter!Callers |->
                     IF order[t].at = "answered" /\ ~Adapter!Opening(t) /\ Any
                     THEN [order[t] EXCEPT !.over = order[t].got] ELSE order[t]]
      /\ astray' = (astray \/ (held > 0 /\ Any))
      /\ venue' = venue /\ held' = held
  BY DEF Adapter!CloseInvalid
<1> HIDE DEF Any
<1>2. CASE ~Any
  <2>1. positions' = positions
    <3>1. \A i \in DOMAIN positions : ~(i \in validated /\ Adapter!Gone(i))
      BY <1>2 DEF Any
    <3>2. positions' = [i \in DOMAIN positions |-> positions[i]]
      BY <1>1, <3>1
    <3> QED BY <1>0, <3>2
  <2>2. order' = order
    BY <1>0, <1>1, <1>2 DEF Placed
  <2>3. astray' = astray
    BY <1>0, <1>1, <1>2
  <2> QED
    BY <1>1, <2>1, <2>2, <2>3
          DEF TrackInv, AdapterTyped, SumLeft, OpenOf, Lefts, Flying, Fly,
       Change, Holding, Placed, Sending, Adapter!Callers
<1>3. CASE Any
  <2>1. \A t \in Adapter!Callers :
          /\ order'[t] \in Sending /\ order'[t].over <= order'[t].got
          /\ order'[t].at = "sent" => order'[t].got = 0 /\ order'[t].over = 0
          /\ order'[t].at = "answered" =>
               order'[t].pid = 0 \/ order'[t].over = order'[t].got
    <3> SUFFICES ASSUME NEW t \in Adapter!Callers
                 PROVE  /\ order'[t] \in Sending /\ order'[t].over <= order'[t].got
                        /\ order'[t].at = "sent" => order'[t].got = 0 /\ order'[t].over = 0
                        /\ order'[t].at = "answered" =>
                             order'[t].pid = 0 \/ order'[t].over = order'[t].got
      OBVIOUS
    <3>1. order[t] \in Sending
      BY <1>0 DEF Placed
    <3>2. CASE order[t].at = "answered" /\ ~Adapter!Opening(t)
      <4>1. order'[t] = [order[t] EXCEPT !.over = order[t].got]
        BY <1>1, <1>3, <3>2
      <4>2. /\ order'[t] \in Sending /\ order'[t].at = "answered"
            /\ order'[t].over = order[t].got /\ order'[t].got = order[t].got
        BY <3>1, <3>2, <4>1 DEF Sending
      <4> QED BY <3>1, <4>2 DEF Sending
    <3>3. CASE ~(order[t].at = "answered" /\ ~Adapter!Opening(t))
      <4>1. order'[t] = order[t]
        BY <1>1, <3>3
      <4> QED BY <1>0, <3>1, <3>3, <4>1 DEF Adapter!Opening
    <3> QED BY <3>2, <3>3
  <2>2. order' \in Placed
    BY <1>1, <2>1 DEF Placed
  <2>3. positions' \in Seq(Holding)
    <3>1. [left |-> 0, open |-> FALSE] \in Holding
      BY DEF Holding
    <3>2. \A i \in DOMAIN positions : positions'[i] \in Holding
      BY <1>0, <1>1, <3>1
    <3>3. DOMAIN positions' = 1 .. Len(positions) /\ Len(positions) \in Nat
      BY <1>0, <1>1
    <3>4. positions' \in [1 .. Len(positions) -> Holding]
      BY <1>0, <1>1, <3>2, <3>3
    <3> QED BY <3>3, <3>4
  <2>4. AdapterTyped'
    BY <1>0, <1>1, <2>1, <2>2, <2>3
          DEF AdapterTyped, Holding, Placed, Sending, Adapter!Callers
  <2>5. ASSUME ~astray' PROVE held' <= SumLeft(positions') + Flying(order')
    <3>1. held' = 0
      <4>1. ~(held > 0)
        BY <1>1, <1>3, <2>5
      <4> QED BY <1>0, <1>1, <4>1
    <3>2. SumLeft(positions') \in Nat
      BY <2>3, SumLeftNat
    <3>3. \A t \in Adapter!Callers : Fly(order', t) \in Nat
      <4> SUFFICES ASSUME NEW t \in Adapter!Callers PROVE Fly(order', t) \in Nat
        OBVIOUS
      <4>1. /\ order'[t].got \in Nat /\ order'[t].over \in Nat
            /\ order'[t].at = "answered" => order'[t].pid = 0 \/ order'[t].over = order'[t].got
        BY <2>1 DEF Sending
      <4> QED BY <4>1 DEF Fly, Change
    <3>4. Flying(order') \in Nat
      BY <3>3 DEF Flying, Adapter!Callers
    <3> QED BY <3>1, <3>2, <3>4
  <2>6. (SumLeft(positions))' = SumLeft(positions') /\ (Flying(order))' = Flying(order')
    BY DEF SumLeft, Sum, Adds, Pick, Lefts, OpenOf, Flying, Fly, Change, Adapter!Callers
  <2> QED BY <2>4, <2>5, <2>6 DEF TrackInv
<1> QED BY <1>2, <1>3

LEMMA TrackStep ==
    ASSUME Adapter!AdapterAssumption, TrackInv, [Adapter!Next]_Adapter!vars
    PROVE  TrackInv'
<1>0. /\ order \in Placed /\ held \in Nat /\ positions \in Seq(Holding) /\ astray \in BOOLEAN
      /\ venue \in {"bullet", "binance"} /\ Size \in Nat
      /\ \A t \in Adapter!Callers : order[t] \in Sending
  BY DEF TrackInv, AdapterTyped, Adapter!AdapterAssumption, Placed
<1>u. ASSUME UNCHANGED <<venue, positions, order, astray>>, held' \in Nat, held' <= held
      PROVE  TrackInv'
  <2>1. AdapterTyped'
    BY <1>u DEF TrackInv, AdapterTyped, Holding, Placed, Sending, Adapter!Callers
  <2>2. (SumLeft(positions))' = SumLeft(positions) /\ (Flying(order))' = Flying(order)
    BY <1>u
          DEF SumLeft, Sum, Adds, Pick, Lefts, OpenOf, Flying, Fly, Change, Adapter!Callers
  <2> DEFINE a == SumLeft(positions) + Flying(order)
  <2>3. a \in Int
    <3>1. SumLeft(positions) \in Nat
      BY <1>0, SumLeftNat
    <3>2. Flying(order) \in Int
      <4>1. "web" \in Adapter!Callers
        BY DEF Adapter!Callers
      <4> QED BY <1>0, <4>1, FlyingOf
    <3> QED BY <3>1, <3>2
  <2>4. ~astray => held <= a
    BY DEF TrackInv
  <2> HIDE DEF a
  <2>5. ~astray' => held' <= a
    BY <1>0, <1>u, <2>3, <2>4
  <2> QED BY <2>1, <2>2, <2>5 DEF TrackInv, a
\* What an order may take.
<1>t. ASSUME NEW t \in Adapter!Callers, NEW f \in 0 .. Adapter!MayTake(t)
      PROVE  /\ f \in Nat /\ f <= order[t].qty /\ order[t].qty \in Nat
             /\ Adapter!AfterTaking(t, f) \in Nat
             /\ ~Adapter!Opening(t) => Adapter!AfterTaking(t, f) <= held
  <2>1. order[t].qty \in Nat
    BY <1>0 DEF Sending
  <2>2. f \in Nat /\ f <= order[t].qty /\ (~Adapter!Opening(t) => f <= held)
    <3>1. CASE Adapter!Opening(t)
      BY <2>1, <3>1, <1>t DEF Adapter!MayTake
    <3>2. CASE ~Adapter!Opening(t)
      BY <1>0, <2>1, <3>2, <1>t DEF Adapter!MayTake, Adapter!Lesser
    <3> QED BY <3>1, <3>2
  <2> QED BY <1>0, <2>1, <2>2 DEF Adapter!AfterTaking
\* Placing.
<1>p. ASSUME NEW t \in Adapter!Callers, NEW i \in Nat, NEW q \in Nat, Adapter!Free(t),
             order' = Adapter!Ordered(t, i, q), UNCHANGED <<venue, held, positions, astray>>
      PROVE  TrackInv'
  <2> DEFINE r == [Adapter!Idle EXCEPT !.at = "sent", !.pid = i, !.qty = q]
  <2>1. r \in Sending /\ r.at = "sent" /\ r.got = 0 /\ r.over = 0
    BY DEF Adapter!Idle, Sending
  <2>2. order' = [order EXCEPT ![t] = r] /\ order[t].at # "answered"
    BY <1>p DEF Adapter!Ordered, Adapter!Free, Adapter!Idle
  <2> HIDE DEF r
  <2>3. order' \in Placed /\ order'[t] = r /\ order'[Other(t)] = order[Other(t)]
    BY <1>0, <2>1, <2>2, FlyingOf DEF Placed
  <2>4. /\ held' \in Nat /\ astray' \in BOOLEAN /\ (~astray' => held' <= held /\ ~astray)
        /\ UNCHANGED <<venue, positions>>
    BY <1>0, <1>p
  <2>5. order'[t].at # "answered" /\ order'[t].got = 0 /\ order'[t].over = 0
    BY <2>1, <2>3
  <2> QED BY <2>2, <2>3, <2>4, <2>5, NothingFlies
<1>1. ASSUME NEW t \in Adapter!Callers, Adapter!Enter(t) PROVE TrackInv'
  BY <1>0, <1>1, <1>p DEF Adapter!Enter
<1>2. ASSUME NEW t \in Adapter!Callers, Adapter!Exit(t) PROVE TrackInv'
  <2>1. PICK i \in Adapter!OpenRows : order' = Adapter!Ordered(t, i, positions[i].left)
    BY <1>2 DEF Adapter!Exit
  <2>2. i \in Nat /\ positions[i].left \in Nat
    BY <1>0, <2>1, RowsFinite DEF Adapter!OpenRows
  <2> QED BY <1>2, <1>p, <2>1, <2>2 DEF Adapter!Exit
\* The answer.
<1>3. ASSUME NEW t \in Adapter!Callers, Adapter!Filled(t) \/ Adapter!ExecutedQty(t)
      PROVE TrackInv'
  <2>1. PICK f \in 0 .. Adapter!MayTake(t) :
          held' = Adapter!AfterTaking(t, f) /\ order' = Adapter!Answered(t, f, f)
    <3>1. CASE Adapter!Filled(t)
      <4>1. PICK f \in 1 .. Adapter!MayTake(t) :
              held' = Adapter!AfterTaking(t, f) /\ order' = Adapter!Answered(t, f, f)
        BY <3>1 DEF Adapter!Filled
      <4>2. f \in 0 .. Adapter!MayTake(t)
        OBVIOUS
      <4> QED BY <4>1, <4>2
    <3>2. CASE Adapter!ExecutedQty(t)
      BY <3>2 DEF Adapter!ExecutedQty
    <3> QED BY <1>3, <3>1, <3>2
  <2>2. f \in Nat /\ Adapter!AfterTaking(t, f) \in Nat
    BY <1>t
  <2>3. Adapter!Sent(t) /\ UNCHANGED <<venue, positions, astray>>
    BY <1>3 DEF Adapter!Filled, Adapter!ExecutedQty
  <2>4. f <= f
    BY <2>2
  <2> QED BY <2>1, <2>2, <2>3, <2>4, AnswerComes
<1>4. ASSUME NEW t \in Adapter!Callers, Adapter!Unmatched(t) \/ Adapter!AlreadyFlat(t)
      PROVE  TrackInv'
  <2>1. /\ Adapter!Sent(t) /\ UNCHANGED <<venue, positions, astray>> /\ held' = held
        /\ order' = Adapter!Answered(t, order[t].qty, 0)
    BY <1>4 DEF Adapter!Unmatched, Adapter!AlreadyFlat
  <2>2. order[t].qty \in Nat /\ 0 <= order[t].qty /\ held' \in Nat
    BY <1>0, <2>1 DEF Sending
  <2> QED BY <2>1, <2>2, AnswerComes
<1>5. ASSUME NEW t \in Adapter!Callers, Adapter!Unread(t) PROVE TrackInv'
  <2>1. PICK f \in 0 .. Adapter!MayTake(t) :
          held' = Adapter!AfterTaking(t, f) /\ order' = Adapter!Answered(t, order[t].qty, f)
    BY <1>5 DEF Adapter!Unread
  <2>2. f \in Nat /\ f <= order[t].qty /\ order[t].qty \in Nat /\ held' \in Nat
    BY <1>t, <2>1
  <2>3. Adapter!Sent(t) /\ UNCHANGED <<venue, positions, astray>>
    BY <1>5 DEF Adapter!Unread
  <2> QED BY <2>1, <2>2, <2>3, AnswerComes
\* An order that ends without an answer.
<1>e. ASSUME NEW t \in Adapter!Callers, order' = [order EXCEPT ![t] = Adapter!Idle]
      PROVE  /\ order' \in Placed /\ order'[Other(t)] = order[Other(t)] /\ order'[t] = Adapter!Idle
             /\ order'[t].at = "idle" /\ order'[t].got = 0 /\ order'[t].over = 0
  <2>1. Adapter!Idle \in Sending /\ Adapter!Idle.at = "idle"
        /\ Adapter!Idle.got = 0 /\ Adapter!Idle.over = 0
    BY DEF Adapter!Idle, Sending
  <2>2. order' \in Placed /\ order'[Other(t)] = order[Other(t)] /\ order'[t] = Adapter!Idle
    BY <1>0, <1>e, <2>1, FlyingOf DEF Placed
  <2> QED BY <2>1, <2>2
<1>6. ASSUME NEW t \in Adapter!Callers, Adapter!Refused(t) PROVE TrackInv'
  <2>1. /\ UNCHANGED <<venue, held, positions, astray>> /\ order[t].at # "answered"
        /\ order' = [order EXCEPT ![t] = Adapter!Idle]
    BY <1>6 DEF Adapter!Refused, Adapter!Sent
  <2>2. held' \in Nat /\ astray' \in BOOLEAN /\ (~astray' => held' <= held /\ ~astray)
    BY <1>0, <2>1
  <2> QED BY <1>e, <2>1, <2>2, NothingFlies
<1>7. ASSUME NEW t \in Adapter!Callers, Adapter!Lost(t) PROVE TrackInv'
  <2>1. /\ UNCHANGED <<venue, positions>> /\ order[t].at # "answered"
        /\ order' = [order EXCEPT ![t] = Adapter!Idle]
        /\ astray' = (astray \/ Adapter!Opening(t))
    BY <1>7 DEF Adapter!Lost, Adapter!Sent
  <2>2. PICK f \in 1 .. Adapter!MayTake(t) : held' = Adapter!AfterTaking(t, f)
    BY <1>7 DEF Adapter!Lost
  <2>3. f \in 0 .. Adapter!MayTake(t)
    OBVIOUS
  <2>4. held' \in Nat /\ (~Adapter!Opening(t) => held' <= held)
    BY <1>t, <2>2, <2>3
  <2>5. astray' \in BOOLEAN /\ (~astray' => held' <= held /\ ~astray)
    BY <1>0, <2>1, <2>4 DEF Adapter!Opening
  <2> QED BY <1>e, <2>1, <2>4, <2>5, NothingFlies
\* Booking.
<1>8. ASSUME NEW t \in Adapter!Callers, Adapter!Book(t) \/ Adapter!BookBinance(t)
      PROVE TrackInv'
  BY <1>8, BookingTracks DEF Adapter!Book, Adapter!BookBinance, Adapter!LookedUp
<1>9. ASSUME NEW t \in Adapter!Callers, Adapter!BookFails(t) PROVE TrackInv'
  <2>1. /\ UNCHANGED <<venue, held, positions>> /\ order[t].at = "answered"
        /\ order' = [order EXCEPT ![t] = Adapter!Idle]
        /\ astray' = (astray \/ Adapter!Opening(t))
    BY <1>9 DEF Adapter!BookFails
  <2>2. astray' \in BOOLEAN /\ (~astray' => ~astray /\ ~Adapter!Opening(t))
    BY <1>0, <2>1 DEF Adapter!Opening
  <2> DEFINE f == Fly(order, t)
             d == SumLeft(positions') - SumLeft(positions)
  <2>3. ~Adapter!Opening(t) => f \in Int /\ f <= 0
    <3>1. order[t].over \in Nat /\ order[t].got \in Nat /\ order[t].over <= order[t].got
      BY <1>0 DEF Sending, TrackInv, AdapterTyped
    <3>2. ~Adapter!Opening(t) => f = order[t].over - order[t].got
      BY <2>1 DEF Fly, Change, Adapter!Opening
    <3> HIDE DEF f
    <3> QED BY <3>1, <3>2
  <2>4. d = 0
    <3>1. SumLeft(positions) \in Nat /\ SumLeft(positions') = SumLeft(positions)
      BY <1>0, <2>1, SumLeftNat
    <3> QED BY <3>1
  <2>5. Fly(order', t) = 0
    BY <1>e, <2>1 DEF Fly
  <2>6. ~astray' => ~astray /\ held' - held <= d + (Fly(order', t) - f)
    <3> DEFINE h == held' - held
    <3>1. h = 0
      BY <1>0, <2>1
    <3> HIDE DEF f, d, h
    <3>2. ~astray' => ~astray /\ h <= d + (0 - f)
      BY <2>2, <2>3, <2>4, <3>1
    <3> QED BY <2>5, <3>2 DEF h
  <2>7. /\ order'[t].over <= order'[t].got
        /\ order'[t].at = "sent" => order'[t].got = 0 /\ order'[t].over = 0
        /\ venue' = venue /\ held' \in Nat /\ positions' \in Seq(Holding)
    <3>1. order'[t].over = 0 /\ order'[t].got = 0
      BY <1>e, <2>1
    <3>2. venue' = venue /\ held' = held /\ positions' = positions
      BY <2>1
    <3> QED BY <1>0, <3>1, <3>2
  <2>8. order' \in Placed /\ order'[Other(t)] = order[Other(t)]
    BY <1>e, <2>1
  <2>9. ~astray' =>
          /\ ~astray
          /\ held' - held <= (SumLeft(positions') - SumLeft(positions))
                             + (Fly(order', t) - Fly(order, t))
    BY <2>6
  <2> QED BY <2>2, <2>7, <2>8, <2>9, TrackMoves
\* The others.
<1>10. CASE Adapter!Elsewhere
  <2>1. PICK f \in 1 .. held : held' = held - f
    BY <1>10 DEF Adapter!Elsewhere
  <2>2. held' \in Nat /\ held' <= held
    BY <1>0, <2>1
  <2> QED BY <1>10, <1>u, <2>2 DEF Adapter!Elsewhere
<1>11. CASE Adapter!MonitorBalances \/ Adapter!ListOpen \/ Adapter!AccountFails
  <2>1. UNCHANGED <<venue, held, positions, order, astray>>
    BY <1>11 DEF Adapter!MonitorBalances, Adapter!ListOpen, Adapter!AccountFails
  <2> QED BY <1>0, <1>u, <2>1
<1>12. CASE Adapter!CloseInvalid
  BY <1>12, ValidationTracks
<1>13. CASE UNCHANGED Adapter!vars
  <2>1. UNCHANGED <<venue, held, positions, order, astray>>
    BY <1>13 DEF Adapter!vars
  <2> QED BY <1>0, <1>u, <2>1
<1> QED
  BY <1>1, <1>2, <1>3, <1>4, <1>5, <1>6, <1>7, <1>8, <1>9, <1>10, <1>11, <1>12, <1>13
     DEF Adapter!Next, Adapter!Trade

-----------------------------------------------------------------------------
(* The theorem.                                                            *)

OtherParts ==
    /\ part = "adapter" => TrackInv
    /\ part = "cycle" => OwedInv
    /\ part = "setting" => ContentsInv

\* What the exchange holds is in an open row or on its way into one and is never
\* less than nothing, a check that is due stays due, and no reader sees a mixture
\* of two tables.
THEOREM KeptThroughoutAlways ==
    ASSUME Adapter!AdapterAssumption
    PROVE  EverySpec => []KeptThroughout
<1>1. EveryInit => OtherParts
  BY TrackInit, OwedInit, ContentsInit DEF EveryInit, OtherParts
<1>2. OtherParts /\ [EveryNext]_allVars => OtherParts'
  <2> SUFFICES ASSUME OtherParts, [EveryNext]_allVars PROVE OtherParts'
    OBVIOUS
  <2>1. /\ part' = part
        /\ part = "adapter" => [Adapter!Next]_Adapter!vars
        /\ part = "cycle" => [Cycle!Next]_Cycle!vars
        /\ part = "setting" => [Setting!Next]_Setting!vars
    BY PartsApart
  <2>2. ASSUME part = "adapter" PROVE TrackInv'
    BY <2>1, <2>2, TrackStep DEF OtherParts
  <2>3. ASSUME part = "cycle" PROVE OwedInv'
    BY <2>1, <2>3, OwedStep DEF OtherParts
  <2>4. ASSUME part = "setting" PROVE ContentsInv'
    BY <2>1, <2>4, ContentsStep DEF OtherParts
  <2> QED BY <2>1, <2>2, <2>3, <2>4 DEF OtherParts
<1>3. OtherParts => KeptThroughout
  BY TrackedIs, OneVersionKept DEF OtherParts, OwedInv, KeptThroughout
<1> QED BY <1>1, <1>2, <1>3, PTL DEF EverySpec
=============================================================================
