--------------------------- MODULE Decisions_proofs ---------------------------
(***************************************************************************)
(* Theorems about the decisions on one trade, for every value of the       *)
(* constants: the vote and the review of the entry indicators, the pauses  *)
(* after losses in a row, the quantity of a market order, the outcome      *)
(* written on a signal and the confidence of a signal.                     *)
(***************************************************************************)
EXTENDS Decisions, Sequences, FiniteSetTheorems, WellFoundedInduction, TLAPS

-----------------------------------------------------------------------------
(* The vote: one more indicator that passes never turns an accepted signal *)
(* down, for every finite set of indicators and every grouping.            *)

\* A group that passed still passes when more indicators pass.
LEMMA GroupPassedMonotone ==
    ASSUME NEW I, NEW inds, NEW groups, NEW p, NEW q, p \subseteq q, NEW g,
           GroupPassed(I, inds, groups, p, g)
    PROVE  GroupPassed(I, inds, groups, q, g)
  BY DEF GroupPassed, Members

\* A finite set of indicators is in finitely many groups.
LEMMA GroupsFinite ==
    ASSUME NEW I, IsFiniteSet(I), NEW inds
    PROVE  IsFiniteSet(GroupsOf(I, inds))
<1> DEFINE T == {inds[i].group : i \in I}
           f == [i \in I |-> inds[i].group]
<1>1. f \in Surjection(I, T)
  BY DEF Surjection
<1>2. IsFiniteSet(T)
  BY <1>1, FS_Surjection
<1> QED
  BY <1>2, FS_Subset DEF GroupsOf

\* The count of passing units never shrinks when more indicators pass.
LEMMA PassesMonotone ==
    ASSUME NEW I, IsFiniteSet(I), NEW inds, NEW groups, NEW p, NEW q, p \subseteq q
    PROVE  /\ Passes(I, inds, groups, p) \in Nat
           /\ Passes(I, inds, groups, q) \in Nat
           /\ Passes(I, inds, groups, p) <= Passes(I, inds, groups, q)
<1> DEFINE A(s) == Alone(I, inds) \cap s
           G(s) == {g \in GroupsOf(I, inds) : GroupPassed(I, inds, groups, s, g)}
<1>1. IsFiniteSet(A(q)) /\ A(p) \subseteq A(q)
  <2>1. A(q) \subseteq I
    BY DEF Alone, Members
  <2> QED
    BY <2>1, FS_Subset
<1>2. IsFiniteSet(G(q)) /\ G(p) \subseteq G(q)
  <2>1. IsFiniteSet(GroupsOf(I, inds))
    BY GroupsFinite
  <2>2. G(q) \subseteq GroupsOf(I, inds)
    OBVIOUS
  <2>3. G(p) \subseteq G(q)
    BY GroupPassedMonotone
  <2> QED
    BY <2>1, <2>2, <2>3, FS_Subset
<1>3. /\ IsFiniteSet(A(p)) /\ Cardinality(A(p)) <= Cardinality(A(q))
      /\ IsFiniteSet(G(p)) /\ Cardinality(G(p)) <= Cardinality(G(q))
  BY <1>1, <1>2, FS_Subset
<1>4. /\ Cardinality(A(p)) \in Nat /\ Cardinality(A(q)) \in Nat
      /\ Cardinality(G(p)) \in Nat /\ Cardinality(G(q)) \in Nat
  BY <1>1, <1>2, <1>3, FS_CardinalityType
<1> QED
  BY <1>3, <1>4 DEF Passes

\* VoteMonotone, for every finite set of indicators and every set of groups
\* (_validate_timeframe_indicators: hard stops, groups, count).
THEOREM VoteIsMonotone == VoteMonotone
<1> SUFFICES ASSUME NEW I \in SUBSET Slots, NEW inds, NEW groups, NEW useHardStops,
                    NEW minRequired \in Nat,
                    NEW p \in SUBSET I, NEW q \in SUBSET I, p \subseteq q,
                    Decide(I, inds, groups, useHardStops, minRequired, p)
             PROVE  Decide(I, inds, groups, useHardStops, minRequired, q)
  BY DEF VoteMonotone
<1>1. IsFiniteSet(I)
  BY SlotsAssumption, FS_Subset
<1>2. useHardStops => ~HardStopped(I, inds, q)
  BY DEF Decide, HardStopped
<1>3. useHardStops => ~GroupStopped(I, inds, groups, q)
  BY GroupPassedMonotone DEF Decide, GroupStopped
<1>4. Passes(I, inds, groups, q) >= minRequired
  BY <1>1, PassesMonotone DEF Decide
<1> QED
  BY <1>2, <1>3, <1>4 DEF Decide

-----------------------------------------------------------------------------
(* The review.                                                             *)

\* The lax counting of the review counts at least what the entry counted.
LEMMA LaxCountsMore ==
    ASSUME NEW I, IsFiniteSet(I), NEW inds, \A i \in I : inds[i] \in Indicator, NEW groups,
          NEW P
    PROVE  /\ Passes(I, inds, groups, P) \in Nat
           /\ Passes(I, inds, LaxGroups, P) \in Nat
           /\ Passes(I, inds, groups, P) <= Passes(I, inds, LaxGroups, P)
<1> DEFINE A == Alone(I, inds) \cap P
           G == {g \in GroupsOf(I, inds) : GroupPassed(I, inds, groups, P, g)}
           H == {g \in GroupsOf(I, inds) : GroupPassed(I, inds, LaxGroups, P, g)}
<1>1. G \subseteq H
  <2> SUFFICES ASSUME NEW g \in GroupsOf(I, inds), GroupPassed(I, inds, groups, P, g)
               PROVE  GroupPassed(I, inds, LaxGroups, P, g)
    OBVIOUS
  <2>1. PICK i \in I : inds[i].group = g
    BY DEF GroupsOf
  <2>2. i \in Members(I, inds, g)
    BY <2>1 DEF Members
  <2>3. Members(I, inds, g) \cap P # {}
    BY <2>2 DEF GroupPassed
  <2>4. g \in GroupIds
    BY <2>1 DEF GroupsOf, Indicator
  <2> QED
    BY <2>3, <2>4 DEF GroupPassed, LaxGroups
<1>2. Passes(I, inds, LaxGroups, P) \in Nat /\ Passes(I, inds, groups, P) \in Nat
  BY PassesMonotone
<1>3. IsFiniteSet(A) /\ IsFiniteSet(H)
  <2>1. A \subseteq I
    BY DEF Alone, Members
  <2>2. IsFiniteSet(GroupsOf(I, inds))
    BY GroupsFinite
  <2> QED
    BY <2>1, <2>2, FS_Subset
<1>4. Cardinality(G) <= Cardinality(H) /\ IsFiniteSet(G)
  BY <1>1, <1>3, FS_Subset
<1>5. Cardinality(A) \in Nat /\ Cardinality(G) \in Nat /\ Cardinality(H) \in Nat
  BY <1>3, <1>4, FS_CardinalityType
<1> QED
  BY <1>2, <1>4, <1>5 DEF Passes

\* A set that has at most one element more is at most one larger.
LEMMA AddsAtMostOne ==
    ASSUME NEW S, IsFiniteSet(S), NEW x, NEW T, T \subseteq S \cup {x}
    PROVE  Cardinality(T) <= Cardinality(S) + 1
<1>1. /\ IsFiniteSet(S \cup {x})
      /\ Cardinality(S \cup {x}) = IF x \in S THEN Cardinality(S) ELSE Cardinality(S) + 1
  BY FS_AddElement
<1>2. Cardinality(T) <= Cardinality(S \cup {x}) /\ IsFiniteSet(T)
  BY <1>1, FS_Subset
<1>3. Cardinality(S) \in Nat /\ Cardinality(T) \in Nat
  BY <1>2, FS_CardinalityType
<1> QED
  BY <1>1, <1>2, <1>3

\* One indicator less is at most one unit less.
LEMMA OneLessCounts ==
    ASSUME NEW I, IsFiniteSet(I), NEW inds, \A i \in I : inds[i] \in Indicator, NEW P,
          NEW x \in I
    PROVE  Passes(I, inds, LaxGroups, P) <= Passes(I, inds, LaxGroups, P \ {x}) + 1
<1> DEFINE A(s) == Alone(I, inds) \cap s
           G(s) == {g \in GroupsOf(I, inds) : GroupPassed(I, inds, LaxGroups, s, g)}
           R == P \ {x}
           h == inds[x].group
<1>1. IsFiniteSet(A(P)) /\ IsFiniteSet(A(R)) /\ IsFiniteSet(G(P)) /\ IsFiniteSet(G(R))
  <2>1. A(P) \subseteq I /\ A(R) \subseteq I
    BY DEF Alone, Members
  <2>2. IsFiniteSet(GroupsOf(I, inds))
    BY GroupsFinite
  <2> QED
    BY <2>1, <2>2, FS_Subset
<1>2. /\ Cardinality(A(P)) \in Nat /\ Cardinality(A(R)) \in Nat
      /\ Cardinality(G(P)) \in Nat /\ Cardinality(G(R)) \in Nat
  BY <1>1, FS_CardinalityType
<1>3. GroupsOf(I, inds) \subseteq GroupIds
  BY DEF GroupsOf, Indicator
<1>4. ASSUME NEW g \in GroupsOf(I, inds), g # h, GroupPassed(I, inds, LaxGroups, P, g)
      PROVE  GroupPassed(I, inds, LaxGroups, R, g)
  <2>1. Members(I, inds, g) \cap P # {}
    BY <1>3, <1>4 DEF GroupPassed, LaxGroups
  <2>2. x \notin Members(I, inds, g)
    BY <1>4 DEF Members
  <2>3. Members(I, inds, g) \cap R # {}
    BY <2>1, <2>2
  <2> QED
    BY <1>3, <2>3 DEF GroupPassed, LaxGroups
<1>5. CASE h = Ungrouped
  <2>1. A(P) \subseteq A(R) \cup {x}
    OBVIOUS
  <2>2. G(P) \subseteq G(R)
    BY <1>4, <1>5 DEF GroupsOf
  <2>3. Cardinality(A(P)) <= Cardinality(A(R)) + 1
    BY <1>1, <2>1, AddsAtMostOne
  <2>4. Cardinality(G(P)) <= Cardinality(G(R))
    BY <2>2, <1>1, FS_Subset
  <2> QED
    BY <1>2, <2>3, <2>4 DEF Passes
<1>6. CASE h # Ungrouped
  <2>1. A(P) = A(R)
    BY <1>6 DEF Alone, Members
  <2>2. G(P) \subseteq G(R) \cup {h}
    BY <1>4
  <2>3. Cardinality(G(P)) <= Cardinality(G(R)) + 1
    BY <1>1, <2>2, AddsAtMostOne
  <2>4. Cardinality(A(P)) = Cardinality(A(R))
    BY <2>1
  <2> QED
    BY <1>2, <2>3, <2>4 DEF Passes
<1> QED
  BY <1>5, <1>6

\* Unless two of the indicators that let a position in are lost, the review
\* with one less counts enough.
LEMMA OneLossHeld ==
    ASSUME NEW I, IsFiniteSet(I), NEW inds, \A i \in I : inds[i] \in Indicator, NEW groups,
           NEW min \in Nat, NEW P, NEW Q,
           P \subseteq I, Passes(I, inds, groups, P) >= min,
           \A x, y \in P : x # y => {x, y} \cap Q # {}
    PROVE  Passes(I, inds, LaxGroups, Q) >= min - 1
<1>1. /\ Passes(I, inds, LaxGroups, P) >= min
      /\ Passes(I, inds, LaxGroups, P) \in Nat
  BY LaxCountsMore
<1>2. CASE P \subseteq Q
  BY <1>1, <1>2, PassesMonotone
<1>3. CASE ~(P \subseteq Q)
  <2>1. PICK x \in P : x \notin Q
    BY <1>3
  <2>2. P \ {x} \subseteq Q
    BY <2>1
  <2>3. Passes(I, inds, LaxGroups, P) <= Passes(I, inds, LaxGroups, P \ {x}) + 1
    BY <2>1, OneLessCounts
  <2>4. /\ Passes(I, inds, LaxGroups, P \ {x}) \in Nat
        /\ Passes(I, inds, LaxGroups, Q) \in Nat
        /\ Passes(I, inds, LaxGroups, P \ {x}) <= Passes(I, inds, LaxGroups, Q)
    BY <2>2, PassesMonotone
  <2> QED
    BY <1>1, <2>3, <2>4
<1> QED
  BY <1>2, <1>3

\* Counting only the configured indicators counts the same.
LEMMA CountsUsedOnly ==
    ASSUME NEW I, NEW inds, NEW groups, NEW P
    PROVE  Passes(I, inds, groups, P \cap I) = Passes(I, inds, groups, P)
<1>1. \A g : Members(I, inds, g) \cap (P \cap I) = Members(I, inds, g) \cap P
  BY DEF Members
<1>2. \A g : Members(I, inds, g) \subseteq P \cap I <=> Members(I, inds, g) \subseteq P
  BY DEF Members
<1>3. \A g : GroupPassed(I, inds, groups, P \cap I, g) <=>
                    GroupPassed(I, inds, groups, P, g)
  BY <1>1, <1>2 DEF GroupPassed
<1>4. Alone(I, inds) \cap (P \cap I) = Alone(I, inds) \cap P
  BY <1>1 DEF Alone
<1> QED
  BY <1>3, <1>4 DEF Passes

-----------------------------------------------------------------------------
\* The type invariant of the review.
THEOREM ReviewTyped == Spec => []TypeOK
<1>1. Init => TypeOK
  <2> SUFFICES ASSUME Init
               PROVE  TypeOK
    OBVIOUS
  <2>1. held \in BOOLEAN
    BY DEF Init
  <2> QED
    BY <2>1 DEF Init, TypeOK
<1>2. TypeOK /\ [Next]_vars => TypeOK'
  <2> SUFFICES ASSUME TypeOK, [Next]_vars
               PROVE  TypeOK'
    OBVIOUS
  <2> USE DEF TypeOK
  <2>1. CASE Enter
    BY <2>1, ReviewAssumption DEF Enter, Bar, Filters
  <2>2. CASE NextBar
    BY <2>2, ReviewAssumption DEF NextBar
  <2>3. CASE Review
    BY <2>3 DEF Review
  <2>4. CASE UNCHANGED vars
    BY <2>4 DEF vars
  <2> QED
    BY <2>1, <2>2, <2>3, <2>4 DEF Next
<1> QED
  BY <1>1, <1>2, PTL DEF Spec

\* What is remembered of the entry is what the entry counted.
LetIn ==
    held => /\ accepted \subseteq profile.entry.used
            /\ Passes(profile.entry.used, profile.entry.inds, profile.entry.groups,
                      accepted) >= profile.entry.min

\* TwoLosses for every profile, whatever its groups, hard stops and minimum
\* (_check_trend_invalidation against the entry's is_bullish).
THEOREM TwoLossesAlways == Spec => []TwoLosses
<1> DEFINE Inv == LetIn /\ TwoLosses
<1>1. Init => Inv
  BY DEF Init, LetIn, TwoLosses
<1>2. TypeOK /\ Inv /\ [Next]_vars => Inv'
  <2> SUFFICES ASSUME TypeOK, LetIn, TwoLosses, [Next]_vars
               PROVE  LetIn' /\ TwoLosses'
    OBVIOUS
  <2>1. CASE Enter
    <3>1. Passes(profile.entry.used, profile.entry.inds, profile.entry.groups,
                 bar.passed["entry"]) >= profile.entry.min
      BY <2>1 DEF Enter, Decide
    <3>2. LetIn'
      BY <2>1, <3>1, CountsUsedOnly DEF Enter, LetIn
    <3>3. TwoLosses'
      BY <2>1 DEF Enter, TwoLosses
    <3> QED
      BY <3>2, <3>3
  <2>2. CASE NextBar
    BY <2>2 DEF NextBar, LetIn, TwoLosses
  <2>3. CASE Review
    <3>1. LetIn'
      BY <2>3 DEF Review, LetIn
    <3>2. TwoLosses'
      <4> SUFFICES ASSUME verdict' = "trend", ByEntry(profile), bar.cached,
                          \A x, y \in accepted :
                              x # y => {x, y} \cap bar.passed["entry"] # {}
                   PROVE  FALSE
        BY <2>3 DEF Review, TwoLosses, ByEntry
      <4> DEFINE f == profile.entry
      <4>1. ~Intact(profile) /\ held
        BY <2>3 DEF Review, TrendGone
      <4>2. ~Enough(f, f.min - 1, bar.passed["entry"])
        BY <4>1 DEF Intact, IntactEntry
      <4>3. f \in Filter
        BY ReviewAssumption DEF TypeOK, Profile
      <4>4. /\ IsFiniteSet(f.used) /\ f.min \in Nat
            /\ f.inds \in [Slots -> Indicator] /\ f.used \subseteq Slots
        BY <4>3, SlotsAssumption, FS_Subset DEF Filter
      <4>5. /\ accepted \subseteq f.used
            /\ Passes(f.used, f.inds, f.groups, accepted) >= f.min
        BY <4>1 DEF LetIn
      <4>6. \A i \in f.used : f.inds[i] \in Indicator
        BY <4>4
      <4>7. Passes(f.used, f.inds, LaxGroups, bar.passed["entry"]) >= f.min - 1
        BY <4>4, <4>5, <4>6, OneLossHeld
      <4> QED
        BY <4>2, <4>7 DEF Enough, Decide
    <3> QED
      BY <3>1, <3>2
  <2>4. CASE UNCHANGED vars
    BY <2>4 DEF vars, LetIn, TwoLosses, ByEntry
  <2> QED
    BY <2>1, <2>2, <2>3, <2>4 DEF Next
<1> QED
  BY <1>1, <1>2, ReviewTyped, PTL DEF Spec


-----------------------------------------------------------------------------
\* A step of the whole is a step of the part it is about, or none of it.
LEMMA PartsApart ==
    ASSUME [EveryNext]_allVars
    PROVE  /\ part' = part
           /\ part = "order" => [Order!Next]_Order!vars
           /\ part = "outcome" => [Outcome!Next]_Outcome!vars
           /\ part = "streak" => [Streak!Next]_Streak!vars
<1>1. CASE EveryNext
  BY <1>1 DEF EveryNext
<1>2. CASE UNCHANGED allVars
  <2>1. /\ part' = part /\ UNCHANGED orderVars /\ UNCHANGED outcomeVars /\ UNCHANGED streakVars
    BY <1>2 DEF allVars
  <2>2. UNCHANGED Order!vars
    BY <2>1 DEF orderVars, Order!vars
  <2>3. UNCHANGED Outcome!vars
    BY <2>1 DEF outcomeVars, Outcome!vars
  <2>4. UNCHANGED Streak!vars
    BY <2>1 DEF streakVars, Streak!vars
  <2> QED BY <2>1, <2>2, <2>3, <2>4
<1> QED
  BY <1>1, <1>2

\* The same for the scans, which have the registers.
LEMMA ScorePart ==
    ASSUME [EveryNext]_allVars
    PROVE  part' = part /\ (part = "score" => [Score!Next]_Score!vars)
<1>1. CASE EveryNext
  BY <1>1 DEF EveryNext
<1>2. CASE UNCHANGED allVars
  BY <1>2 DEF allVars, registers, Score!vars
<1> QED
  BY <1>1, <1>2

-----------------------------------------------------------------------------
(* The losing streak.  Losses are counted by their number (TailLosses), and *)
(* reasoned about as closes at the end that are all stop losses (Lossy).    *)
(* Four invariants relate them to the streak, each until a fault of certain *)
(* kinds.                                                                   *)

(* The invariants.                                                         *)

Last == Len(closes)

\* The closes the streak knows: all but one that is being recorded.
Known == IF at[Closer] = "record" THEN Last - 1 ELSE Last

\* The m closes up to the n-th are stop losses.
Lossy(m, n) == m <= n /\ \A i \in n - m + 1 .. n : closes[i] = "STOP_LOSS"

\* Only the monitoring thread records, creates and publishes, one close at a
\* time, and while it has a pause to create there is none.
Flow ==
    /\ \A t \in Streak!Threads : at[t] \in {"record", "create", "publish"} => t = Closer
    /\ at[Closer] = "record" => Last > 0
    /\ at[Closer] = "publish" => rows # <<>>
    /\ at[Closer] \in {"create", "publish"} => cached = 0 /\ streak >= Limit
    /\ since <= Known
    /\ streak <= Known
    /\ \A r \in DOMAIN rows : rows[r].at <= Last

Typed == Streak!TypeOK /\ Flow

\* The streak counts losses in a row ...
RowInv == Streak!Spared({"elsewhere"}) => Lossy(streak, Known)

\* ... of the time since a pause last ended ...
FreshInv == Streak!Spared({"crash", "crashEnding"}) => streak <= Known - since

\* ... and all of them, so that it stays below the limit unless a pause is in
\* force or on its way.
CountInv ==
    Streak!Spared({"crash", "crashEnding", "db"}) =>
        /\ \A m \in 0 .. Known - since : Lossy(m, Known) => m <= streak
        /\ cached = 0 /\ at[Closer] \notin {"create", "publish"} => streak < Limit

\* An active row is in force, about to be ended, or about to be published.
Accounted(r) ==
    \/ r = cached
    \/ \E t \in Streak!Threads : at[t] = "expire" /\ ending[t] = r
    \/ at[Closer] = "publish" /\ r = Len(rows)

HoldInv == Streak!Spared({"crashEnding", "db"}) => \A r \in Streak!Active : Accounted(r)

StreakInv == Typed /\ RowInv /\ FreshInv /\ CountInv /\ HoldInv

-----------------------------------------------------------------------------
(* Losses.                                                                 *)

\* TailLosses counts: at least m exactly if the m last closes are losses.
LEMMA TailAtLeast ==
    ASSUME Streak!TypeOK, NEW n \in 0 .. Last, NEW m \in Nat
    PROVE  Streak!TailLosses(n) \in Nat
           /\ (Streak!TailLosses(n) >= m <=> Lossy(m, Last) /\ m <= Last - n)
<1> DEFINE run == {k \in n .. Last : \A i \in k + 1 .. Last : closes[i] = "STOP_LOSS"}
<1>0. Last \in Nat
  BY DEF Streak!TypeOK, Last
<1>1. Streak!TailLosses(n) = Cardinality(run) - 1
  BY DEF Streak!TailLosses, Last, Streak!Cardinality, Cardinality
<1>2. /\ IsFiniteSet(n .. Last) /\ Cardinality(n .. Last) = Last - n + 1
      /\ run \subseteq n .. Last
  BY <1>0, FS_Interval
<1>3. IsFiniteSet(run) /\ Cardinality(run) \in Nat /\ Cardinality(run) <= Last - n + 1
  BY <1>2, FS_Subset, FS_CardinalityType
<1>4. Last \in run
  BY <1>0
<1>5. Cardinality(run) >= 1
  <2>1. {Last} \subseteq run /\ IsFiniteSet({Last}) /\ Cardinality({Last}) = 1
    BY <1>4, FS_Singleton
  <2>2. Cardinality({Last}) <= Cardinality(run)
    BY <1>3, <2>1, FS_Subset
  <2> QED BY <1>3, <2>1, <2>2
<1>6. ASSUME Lossy(m, Last), m <= Last - n PROVE Cardinality(run) >= m + 1
  <2>1. Last - m .. Last \subseteq run
    BY <1>0, <1>6 DEF Lossy
  <2>2. IsFiniteSet(Last - m .. Last) /\ Cardinality(Last - m .. Last) = m + 1
    BY <1>0, FS_Interval
  <2>3. Cardinality(Last - m .. Last) <= Cardinality(run)
    BY <1>3, <2>1, FS_Subset
  <2> QED BY <2>2, <2>3
<1>7. ASSUME m <= Last - n, ~Lossy(m, Last) PROVE Cardinality(run) < m + 1
  <2>1. PICK i \in Last - m + 1 .. Last : closes[i] # "STOP_LOSS"
    BY <1>0, <1>7 DEF Lossy
  <2>2. run \subseteq i .. Last
    BY <1>0, <2>1
  <2>3. IsFiniteSet(i .. Last) /\ Cardinality(i .. Last) = Last - i + 1
    BY <1>0, <2>1, FS_Interval
  <2>4. Cardinality(run) <= Cardinality(i .. Last)
    BY <2>2, <2>3, FS_Subset
  <2> QED BY <1>0, <1>3, <2>1, <2>3, <2>4
<1> HIDE DEF run
<1>8. Streak!TailLosses(n) \in Nat
  BY <1>1, <1>3, <1>5
<1>9. ASSUME Streak!TailLosses(n) >= m PROVE Lossy(m, Last) /\ m <= Last - n
  <2>1. m <= Last - n
    BY <1>0, <1>1, <1>3, <1>9
  <2> QED BY <1>1, <1>3, <1>7, <1>9, <2>1
<1>10. ASSUME Lossy(m, Last), m <= Last - n PROVE Streak!TailLosses(n) >= m
  BY <1>1, <1>3, <1>6, <1>10
<1> QED BY <1>8, <1>9, <1>10

\* A close more: a loss extends the row, any other ends it.
LEMMA LossyNext ==
    ASSUME NEW n \in Nat, NEW m \in Nat
    PROVE  /\ Lossy(m, n) /\ closes[n + 1] = "STOP_LOSS" => Lossy(m + 1, n + 1)
           /\ Lossy(m + 1, n + 1) => Lossy(m, n) /\ closes[n + 1] = "STOP_LOSS"
           /\ Lossy(0, n)
<1>1. ASSUME Lossy(m, n), closes[n + 1] = "STOP_LOSS" PROVE Lossy(m + 1, n + 1)
  <2>1. \A i \in (n + 1) - (m + 1) + 1 .. n + 1 : i = n + 1 \/ i \in n - m + 1 .. n
    OBVIOUS
  <2> QED BY <1>1, <2>1 DEF Lossy
<1>2. ASSUME Lossy(m + 1, n + 1) PROVE Lossy(m, n) /\ closes[n + 1] = "STOP_LOSS"
  <2>1. n + 1 \in (n + 1) - (m + 1) + 1 .. n + 1
    BY <1>2 DEF Lossy
  <2>2. n - m + 1 .. n \subseteq (n + 1) - (m + 1) + 1 .. n + 1
    OBVIOUS
  <2> QED BY <1>2, <2>1, <2>2 DEF Lossy
<1>3. Lossy(0, n)
  BY DEF Lossy
<1> QED BY <1>1, <1>2, <1>3

-----------------------------------------------------------------------------
(* Typing.                                                                 *)

LEMMA StrikeTyped ==
    ASSUME Streak!TypeOK, Streak!StopLossBreakerAssumption, NEW f, Streak!Strike(f)
    PROVE  /\ struck' \in [count : Nat, kinds : SUBSET Streak!AllFaults]
           /\ struck'.kinds = struck.kinds \cup {f}
  BY DEF Streak!StopLossBreakerAssumption, Streak!TypeOK, Streak!Strike

LEMMA ClosesTyped ==
    ASSUME Streak!TypeOK, NEW reason \in Streak!Reasons, closes' = Append(closes, reason),
          MaxCloses \in Nat, Last < MaxCloses
    PROVE  /\ closes' \in Seq(Streak!Reasons) /\ Last' = Last + 1 /\ Last' <= MaxCloses
           /\ \A i \in 1 .. Last : closes'[i] = closes[i]
           /\ closes'[Last + 1] = reason /\ Last \in Nat
<1>1. closes \in Seq(Streak!Reasons) /\ Len(closes) \in Nat
  BY DEF Streak!TypeOK
<1>2. /\ Append(closes, reason) \in Seq(Streak!Reasons)
      /\ Len(Append(closes, reason)) = Len(closes) + 1
      /\ \A i \in 1 .. Len(closes) : Append(closes, reason)[i] = closes[i]
      /\ Append(closes, reason)[Len(closes) + 1] = reason
  BY <1>1
<1>3. Last' = Last + 1 /\ Last \in Nat
  BY <1>1, <1>2 DEF Last
<1> QED BY <1>2, <1>3 DEF Last

LEMMA RowsTyped ==
    ASSUME Streak!TypeOK, NEW e \in Streak!Event, rows' = Append(rows, e)
    PROVE  /\ rows' \in Seq(Streak!Event) /\ Len(rows') = Len(rows) + 1 /\ Len(rows) \in Nat
           /\ DOMAIN rows' = DOMAIN rows \cup {Len(rows')}
           /\ \A r \in DOMAIN rows : rows'[r] = rows[r]
           /\ rows'[Len(rows')] = e /\ Len(rows') \notin DOMAIN rows
  BY DEF Streak!TypeOK

LEMMA RowEnded ==
    ASSUME Streak!TypeOK, NEW r \in DOMAIN rows, rows' = [rows EXCEPT ![r].active = FALSE]
    PROVE  /\ rows' \in Seq(Streak!Event) /\ DOMAIN rows' = DOMAIN rows /\ Len(rows') = Len(rows)
           /\ \A x \in DOMAIN rows : /\ rows'[x].at = rows[x].at
                                     /\ x # r => rows'[x].active = rows[x].active
           /\ rows'[r].active = FALSE
<1>1. Len(rows) \in Nat /\ DOMAIN rows = 1 .. Len(rows)
      /\ \A x \in DOMAIN rows : rows[x] \in Streak!Event
  BY DEF Streak!TypeOK
<1>2. [rows[r] EXCEPT !.active = FALSE] \in Streak!Event
  BY <1>1 DEF Streak!Event
<1>3. rows' \in [1 .. Len(rows) -> Streak!Event]
  BY <1>1, <1>2
<1>4. rows' \in Seq(Streak!Event) /\ Len(rows') = Len(rows)
  BY <1>1, <1>3
<1> QED BY <1>1, <1>2, <1>4 DEF Streak!Event

\* What a restart counts are losses in a row.
LEMMA RebuiltLossy ==
    ASSUME Streak!StopLossBreakerAssumption, Streak!TypeOK, Flow
    PROVE  Streak!Rebuilt \in 0 .. Last /\ Lossy(Streak!Rebuilt, Last)
<1> DEFINE n == IF rows = <<>> THEN 0 ELSE rows[Len(rows)].at
<1>0. Last \in Nat /\ MaxCloses \in Nat
  BY DEF Streak!TypeOK, Last, Streak!StopLossBreakerAssumption
<1>1. n \in 0 .. Last
  <2>1. CASE rows = <<>>
    BY <1>0, <2>1
  <2>2. CASE rows # <<>>
    <3>1. Len(rows) \in DOMAIN rows /\ rows[Len(rows)] \in Streak!Event
      BY <2>2 DEF Streak!TypeOK
    <3>2. rows[Len(rows)].at \in Nat /\ rows[Len(rows)].at <= Last
      BY <1>0, <3>1 DEF Streak!Event, Flow
    <3> QED BY <1>0, <2>2, <3>2
  <2> QED BY <2>1, <2>2
<1> HIDE DEF n
<1>2. Streak!TailLosses(n) \in Nat
  BY <1>1, TailAtLeast
<1>3. Streak!Rebuilt \in Nat /\ Streak!TailLosses(n) >= Streak!Rebuilt
  BY <1>2 DEF Streak!Rebuilt, n, Streak!StopLossBreakerAssumption
<1>4. Lossy(Streak!Rebuilt, Last) /\ Streak!Rebuilt <= Last - n
  BY <1>1, <1>3, TailAtLeast
<1> QED BY <1>0, <1>1, <1>3, <1>4

LEMMA TypedInit == ASSUME Streak!StopLossBreakerAssumption PROVE Streak!Init => Typed
  BY DEF Streak!StopLossBreakerAssumption, Streak!Init, Typed, Streak!TypeOK, Flow, Last,
        Known, Streak!Threads, Streak!AllFaults

LEMMA TypedStep == ASSUME Streak!StopLossBreakerAssumption, Typed
      PROVE [Streak!Next]_Streak!vars => Typed'
<1>0. /\ Streak!TypeOK /\ Flow /\ Last \in Nat /\ MaxCloses \in Nat /\ Limit \in Nat \ {0}
      /\ Closer \in Streak!Threads
  BY DEF Typed, Streak!TypeOK, Last, Streak!StopLossBreakerAssumption, Streak!Threads
<1>r. \A r \in DOMAIN rows : rows[r].at \in Nat
  <2> SUFFICES ASSUME NEW r \in DOMAIN rows PROVE rows[r].at \in Nat
    OBVIOUS
  <2>1. rows[r] \in Streak!Event
    BY <1>0 DEF Streak!TypeOK
  <2> QED BY <1>0, <2>1 DEF Streak!Event
<1>1. ASSUME NEW reason \in Streak!Reasons, Streak!ClosePosition(reason) PROVE Typed'
  <2>1. /\ closes' \in Seq(Streak!Reasons) /\ Last' = Last + 1 /\ Last' <= MaxCloses
        /\ reason \in Streak!Reasons
    BY <1>0, <1>1, ClosesTyped DEF Streak!ClosePosition, Last, Streak!Reasons
  <2>2. Streak!TypeOK'
    BY <1>0, <1>1, <2>1 DEF Streak!ClosePosition, Streak!TypeOK, Last, Streak!Go
  <2>3. /\ at[Closer] = "idle" /\ at'[Closer] = "record"
        /\ \A t \in Streak!Threads \ {Closer} : at'[t] = at[t]
        /\ UNCHANGED <<streak, rows, cached, since>>
    BY <1>0, <1>1 DEF Streak!ClosePosition, Streak!Go, Streak!TypeOK
  <2>4. Known = Last /\ Known' = Last
    BY <1>0, <2>1, <2>3 DEF Known
  <2>6. Flow'
    BY <1>0, <1>r, <2>1, <2>3, <2>4 DEF Flow
  <2> QED BY <2>2, <2>6 DEF Typed
<1>2. CASE Streak!CloseElsewhere
  <2>1. /\ closes' \in Seq(Streak!Reasons) /\ Last' = Last + 1 /\ Last' <= MaxCloses
        /\ "OTHER" \in Streak!Reasons
    BY <1>0, <1>2, ClosesTyped DEF Streak!CloseElsewhere, Last, Streak!Reasons
  <2>2. Streak!TypeOK'
    BY <1>0, <1>2, <2>1, StrikeTyped
          DEF Streak!CloseElsewhere, Streak!TypeOK, Last, Streak!Go
  <2>3. at[Closer] = "idle" /\ UNCHANGED <<at, streak, rows, cached, since>>
    BY <1>2 DEF Streak!CloseElsewhere
  <2>4. Known = Last /\ Known' = Last + 1
    BY <1>0, <2>1, <2>3 DEF Known
  <2>5. since \in Nat /\ streak \in Nat
    BY <1>0 DEF Streak!TypeOK
  <2>6. Flow'
    BY <1>0, <1>r, <2>1, <2>3, <2>4, <2>5 DEF Flow
  <2> QED BY <2>2, <2>6 DEF Typed
<1>3. CASE Streak!Record
  <2>1. /\ at[Closer] = "record" /\ at'[Closer] \in {"create", "idle"}
        /\ at' = [at EXCEPT ![Closer] = at'[Closer]]
        /\ at'[Closer] = "create" => streak' >= Limit /\ cached = 0
        /\ streak' = Streak!NextStreak
        /\ UNCHANGED <<closes, rows, cached, since, over, ending, waived, struck>>
    BY <1>0, <1>3 DEF Streak!Record, Streak!Go, Streak!TypeOK
  <2>2. streak \in Nat /\ streak <= Last - 1 /\ since <= Last - 1 /\ since \in Nat
    BY <1>0, <2>1 DEF Flow, Known, Streak!TypeOK
  <2>3. streak' \in 0 .. Last
    BY <1>0, <2>1, <2>2 DEF Streak!NextStreak
  <2>4. Last <= MaxCloses /\ Last' = Last /\ Known' = Last
    BY <1>0, <2>1 DEF Streak!TypeOK, Last, Known
  <2>5. /\ at' \in [Streak!Threads -> {"idle", "record", "create", "publish", "expire"}]
        /\ \A t \in Streak!Threads : at'[t] = "expire" => at[t] = "expire"
    BY <1>0, <2>1 DEF Streak!TypeOK
  <2>6. streak' \in 0 .. MaxCloses
    BY <1>0, <2>3, <2>4
  <2>7. Streak!TypeOK'
    BY <1>0, <2>1, <2>5, <2>6 DEF Streak!TypeOK, Last
  <2> QED BY <1>0, <2>1, <2>2, <2>3, <2>4, <2>7 DEF Typed, Flow, Streak!TypeOK
<1>4. CASE Streak!Create
  <2> DEFINE e == [active |-> TRUE, at |-> Last]
  <2>1. e \in Streak!Event /\ rows' = Append(rows, e)
    BY <1>0, <1>4 DEF Streak!Create, Streak!Event, Streak!TypeOK, Last
  <2>2. /\ rows' \in Seq(Streak!Event) /\ Len(rows') = Len(rows) + 1 /\ Len(rows) \in Nat
        /\ DOMAIN rows' = DOMAIN rows \cup {Len(rows')}
        /\ \A r \in DOMAIN rows : rows'[r] = rows[r]
        /\ rows'[Len(rows')].at = Last
    BY <1>0, <2>1, RowsTyped
  <2>3. Streak!TypeOK'
    BY <1>0, <1>4, <2>2 DEF Streak!Create, Streak!TypeOK, Streak!Go
  <2>4. UNCHANGED <<Last, Known>>
    BY <1>0, <1>4 DEF Streak!Create, Last, Known, Streak!Go, Streak!TypeOK
  <2>5. \A r \in DOMAIN rows' : rows'[r].at <= Last
    BY <1>0, <2>2 DEF Flow
  <2>6. rows' # <<>>
    BY <2>2
  <2> QED BY <1>0, <1>4, <2>3, <2>4, <2>5, <2>6
        DEF Streak!Create, Typed, Flow, Streak!Go, Streak!TypeOK
<1>5. CASE Streak!CreateFails
  <2>1. Streak!TypeOK'
    BY <1>0, <1>5, StrikeTyped DEF Streak!CreateFails, Streak!TypeOK, Streak!Go, Streak!vars
  <2> QED BY <1>0, <1>5, <2>1
        DEF Streak!CreateFails, Typed, Streak!TypeOK, Flow, Known, Streak!Go, Last,
              Streak!vars
<1>6. CASE Streak!Publish
  <2>1. Len(rows) \in DOMAIN rows /\ Last <= MaxCloses
    BY <1>0, <1>6 DEF Streak!Publish, Flow, Streak!TypeOK, Last
  <2>2. Streak!TypeOK'
    BY <1>0, <1>6, <2>1 DEF Streak!Publish, Streak!TypeOK, Streak!Go, Last
  <2> QED BY <1>0, <1>6, <2>1, <2>2
        DEF Streak!Publish, Typed, Streak!TypeOK, Flow, Known, Streak!Go, Last
<1>7. ASSUME NEW r \in DOMAIN rows, Streak!LockRunsOut(r) PROVE Typed'
  <2>1. Streak!TypeOK'
    BY <1>0, <1>7 DEF Streak!LockRunsOut, Streak!TypeOK, Streak!Go, Streak!vars
  <2> QED BY <1>0, <1>7, <2>1
        DEF Streak!LockRunsOut, Typed, Streak!TypeOK, Flow, Known, Streak!Go, Last,
              Streak!vars
<1>8. ASSUME NEW t \in Streak!Threads, Streak!ExpirePause(t) PROVE Typed'
  <2>1. /\ Streak!End(t) /\ at[t] = "idle" /\ cached # 0 /\ cached' = 0 /\ streak' = 0
        /\ since' = Known /\ at' = [at EXCEPT ![t] = "expire"]
        /\ ending' = [ending EXCEPT ![t] = cached]
        /\ UNCHANGED <<closes, rows, over, struck>>
    BY <1>8 DEF Streak!ExpirePause, Streak!End, Streak!Go, Known, Last
  <2>2. Known \in 0 .. Last /\ Known' = Known /\ Last' = Last
    BY <1>0, <2>1 DEF Known, Flow, Last, Streak!TypeOK
  <2>3. Streak!TypeOK'
    BY <1>0, <1>8, <2>1, <2>2 DEF Streak!ExpirePause, Streak!TypeOK, Last
  <2> QED BY <1>0, <2>1, <2>2, <2>3 DEF Typed, Streak!TypeOK, Flow
<1>9. ASSUME NEW t \in Streak!Threads, Streak!ForceReset(t) PROVE Typed'
  <2>1. /\ Streak!End(t) /\ at[t] = "idle" /\ cached # 0 /\ cached' = 0 /\ streak' = 0
        /\ since' = Known /\ at' = [at EXCEPT ![t] = "expire"]
        /\ ending' = [ending EXCEPT ![t] = cached]
        /\ UNCHANGED <<closes, rows, over, struck>>
    BY <1>9 DEF Streak!ForceReset, Streak!End, Streak!Go, Known, Last
  <2>2. Known \in 0 .. Last /\ Known' = Known /\ Last' = Last
    BY <1>0, <2>1 DEF Known, Flow, Last, Streak!TypeOK
  <2>3. Streak!TypeOK'
    BY <1>0, <1>9, <2>1, <2>2 DEF Streak!ForceReset, Streak!TypeOK, Last
  <2> QED BY <1>0, <2>1, <2>2, <2>3 DEF Typed, Streak!TypeOK, Flow
<1>10. ASSUME NEW t \in Streak!Threads, Streak!ExpireRow(t) PROVE Typed'
  <2>1. /\ rows' \in Seq(Streak!Event) /\ DOMAIN rows' = DOMAIN rows /\ Len(rows') = Len(rows)
        /\ \A x \in DOMAIN rows : rows'[x].at = rows[x].at
    BY <1>0, <1>10, RowEnded DEF Streak!ExpireRow, Streak!TypeOK
  <2>2. Streak!TypeOK'
    BY <1>0, <1>10, <2>1 DEF Streak!ExpireRow, Streak!TypeOK, Streak!Go
  <2>3. UNCHANGED <<Last, Known>>
    BY <1>0, <1>10 DEF Streak!ExpireRow, Last, Known, Streak!Go, Streak!TypeOK
  <2>4. at'[Closer] = "publish" => rows' # <<>>
    BY <1>0, <1>10, <2>1 DEF Streak!ExpireRow, Flow, Streak!Go, Streak!TypeOK
  <2> QED BY <1>0, <1>10, <2>1, <2>2, <2>3, <2>4
        DEF Streak!ExpireRow, Typed, Flow, Streak!Go, Streak!TypeOK
<1>11. ASSUME NEW t \in Streak!Threads, Streak!ExpireFails(t) PROVE Typed'
  <2>1. Streak!TypeOK'
    BY <1>0, <1>11, StrikeTyped
          DEF Streak!ExpireFails, Streak!TypeOK, Streak!Go, Streak!vars
  <2> QED BY <1>0, <1>11, <2>1
        DEF Streak!ExpireFails, Typed, Streak!TypeOK, Flow, Known, Streak!Go, Last,
              Streak!vars
<1>12. CASE Streak!Restart
  <2>1. Streak!Rebuilt \in 0 .. Last
    BY <1>0, RebuiltLossy
  <2>2. cached' \in {0} \cup DOMAIN rows
    BY <1>12 DEF Streak!Restart, Streak!Active
  <2>3. /\ at' = [t \in Streak!Threads |-> "idle"] /\ streak' = Streak!Rebuilt
        /\ UNCHANGED <<closes, rows, over, ending, since, waived>>
    BY <1>12 DEF Streak!Restart
  <2>4. struck' \in [count : Nat, kinds : SUBSET Streak!AllFaults]
    BY <1>0, <1>12, StrikeTyped DEF Streak!Restart
  <2>5. Last' = Last /\ Last <= MaxCloses /\ Known' = Last /\ since <= Last
    BY <1>0, <2>3 DEF Last, Known, Streak!TypeOK
  <2>6. Streak!TypeOK'
    BY <1>0, <2>1, <2>2, <2>3, <2>4, <2>5 DEF Streak!TypeOK, Last
  <2> QED BY <1>0, <2>1, <2>3, <2>5, <2>6 DEF Typed, Streak!TypeOK, Flow
<1>13. CASE UNCHANGED Streak!vars
  <2>1. Streak!TypeOK'
    BY <1>0, <1>13 DEF Streak!TypeOK, Streak!Go, Streak!vars
  <2> QED BY <1>0, <1>13, <2>1
        DEF Typed, Streak!TypeOK, Flow, Known, Streak!Go, Last, Streak!vars
<1> QED
  BY <1>1, <1>2, <1>3, <1>4, <1>5, <1>6, <1>7, <1>8, <1>9, <1>10, <1>11, <1>12, <1>13
        DEF Streak!Next

-----------------------------------------------------------------------------
(* What the steps do to the closes the streak knows.                       *)

LEMMA SparedBefore ==
    ASSUME Streak!StopLossBreakerAssumption, Streak!TypeOK, [Streak!Next]_Streak!vars,
          NEW K, Streak!Spared(K)'
    PROVE  Streak!Spared(K)
<1>1. struck.kinds \subseteq struck'.kinds
  <2>1. ASSUME NEW f, Streak!Strike(f) PROVE struck.kinds \subseteq struck'.kinds
    BY <2>1, StrikeTyped
  <2>2. CASE UNCHANGED struck
    BY <2>2
  <2> QED
    BY <2>1, <2>2
          DEF Streak!Next, Streak!vars, Streak!ClosePosition, Streak!CloseElsewhere,
                Streak!Record, Streak!Create, Streak!CreateFails,
       Streak!Publish, Streak!LockRunsOut, Streak!ExpirePause, Streak!ForceReset,
             Streak!ExpireRow, Streak!ExpireFails, Streak!Restart
<1> QED BY <1>1 DEF Streak!Spared

LEMMA StrikeShows ==
    ASSUME Streak!StopLossBreakerAssumption, Streak!TypeOK, NEW f, NEW K, f \in K,
          Streak!Strike(f)
    PROVE  ~Streak!Spared(K)'
  BY StrikeTyped DEF Streak!Spared

\* The actions that close nothing, and leave the streak and its start alone.
Bystanding ==
    \/ Streak!Create \/ Streak!CreateFails \/ UNCHANGED Streak!vars
    \/ \E r \in DOMAIN rows : Streak!LockRunsOut(r)
    \/ \E t \in Streak!Threads : Streak!ExpireRow(t) \/ Streak!ExpireFails(t)

\* The actions after which a streak starts afresh.
Restarting == Streak!Publish \/ \E t \in Streak!Threads : Streak!ExpirePause(t) \/ Streak!ForceReset(t)

LEMMA KnownNext ==
    ASSUME Streak!StopLossBreakerAssumption, Typed
    PROVE  /\ Last \in Nat /\ Known \in 0 .. Last /\ streak \in Nat /\ since \in Nat
           /\ Limit \in Nat \ {0} /\ since <= Known
           /\ \A reason \in Streak!Reasons : Streak!ClosePosition(reason) =>
                 /\ Known = Last /\ Known' = Last
                 /\ \A i \in 1 .. Last : closes'[i] = closes[i]
           /\ Streak!CloseElsewhere =>
                 Known = Last /\ Known' = Last + 1 /\ closes'[Last + 1] = "OTHER"
           /\ Streak!Record => /\ Last > 0 /\ Known = Last - 1 /\ Known' = Last /\ Last' = Last
                        /\ UNCHANGED closes
           /\ Bystanding => UNCHANGED <<closes, streak, since, Known>>
           /\ Restarting => Known' = Known /\ since' = Known /\ streak' = 0
           /\ Streak!Restart => Known' = Last /\ UNCHANGED closes /\ streak' = Streak!Rebuilt
<1>0. /\ Streak!TypeOK /\ Flow /\ Last \in Nat /\ MaxCloses \in Nat /\ Limit \in Nat \ {0}
      /\ Closer \in Streak!Threads /\ Streak!Reasons = {"STOP_LOSS", "OTHER"}
      /\ streak \in Nat /\ since \in Nat /\ since <= Known /\ Known \in 0 .. Last
  BY DEF Typed, Streak!TypeOK, Last, Streak!StopLossBreakerAssumption, Streak!Threads,
        Streak!Reasons, Flow, Known
<1>1. ASSUME NEW reason \in Streak!Reasons, Streak!ClosePosition(reason)
      PROVE  Known = Last /\ Known' = Last /\ \A i \in 1 .. Last : closes'[i] = closes[i]
  <2>1. /\ at[Closer] = "idle" /\ at'[Closer] = "record" /\ Last < MaxCloses
        /\ closes' = Append(closes, reason)
    BY <1>0, <1>1 DEF Streak!ClosePosition, Streak!Go, Streak!TypeOK, Last
  <2>2. Last' = Last + 1 /\ \A i \in 1 .. Last : closes'[i] = closes[i]
    BY <1>0, <2>1, ClosesTyped
  <2>3. Known = Last /\ Known' = Last' - 1
    BY <2>1 DEF Known
  <2>4. Last' - 1 = Last
    BY <1>0, <2>2
  <2> QED BY <2>2, <2>3, <2>4
<1>2. ASSUME Streak!CloseElsewhere
      PROVE  Known = Last /\ Known' = Last + 1 /\ closes'[Last + 1] = "OTHER"
  <2>1. /\ at[Closer] = "idle" /\ at' = at /\ Last < MaxCloses
        /\ closes' = Append(closes, "OTHER")
    BY <1>2 DEF Streak!CloseElsewhere, Last
  <2>2. Last' = Last + 1 /\ closes'[Last + 1] = "OTHER"
    BY <1>0, <2>1, ClosesTyped
  <2> QED BY <1>0, <2>1, <2>2 DEF Known
<1>3. ASSUME Streak!Record
      PROVE  /\ Last > 0 /\ Known = Last - 1 /\ Known' = Last /\ Last' = Last
             /\ UNCHANGED closes
  <2>1. at[Closer] = "record" /\ at'[Closer] \in {"create", "idle"} /\ UNCHANGED closes
    BY <1>0, <1>3 DEF Streak!Record, Streak!Go, Streak!TypeOK
  <2> QED BY <1>0, <2>1 DEF Known, Last, Flow
<1>4. ASSUME Bystanding PROVE UNCHANGED <<closes, streak, since, Known>>
  <2>1. UNCHANGED <<closes, streak, since>>
    BY <1>4
          DEF Bystanding, Streak!Create, Streak!CreateFails, Streak!LockRunsOut,
                Streak!ExpireRow, Streak!ExpireFails, Streak!vars
  <2>2. at[Closer] = "record" <=> at'[Closer] = "record"
    BY <1>0, <1>4
       DEF Bystanding, Streak!Create, Streak!CreateFails, Streak!LockRunsOut,
             Streak!ExpireRow, Streak!ExpireFails, Streak!vars, Streak!Go, Streak!TypeOK
  <2> QED BY <2>1, <2>2 DEF Known, Last
<1>5. ASSUME Restarting PROVE Known' = Known /\ since' = Known /\ streak' = 0
  <2>1. CASE Streak!Publish
    BY <1>0, <2>1 DEF Streak!Publish, Streak!Go, Streak!TypeOK, Known, Last
  <2>2. ASSUME NEW t \in Streak!Threads, Streak!End(t), UNCHANGED closes
        PROVE  Known' = Known /\ since' = Known /\ streak' = 0
    BY <1>0, <2>2 DEF Streak!End, Streak!Go, Streak!TypeOK, Known, Last
  <2> QED BY <1>5, <2>1, <2>2 DEF Restarting, Streak!ExpirePause, Streak!ForceReset
<1>6. ASSUME Streak!Restart
      PROVE Known' = Last /\ UNCHANGED closes /\ streak' = Streak!Rebuilt
  BY <1>0, <1>6 DEF Streak!Restart, Known, Last
<1> QED BY <1>0, <1>1, <1>2, <1>3, <1>4, <1>5, <1>6

\* Every step is one of those.
LEMMA StepCases ==
    ASSUME [Streak!Next]_Streak!vars
    PROVE  \/ \E reason \in Streak!Reasons : Streak!ClosePosition(reason)
           \/ Streak!CloseElsewhere \/ Streak!Record \/ Bystanding \/ Restarting \/ Streak!Restart
  BY DEF Streak!Next, Bystanding, Restarting

\* A restart is a fault.
LEMMA RestartShows ==
    ASSUME Streak!StopLossBreakerAssumption, Streak!TypeOK, Streak!Restart
    PROVE  /\ ~Streak!Spared({"crash", "crashEnding"})'
           /\ ~Streak!Spared({"crash", "crashEnding", "db"})'
           /\ Streak!Spared({"crashEnding", "db"})' =>
                 \A t \in Streak!Threads : at[t] # "expire"
<1>1. CASE \E t \in Streak!Threads : at[t] = "expire"
  <2>1. Streak!Strike("crashEnding")
    BY <1>1 DEF Streak!Restart
  <2> QED BY <2>1, StrikeShows
<1>2. CASE ~\E t \in Streak!Threads : at[t] = "expire"
  <2>1. Streak!Strike("crash")
    BY <1>2 DEF Streak!Restart
  <2> QED BY <1>2, <2>1, StrikeShows
<1> QED BY <1>1, <1>2

-----------------------------------------------------------------------------
(* The steps of the four invariants.                                       *)

LEMMA RowStep ==
    ASSUME Streak!StopLossBreakerAssumption, Typed, RowInv, [Streak!Next]_Streak!vars
          PROVE RowInv'
<1> SUFFICES ASSUME Streak!Spared({"elsewhere"})' PROVE Lossy(streak, Known)'
  BY DEF RowInv
<1>0. /\ Streak!TypeOK /\ Flow /\ Last \in Nat /\ Known \in 0 .. Last /\ streak \in Nat
      /\ since \in Nat /\ Lossy(streak, Known)
  BY SparedBefore, KnownNext DEF Typed, RowInv
<1>1. ASSUME NEW reason \in Streak!Reasons, Streak!ClosePosition(reason)
      PROVE Lossy(streak, Known)'
  <2>1. /\ Known = Last /\ Known' = Last /\ streak' = streak
        /\ \A i \in 1 .. Last : closes'[i] = closes[i]
    BY <1>1, KnownNext DEF Streak!ClosePosition
  <2>2. \A i \in Last - streak + 1 .. Last : i \in 1 .. Last
    BY <1>0, <2>1 DEF Lossy
  <2> QED BY <1>0, <2>1, <2>2 DEF Lossy
<1>2. CASE Streak!CloseElsewhere
  BY <1>0, <1>2, StrikeShows DEF Streak!CloseElsewhere
<1>3. CASE Streak!Record
  <2>1. Last > 0 /\ Known = Last - 1 /\ Known' = Last /\ Last' = Last /\ UNCHANGED closes
    BY <1>3, KnownNext
  <2>2. CASE Streak!Recorded = "STOP_LOSS"
    <3>1. streak' = streak + 1 /\ closes[(Last - 1) + 1] = "STOP_LOSS"
      BY <1>0, <1>3, <2>2 DEF Streak!Record, Streak!NextStreak, Streak!Recorded, Last
    <3>2. Lossy(streak + 1, (Last - 1) + 1)
      BY <1>0, <2>1, <3>1, LossyNext
    <3> QED BY <1>0, <2>1, <3>1, <3>2 DEF Lossy
  <2>3. CASE Streak!Recorded # "STOP_LOSS"
    <3>1. streak' = 0
      BY <1>3, <2>3 DEF Streak!Record, Streak!NextStreak
    <3> QED BY <1>0, <2>1, <3>1 DEF Lossy
  <2> QED BY <2>2, <2>3
<1>4. CASE Bystanding
  BY <1>0, <1>4, KnownNext DEF Lossy
<1>5. CASE Restarting
  <2>1. streak' = 0 /\ Known' = Known
    BY <1>5, KnownNext
  <2> QED BY <1>0, <2>1 DEF Lossy
<1>6. CASE Streak!Restart
  <2>1. Known' = Last /\ UNCHANGED closes /\ streak' = Streak!Rebuilt
    BY <1>6, KnownNext
  <2>2. Streak!Rebuilt \in 0 .. Last /\ Lossy(Streak!Rebuilt, Last)
    BY <1>0, RebuiltLossy
  <2> QED BY <2>1, <2>2 DEF Lossy
<1> QED BY <1>1, <1>2, <1>3, <1>4, <1>5, <1>6, StepCases

LEMMA FreshStep ==
    ASSUME Streak!StopLossBreakerAssumption, Typed, FreshInv,
          [Streak!Next]_Streak!vars PROVE FreshInv'
<1> SUFFICES ASSUME Streak!Spared({"crash", "crashEnding"})'
      PROVE streak' <= Known' - since'
  BY DEF FreshInv
<1>0. /\ Streak!TypeOK /\ Last \in Nat /\ Known \in 0 .. Last /\ streak \in Nat /\ since \in Nat
      /\ since <= Known /\ streak <= Known - since
  BY SparedBefore, KnownNext DEF Typed, FreshInv
<1>1. ASSUME NEW reason \in Streak!Reasons, Streak!ClosePosition(reason)
      PROVE streak' <= Known' - since'
  <2>1. Known = Last /\ Known' = Last
    BY <1>1, KnownNext
  <2> QED BY <1>0, <1>1, <2>1 DEF Streak!ClosePosition
<1>2. CASE Streak!CloseElsewhere
  <2>1. Known = Last /\ Known' = Last + 1
    BY <1>2, KnownNext
  <2> QED BY <1>0, <1>2, <2>1 DEF Streak!CloseElsewhere
<1>3. CASE Streak!Record
  <2>1. Known = Last - 1 /\ Known' = Last
    BY <1>3, KnownNext
  <2>2. streak' \in {0, streak + 1} /\ since' = since
    BY <1>3 DEF Streak!Record, Streak!NextStreak
  <2> QED BY <1>0, <2>1, <2>2
<1>4. CASE Bystanding
  BY <1>0, <1>4, KnownNext
<1>5. CASE Restarting
  <2>1. Known' = Known /\ since' = Known /\ streak' = 0
    BY <1>5, KnownNext
  <2> QED BY <1>0, <2>1
<1>6. CASE Streak!Restart
  BY <1>0, <1>6, RestartShows
<1> QED BY <1>1, <1>2, <1>3, <1>4, <1>5, <1>6, StepCases

LEMMA CountStep ==
    ASSUME Streak!StopLossBreakerAssumption, Typed, CountInv,
          [Streak!Next]_Streak!vars PROVE CountInv'
<1> SUFFICES ASSUME Streak!Spared({"crash", "crashEnding", "db"})'
             PROVE  /\ \A m \in 0 .. Known' - since' : Lossy(m, Known)' => m <= streak'
                    /\ cached' = 0 /\ at'[Closer] \notin {"create", "publish"}
                          => streak' < Limit
  BY DEF CountInv
<1>0. /\ Streak!TypeOK /\ Flow /\ Last \in Nat /\ Known \in 0 .. Last /\ streak \in Nat
      /\ since \in Nat /\ since <= Known /\ Limit \in Nat \ {0} /\ Closer \in Streak!Threads
  BY KnownNext DEF Typed, Streak!Threads
<1>s. Streak!Spared({"crash", "crashEnding", "db"})
  BY <1>0, SparedBefore
<1>m. \A m \in 0 .. Known - since : Lossy(m, Known) => m <= streak
  BY <1>s DEF CountInv
<1>l. cached = 0 /\ at[Closer] \notin {"create", "publish"} => streak < Limit
  BY <1>s DEF CountInv
<1>a. ASSUME NEW m \in 0 .. Known' - since', Lossy(m, Known)' PROVE m <= streak'
  <2>1. ASSUME NEW reason \in Streak!Reasons, Streak!ClosePosition(reason)
        PROVE m <= streak'
    <3>1. /\ Known = Last /\ Known' = Last /\ streak' = streak /\ since' = since
          /\ \A i \in 1 .. Last : closes'[i] = closes[i]
      BY <2>1, KnownNext DEF Streak!ClosePosition
    <3>2. \A i \in Last - m + 1 .. Last : i \in 1 .. Last
      BY <1>0, <3>1
    <3>3. Lossy(m, Known)
      BY <1>0, <1>a, <3>1, <3>2 DEF Lossy
    <3> QED BY <1>m, <3>1, <3>3
  <2>2. CASE Streak!CloseElsewhere
    <3>1. Known' = Last + 1 /\ closes'[Last + 1] = "OTHER" /\ Known = Last
          /\ streak' = streak /\ since' = since
      BY <2>2, KnownNext DEF Streak!CloseElsewhere
    <3>2. m = 0
      <4>1. m # 0 => Last + 1 \in (Last + 1) - m + 1 .. Last + 1
        BY <1>0, <3>1
      <4> QED BY <1>a, <3>1, <4>1 DEF Lossy
    <3> QED BY <1>0, <3>1, <3>2
  <2>3. CASE Streak!Record
    <3>1. /\ Last > 0 /\ Known = Last - 1 /\ Known' = Last /\ UNCHANGED <<closes, since>>
      BY <2>3, KnownNext DEF Streak!Record
    <3>2. streak' \in Nat
      BY <1>0, <2>3 DEF Streak!Record, Streak!NextStreak
    <3>3. CASE m = 0
      BY <3>2, <3>3
    <3>4. CASE m # 0
      <4>1. m - 1 \in Nat /\ Last - 1 \in Nat /\ m - 1 \in 0 .. Known - since
        BY <1>0, <3>1, <3>4
      <4>2. Lossy((m - 1) + 1, (Last - 1) + 1)
        BY <1>0, <1>a, <3>1, <4>1 DEF Lossy
      <4>3. Lossy(m - 1, Last - 1) /\ closes[(Last - 1) + 1] = "STOP_LOSS"
        BY <4>1, <4>2, LossyNext
      <4>4. m - 1 <= streak
        BY <1>m, <3>1, <4>1, <4>3
      <4>5. streak' = streak + 1
        BY <1>0, <2>3, <4>3 DEF Streak!Record, Streak!NextStreak, Streak!Recorded, Last
      <4> QED BY <1>0, <4>1, <4>4, <4>5
    <3> QED BY <3>3, <3>4
  <2>4. CASE Bystanding
    <3>1. UNCHANGED <<closes, streak, since, Known>>
      BY <2>4, KnownNext
    <3>2. Lossy(m, Known)
      BY <1>a, <3>1 DEF Lossy
    <3> QED BY <1>m, <3>1, <3>2
  <2>5. CASE Restarting
    <3>1. Known' = Known /\ since' = Known /\ streak' = 0
      BY <2>5, KnownNext
    <3> QED BY <1>0, <3>1
  <2>6. CASE Streak!Restart
    BY <1>0, <2>6, RestartShows
  <2> QED BY <2>1, <2>2, <2>3, <2>4, <2>5, <2>6, StepCases
<1>b. ASSUME cached' = 0, at'[Closer] \notin {"create", "publish"} PROVE streak' < Limit
  <2>1. ASSUME NEW reason \in Streak!Reasons, Streak!ClosePosition(reason)
        PROVE streak' < Limit
    BY <1>0, <1>b, <1>l, <2>1 DEF Streak!ClosePosition
  <2>2. CASE Streak!CloseElsewhere
    BY <1>0, <1>b, <1>l, <2>2 DEF Streak!CloseElsewhere
  <2>3. CASE Streak!Record
    <3>1. cached = 0 /\ ~(streak' >= Limit /\ cached = 0)
      BY <1>0, <1>b, <2>3 DEF Streak!Record, Streak!Go, Streak!TypeOK
    <3>2. streak' \in Nat
      BY <1>0, <2>3 DEF Streak!Record, Streak!NextStreak
    <3> QED BY <1>0, <3>1, <3>2
  <2>4. CASE Bystanding
    <3>1. CASE Streak!Create
      BY <1>0, <1>b, <3>1 DEF Streak!Create, Streak!Go, Streak!TypeOK
    <3>2. CASE Streak!CreateFails
      BY <1>0, <3>2, StrikeShows DEF Streak!CreateFails
    <3>3. CASE UNCHANGED Streak!vars
      BY <1>b, <1>l, <3>3 DEF Streak!vars
    <3>4. ASSUME NEW r \in DOMAIN rows, Streak!LockRunsOut(r) PROVE streak' < Limit
      BY <1>b, <1>l, <3>4 DEF Streak!LockRunsOut
    <3>5. ASSUME NEW t \in Streak!Threads,
          Streak!ExpireRow(t) \/ Streak!ExpireFails(t) PROVE streak' < Limit
      <4>1. /\ at[t] = "expire" /\ at' = [at EXCEPT ![t] = "idle"]
            /\ cached' = cached /\ streak' = streak
        BY <3>5 DEF Streak!ExpireRow, Streak!ExpireFails, Streak!Go
      <4>2. at[Closer] \notin {"create", "publish"}
        BY <1>0, <1>b, <4>1 DEF Streak!TypeOK
      <4> QED BY <1>b, <1>l, <4>1, <4>2
    <3> QED BY <2>4, <3>1, <3>2, <3>3, <3>4, <3>5 DEF Bystanding
  <2>5. CASE Restarting
    BY <1>0, <2>5, KnownNext
  <2>6. CASE Streak!Restart
    BY <1>0, <2>6, RestartShows
  <2> QED BY <2>1, <2>2, <2>3, <2>4, <2>5, <2>6, StepCases
<1> QED BY <1>a, <1>b

LEMMA HoldStep ==
    ASSUME Streak!StopLossBreakerAssumption, Typed, HoldInv,
          [Streak!Next]_Streak!vars PROVE HoldInv'
<1> SUFFICES ASSUME Streak!Spared({"crashEnding", "db"})', NEW r \in Streak!Active'
      PROVE Accounted(r)'
  BY DEF HoldInv
<1>0. /\ Streak!TypeOK /\ Flow /\ Closer \in Streak!Threads
      /\ at \in [Streak!Threads -> {"idle", "record", "create", "publish", "expire"}]
      /\ ending \in [Streak!Threads -> Nat] /\ 0 \notin DOMAIN rows
  BY DEF Typed, Streak!TypeOK, Streak!Threads
<1>i. \A x \in Streak!Active : Accounted(x)
  <2>1. Streak!Spared({"crashEnding", "db"})
    BY <1>0, SparedBefore
  <2> QED BY <2>1 DEF HoldInv
\* A step that leaves the rows alone, and no thread ready to end or publish one.
<1>k. ASSUME UNCHANGED <<rows, cached, ending>>,
             \A t \in Streak!Threads : at[t] = "expire" => at'[t] = "expire",
             at[Closer] # "publish"
      PROVE  Accounted(r)'
  <2>1. r \in Streak!Active
    BY <1>k DEF Streak!Active
  <2> QED BY <1>i, <1>k, <2>1 DEF Accounted
<1>1. ASSUME NEW reason \in Streak!Reasons, Streak!ClosePosition(reason) PROVE Accounted(r)'
  BY <1>0, <1>1, <1>k DEF Streak!ClosePosition, Streak!Go
<1>2. CASE Streak!CloseElsewhere
  BY <1>2, <1>k DEF Streak!CloseElsewhere
<1>3. CASE Streak!Record
  BY <1>0, <1>3, <1>k DEF Streak!Record, Streak!Go
<1>4. CASE Streak!Create
  <2>1. /\ at[Closer] = "create" /\ at' = [at EXCEPT ![Closer] = "publish"]
        /\ rows' = Append(rows, [active |-> TRUE, at |-> Last])
        /\ UNCHANGED <<cached, ending>>
    BY <1>4 DEF Streak!Create, Streak!Go, Last
  <2>2. [active |-> TRUE, at |-> Last] \in Streak!Event
    BY <1>0 DEF Streak!TypeOK, Last, Streak!Event, Streak!StopLossBreakerAssumption
  <2>3. /\ DOMAIN rows' = DOMAIN rows \cup {Len(rows')}
        /\ \A x \in DOMAIN rows : rows'[x] = rows[x]
    BY <1>0, <2>1, <2>2, RowsTyped
  <2>4. CASE r = Len(rows')
    BY <1>0, <2>1, <2>4 DEF Accounted
  <2>5. CASE r # Len(rows')
    <3>1. r \in Streak!Active
      BY <2>3, <2>5 DEF Streak!Active
    <3>2. r = cached \/ \E t \in Streak!Threads : at[t] = "expire" /\ ending[t] = r
      BY <1>i, <2>1, <3>1 DEF Accounted
    <3> QED BY <1>0, <2>1, <3>2 DEF Accounted
  <2> QED BY <2>4, <2>5
<1>5. CASE Streak!CreateFails
  BY <1>0, <1>5, StrikeShows DEF Streak!CreateFails
<1>6. CASE Streak!Publish
  <2>1. /\ at[Closer] = "publish" /\ at' = [at EXCEPT ![Closer] = "idle"]
        /\ cached' = Len(rows) /\ UNCHANGED <<rows, ending>> /\ cached = 0
    BY <1>0, <1>6 DEF Streak!Publish, Streak!Go, Flow
  <2>2. r \in Streak!Active /\ r # 0
    BY <1>0, <2>1 DEF Streak!Active
  <2>3. r = Len(rows) \/ \E t \in Streak!Threads : at[t] = "expire" /\ ending[t] = r
    BY <1>i, <2>1, <2>2 DEF Accounted
  <2> QED BY <1>0, <2>1, <2>3 DEF Accounted
<1>7. ASSUME NEW x \in DOMAIN rows, Streak!LockRunsOut(x) PROVE Accounted(r)'
  <2>1. UNCHANGED <<rows, cached, at, ending>>
    BY <1>7 DEF Streak!LockRunsOut
  <2>2. r \in Streak!Active
    BY <2>1 DEF Streak!Active
  <2> QED BY <1>i, <2>1, <2>2 DEF Accounted
<1>8. ASSUME NEW t \in Streak!Threads, Streak!End(t), UNCHANGED rows PROVE Accounted(r)'
  <2>1. /\ at[t] = "idle" /\ at' = [at EXCEPT ![t] = "expire"]
        /\ ending' = [ending EXCEPT ![t] = cached] /\ UNCHANGED rows
    BY <1>8 DEF Streak!End, Streak!Go
  <2>2. r \in Streak!Active
    BY <2>1 DEF Streak!Active
  <2>3. CASE r = cached
    <3>1. at'[t] = "expire" /\ ending'[t] = r
      BY <1>0, <2>1, <2>3
    <3> QED BY <3>1 DEF Accounted
  <2>4. ASSUME NEW u \in Streak!Threads, at[u] = "expire", ending[u] = r PROVE Accounted(r)'
    <3>1. at'[u] = "expire" /\ ending'[u] = r
      BY <1>0, <2>1, <2>4
    <3> QED BY <3>1 DEF Accounted
  <2>5. CASE at[Closer] = "publish" /\ r = Len(rows)
    BY <1>0, <2>1, <2>5 DEF Accounted
  <2> QED BY <1>i, <2>2, <2>3, <2>4, <2>5 DEF Accounted
<1>9. ASSUME NEW t \in Streak!Threads, Streak!ExpireRow(t) PROVE Accounted(r)'
  <2>1. /\ at[t] = "expire" /\ at' = [at EXCEPT ![t] = "idle"] /\ ending[t] \in DOMAIN rows
        /\ rows' = [rows EXCEPT ![ending[t]].active = FALSE] /\ UNCHANGED <<cached, ending>>
    BY <1>0, <1>9 DEF Streak!ExpireRow, Streak!Go, Streak!TypeOK
  <2>2. /\ DOMAIN rows' = DOMAIN rows /\ Len(rows') = Len(rows)
        /\ \A x \in DOMAIN rows : x # ending[t] => rows'[x].active = rows[x].active
        /\ rows'[ending[t]].active = FALSE
    BY <1>0, <2>1, RowEnded
  <2>3. r \in Streak!Active /\ r # ending[t]
    BY <2>2 DEF Streak!Active
  <2> QED BY <1>0, <1>i, <2>1, <2>2, <2>3 DEF Accounted
<1>10. ASSUME NEW t \in Streak!Threads, Streak!ExpireFails(t) PROVE Accounted(r)'
  BY <1>0, <1>10, StrikeShows DEF Streak!ExpireFails
<1>11. CASE Streak!Restart
  <2>1. /\ \A t \in Streak!Threads : at[t] # "expire"
        /\ rows' = rows /\ r \in Streak!Active /\ cached' \in Streak!Active
    BY <1>0, <1>11, RestartShows DEF Streak!Restart, Streak!Active
  \* At most one row is active: the cached one, or the one to publish.
  <2>2. \A x, y \in Streak!Active : x = y
    <3>1. CASE at[Closer] = "publish"
      <4>1. cached = 0
        BY <3>1 , <1>0 DEF Flow
      <4>2. \A x \in Streak!Active : x = Len(rows)
        BY <1>0, <1>i, <2>1, <4>1 DEF Accounted, Streak!Active
      <4> QED BY <4>2
    <3>2. CASE at[Closer] # "publish"
      BY <1>i, <2>1, <3>2 DEF Accounted
    <3> QED BY <3>1, <3>2
  <2> QED BY <2>1, <2>2 DEF Accounted
<1>12. CASE UNCHANGED Streak!vars
  <2>1. UNCHANGED <<rows, cached, at, ending>>
    BY <1>12 DEF Streak!vars
  <2>2. r \in Streak!Active
    BY <2>1 DEF Streak!Active
  <2> QED BY <1>i, <2>1, <2>2 DEF Accounted
<1> QED
  BY <1>1, <1>2, <1>3, <1>4, <1>5, <1>6, <1>7, <1>8, <1>9, <1>10, <1>11, <1>12
     DEF Streak!Next, Streak!ExpirePause, Streak!ForceReset

-----------------------------------------------------------------------------
(* The invariant and what it says. *)

LEMMA InvInit == ASSUME Streak!StopLossBreakerAssumption PROVE Streak!Init => StreakInv
<1> SUFFICES ASSUME Streak!Init PROVE StreakInv
  OBVIOUS
<1>1. Typed
  BY TypedInit
<1>2. /\ streak = 0 /\ since = 0 /\ cached = 0 /\ Known = 0 /\ Limit \in Nat \ {0}
      /\ Streak!Active = {}
  BY DEF Streak!Init, Known, Last, Streak!Active, Streak!StopLossBreakerAssumption,
        Streak!Threads
<1>3. Lossy(streak, Known)
  BY <1>2 DEF Lossy
<1>4. RowInv /\ FreshInv /\ CountInv /\ HoldInv
  BY <1>2, <1>3 DEF RowInv, FreshInv, CountInv, HoldInv
<1> QED BY <1>1, <1>4 DEF StreakInv

LEMMA InvStep ==
    ASSUME Streak!StopLossBreakerAssumption, StreakInv, [Streak!Next]_Streak!vars
    PROVE  StreakInv'
  BY TypedStep, RowStep, FreshStep, CountStep, HoldStep DEF StreakInv

\* What the invariant says is that pauses are right.
LEMMA InvPauses == ASSUME Streak!StopLossBreakerAssumption, StreakInv
      PROVE Streak!PausesRight
<1>0. /\ Streak!TypeOK /\ Flow /\ Last \in Nat /\ Known \in 0 .. Last /\ streak \in Nat
      /\ since \in 0 .. Last /\ 0 \in 0 .. Last /\ Limit \in Nat /\ Closer \in Streak!Threads
      /\ 0 \notin DOMAIN rows
  BY KnownNext DEF StreakInv, Typed, Streak!Threads, Streak!TypeOK, Last
<1>1. Streak!FreshStreak
  <2> SUFFICES ASSUME Streak!Spared({"crash", "crashEnding"}), at[Closer] = "create"
               PROVE  Len(closes) - since >= Limit
    BY DEF Streak!FreshStreak
  <2>1. Known = Last /\ streak >= Limit /\ streak <= Known - since
    BY <1>0 DEF Known, Flow, StreakInv, FreshInv
  <2> QED BY <1>0, <2>1 DEF Last
<1>2. Streak!InARow
  <2> SUFFICES ASSUME Streak!Spared({"elsewhere"}), at[Closer] = "create"
               PROVE  Streak!TailLosses(0) >= Limit
    BY DEF Streak!InARow
  <2>1. streak >= Limit /\ Lossy(streak, Last)
    BY <1>0 DEF Known, Flow, StreakInv, RowInv
  <2>2. Lossy(Limit, Last) /\ Limit <= Last - 0
    BY <1>0, <2>1 DEF Lossy
  <2> QED BY <1>0, <2>2, TailAtLeast
<1>3. Streak!LimitPauses
  <2> SUFFICES ASSUME Streak!Spared({"crash", "crashEnding", "db"}), Streak!AllIdle,
                      Streak!TailLosses(since) >= Limit, cached = 0
               PROVE  FALSE
    BY DEF Streak!LimitPauses
  <2>1. at[Closer] = "idle" /\ Known = Last
    BY <1>0 DEF Streak!AllIdle, Known
  <2>2. Lossy(Limit, Last) /\ Limit <= Last - since
    BY <1>0, TailAtLeast
  <2>3. Limit <= streak /\ streak < Limit
    BY <1>0, <2>1, <2>2 DEF StreakInv, CountInv
  <2> QED BY <1>0, <2>3
<1>4. Streak!PauseHolds
  <2> SUFFICES ASSUME Streak!Spared({"crashEnding", "db"}), Streak!AllIdle,
        NEW r \in Streak!Active
               PROVE  cached # 0
    BY DEF Streak!PauseHolds
  <2>1. r = cached
    BY <1>0 DEF StreakInv, HoldInv, Accounted, Streak!AllIdle
  <2> QED BY <1>0, <2>1 DEF Streak!Active
<1> QED BY <1>1, <1>2, <1>3, <1>4 DEF Streak!PausesRight

(* A pause starts from losses in a row after the last pause, starts when   *)
(* they are there, and holds, for any threads, limit, number of closes a   *)
(* restart looks at, closes and faults (record_position_close,             *)
(* check_circuit_breakers, force_reset_breaker, _compute_sl_streak).       *)
THEOREM PausesRightAlways ==
    ASSUME Streak!StopLossBreakerAssumption PROVE EverySpec => []PausesRight
<1>1. StreakInv => Streak!PausesRight
  BY InvPauses
<1>2. EveryInit => (part = "streak" => StreakInv)
  BY InvInit DEF EveryInit
<1>3. (part = "streak" => StreakInv) /\ [EveryNext]_allVars => (part = "streak" => StreakInv)'
  BY InvStep, PartsApart
<1> QED
  BY <1>1, <1>2, <1>3, PTL DEF EverySpec, PausesRight

-----------------------------------------------------------------------------
(* The order.                                                              *)

LEMMA MulMono ==
    ASSUME NEW a \in Nat, NEW b \in Nat, a <= b, NEW p \in Nat
    PROVE  a * p \in Nat /\ a * p <= b * p
<1>1. (b - a) * p >= 0
  BY SMT
<1>2. b * p = a * p + (b - a) * p
  BY SMT
<1> QED BY <1>1, <1>2, SMT

LEMMA DivIs ==
    ASSUME NEW a \in Nat, NEW p \in Nat \ {0}
    PROVE  /\ a \div p \in Nat /\ (a \div p) * p <= a /\ a < (a \div p) * p + p
           /\ a \div p <= a /\ \A n \in Nat : a < n * p => a \div p < n
<1>1. a \div p \in Nat /\ (a \div p) * p <= a /\ a < (a \div p) * p + p
  BY SMT
<1>2. a \div p <= a
  BY <1>1, SMT
<1>3. ASSUME NEW n \in Nat, a < n * p PROVE a \div p < n
  BY <1>1, <1>3, SMT
<1> QED BY <1>1, <1>2, <1>3

\* The roundings round down, to a step by less than a step.
LEMMA Rounded ==
    ASSUME Order!WholeAssumption, NEW q \in Nat
    PROVE  /\ Order!Buffered(q) \in Nat /\ Order!Buffered(q) <= q
           /\ Order!BufferAndRound(q) \in Nat /\ Order!BufferAndRound(q) <= q
           /\ \A n \in Nat \ {0} : /\ Order!RoundDown(q, n) \in Nat
                                   /\ Order!RoundDown(q, n) <= q
                                   /\ q < Order!RoundDown(q, n) + n
<1>1. Whole \in Nat \ {0} /\ Decimals \in Nat \ {0}
  BY DEF Order!WholeAssumption
<1>2. ASSUME NEW x \in Nat, NEW n \in Nat \ {0}
      PROVE  /\ Order!RoundDown(x, n) \in Nat /\ Order!RoundDown(x, n) <= x
             /\ x < Order!RoundDown(x, n) + n
  <2>1. Order!RoundDown(x, n) = (x \div n) * n
    BY DEF Order!RoundDown
  <2>2. x \div n \in Nat /\ (x \div n) * n <= x /\ x < (x \div n) * n + n
    BY DivIs
  <2>3. (x \div n) * n \in Nat
    BY <2>2, SMT
  <2> QED BY <2>1, <2>2, <2>3
<1>3. Order!Buffered(q) \in Nat /\ Order!Buffered(q) <= q
  <2>1. q * (Whole - 1) \in Nat /\ q * (Whole - 1) < (q + 1) * Whole /\ q * Whole \in Nat
    BY <1>1, SMT
  <2>2. (q * (Whole - 1)) \div Whole \in Nat /\ (q * (Whole - 1)) \div Whole < q + 1
    BY <1>1, <2>1, DivIs
  <2> QED BY <2>2 DEF Order!Buffered
<1>4. Order!BufferAndRound(q) \in Nat /\ Order!BufferAndRound(q) <= Order!Buffered(q)
  BY <1>1, <1>2, <1>3 DEF Order!BufferAndRound
<1> QED BY <1>2, <1>3, <1>4

Balances == [base : Nat, quote : Nat]
Paying == {"reread", "reread_done"}
Selling == {"list", "cancel", "cancelled", "settle"}
OrderRec == [stage : {"idle", "asked", "valid", "ready",
      "refused"} \cup Paying \cup Selling,
             side : Order!Sides, asked : Nat \cup {MAX}, qty : Nat \cup {MAX},
             price : (Nat \ {0}) \cup {Nil}]

OrderTyped ==
    /\ account \in Balances /\ balances \in Balances \cup {Nil}
    /\ fetched \in Balances \cup {Nil} /\ market \in RuleBooks
    /\ resting \in Seq(Nat) /\ cancels \in Seq(Nat)
    /\ order \in OrderRec /\ avail \in Nat \cup {Nil} /\ steady \in BOOLEAN

\* What the stages of the two validations have in hand.
StageOK ==
    /\ order.stage \in {"asked"} \cup Paying \cup Selling => order.qty = order.asked
    /\ order.stage \in Paying =>
          /\ order.side = "BID" /\ order.asked # MAX /\ order.price # Nil /\ avail # Nil
    /\ order.stage \in Selling => order.side = "ASK" /\ avail # Nil /\ balances # Nil

\* While the account can pay, so can every reading that may still be installed,
\* and the one the buy is decided on; and it keeps its quantity.
SteadyOK ==
    steady /\ order.stage # "idle" =>
        /\ order.side = "BID" /\ order.asked # MAX /\ order.price # Nil
        /\ order.asked * order.price <= account.quote
        /\ fetched # Nil => order.asked * order.price <= fetched.quote
        /\ order.stage = "reread_done" =>
              balances # Nil /\ order.asked * order.price <= balances.quote
        /\ order.stage = "valid" => order.qty = order.asked
        /\ order.stage = "ready" =>
              order.qty = IF market = Nil THEN order.asked
                          ELSE Order!RoundDown(order.asked, market.step)

\* A validated buy shrank to no less than one part in Gut.
ShrunkOK ==
    order.stage = "valid" /\ order.side = "BID" /\ order.asked # MAX =>
        /\ order.qty \in Nat /\ order.qty <= order.asked
        /\ order.qty * Gut >= order.asked

\* A validated order asks for no more than the balance it was validated with.
CoveredOK ==
    order.stage \in {"valid", "ready"} /\ avail # Nil =>
        /\ order.side = "ASK" => order.qty \in Nat /\ order.qty <= avail
        /\ order.side = "BID" /\ order.price # Nil =>
              order.qty \in Nat /\ order.qty * order.price <= avail

LawfulOK ==
    order.stage = "ready" /\ market # Nil =>
        order.qty \in Nat \ {0} /\ Order!ValidQuantity(order.qty)

OrderInv ==
    /\ OrderTyped /\ StageOK /\ SteadyOK /\ ShrunkOK /\ CoveredOK /\ LawfulOK
    /\ Order!NotGutted

LEMMA OrderConstants ==
    ASSUME Order!WholeAssumption
    PROVE  /\ Whole \in Nat \ {0} /\ Gut \in Nat \ {0} /\ Purse \in Nat /\ Amounts \subseteq Nat
           /\ OrderPrices \subseteq Nat \ {0}
           /\ \A m \in RuleBooks : m # Nil => m \in [min : Nat, max : Nat, step : Nat \ {0}]
           /\ MAX \notin Nat /\ Nil \notin Nat /\ Nil # MAX /\ Nil \notin Balances
  BY DEF Order!WholeAssumption, Balances

LEMMA OrderInit == ASSUME Order!WholeAssumption, Order!Init PROVE OrderInv
<1>0. 3 \in Nat /\ Purse \in Nat
  BY OrderConstants
<1>1. OrderTyped
  <2>1. account \in [base : {0, 3}, quote : {3, Purse}]
    BY DEF Order!Init
  <2>2. account \in Balances
    BY <1>0, <2>1 DEF Balances
  <2>3. <<>> \in Seq(Nat) /\ <<2, 1>> \in Seq(Nat)
    BY SMT
  <2>4. order = [stage |-> "idle", side |-> "BID", asked |-> 0, qty |-> 0, price |-> Nil]
    BY DEF Order!Init, Order!Idle
  <2>5. order \in OrderRec
    BY <2>4 DEF Order!Sides, OrderRec
  <2> QED BY <2>2, <2>3, <2>5 DEF Order!Init, OrderTyped
<1>2. order.stage = "idle"
  BY DEF Order!Init, Order!Idle
<1> QED
  BY <1>1, <1>2 DEF OrderInv, StageOK, SteadyOK, ShrunkOK, CoveredOK, LawfulOK,
     Order!NotGutted, Paying, Selling

\* The order goes to its next stage.
LEMMA Proceeds ==
    ASSUME OrderTyped, NEW stage, NEW q, Order!Proceed(stage, q)
    PROVE  /\ order'.stage = stage /\ order'.qty = q /\ order'.side = order.side
           /\ order'.asked = order.asked /\ order'.price = order.price
  BY DEF Order!Proceed, OrderTyped, OrderRec

LEMMA ProceedsTyped ==
    ASSUME OrderTyped, NEW stage, NEW q, Order!Proceed(stage, q), q \in Nat \cup {MAX},
           stage \in {"idle", "asked", "valid", "ready", "refused"} \cup Paying \cup Selling
    PROVE  order' \in OrderRec
  BY DEF Order!Proceed, OrderTyped, OrderRec

LEMMA OrderFetches ==
    ASSUME Order!WholeAssumption, OrderInv, Order!Fetch PROVE OrderInv'
<1>1. /\ UNCHANGED <<account, resting, balances, market, order, avail, cancels, steady>>
      /\ fetched' = account
  BY DEF Order!Fetch, Order!Balances
<1>2. OrderTyped'
  BY <1>1 DEF OrderInv, OrderTyped
<1>3. SteadyOK'
  BY <1>1 DEF OrderInv, SteadyOK
<1> QED
  BY <1>1, <1>2, <1>3 DEF OrderInv, StageOK, ShrunkOK, CoveredOK, LawfulOK, Order!NotGutted,
     Order!ValidQuantity

LEMMA OrderInstalls ==
    ASSUME Order!WholeAssumption, OrderInv, Order!Install PROVE OrderInv'
<1>1. /\ UNCHANGED <<account, resting, market, order, avail, cancels, steady>>
      /\ fetched' = Nil /\ balances' = fetched /\ fetched # Nil
  BY DEF Order!Install
<1>2. OrderTyped'
  BY <1>1 DEF OrderInv, OrderTyped
<1>3. SteadyOK'
  BY <1>1 DEF OrderInv, SteadyOK
<1>4. StageOK'
  BY <1>1 DEF OrderInv, StageOK
<1> QED
  BY <1>1, <1>2, <1>3, <1>4 DEF OrderInv, ShrunkOK, CoveredOK, LawfulOK, Order!NotGutted,
     Order!ValidQuantity

LEMMA OrderElsewhere ==
    ASSUME Order!WholeAssumption, OrderInv,
           NEW asset \in {"base", "quote"}, NEW amount \in {-2, 3},
           Order!Elsewhere(asset, amount)
    PROVE  OrderInv'
<1>1. /\ UNCHANGED <<resting, balances, fetched, market, order, avail, cancels>>
      /\ steady' = (steady /\ Order!Affordable(account'))
      /\ account' = [account EXCEPT ![asset] = @ + amount]
      /\ account[asset] + amount \in 0..Purse
  BY DEF Order!Elsewhere
<1>2. account \in Balances /\ Purse \in Nat
  BY OrderConstants DEF OrderInv, OrderTyped
<1>3. account' \in Balances
  BY <1>1, <1>2 DEF Balances
<1>4. OrderTyped'
  BY <1>1, <1>3 DEF OrderInv, OrderTyped
<1>5. SteadyOK'
  <2> SUFFICES ASSUME steady', order.stage # "idle" PROVE SteadyOK'
    BY <1>1 DEF SteadyOK
  <2>1. steady /\ Order!Affordable(account')
    BY <1>1
  <2>2. order.side = "BID" /\ order.asked # MAX /\ order.price # Nil
    BY <2>1 DEF OrderInv, SteadyOK
  <2>3. order.asked * order.price <= account'.quote
    BY <2>1, <2>2 DEF Order!Affordable, Order!Needed
  <2> QED
    BY <1>1, <2>1, <2>3 DEF OrderInv, SteadyOK
<1> QED
  BY <1>1, <1>4, <1>5 DEF OrderInv, StageOK, ShrunkOK, CoveredOK, LawfulOK, Order!NotGutted,
     Order!ValidQuantity

LEMMA OrderRestFills ==
    ASSUME Order!WholeAssumption, OrderInv, Order!RestFills PROVE OrderInv'
<1>1. /\ UNCHANGED <<account, balances, fetched, market, order, avail, cancels, steady>>
      /\ resting # <<>> /\ resting' = Tail(resting)
  BY DEF Order!RestFills
<1>2. OrderTyped'
  BY <1>1 DEF OrderInv, OrderTyped
<1> QED
  BY <1>1, <1>2 DEF OrderInv, StageOK, SteadyOK, ShrunkOK, CoveredOK, LawfulOK,
     Order!NotGutted, Order!ValidQuantity

LEMMA OrderAsked ==
    ASSUME Order!WholeAssumption, OrderInv,
           NEW side \in Order!Sides, NEW asked \in Amounts \cup {MAX},
           NEW price \in OrderPrices \cup {Nil}, Order!Ask(side, asked, price)
    PROVE  OrderInv'
<1>1. /\ UNCHANGED <<account, resting, balances, fetched, market, avail, cancels>>
      /\ order' = [stage |-> "asked", side |-> side, asked |-> asked, qty |-> asked,
                   price |-> price]
      /\ steady' = /\ fetched = Nil
                   /\ side = "BID" /\ asked # MAX /\ price # Nil
                   /\ asked * price <= account.quote
  BY DEF Order!Ask
<1>2. steady' \in BOOLEAN
  BY <1>1
<1>3. order' \in OrderRec
  BY <1>1, OrderConstants DEF OrderRec
<1>4. OrderTyped'
  BY <1>1, <1>2, <1>3 DEF OrderInv, OrderTyped
<1>5. /\ order'.stage = "asked" /\ order'.side = side /\ order'.asked = asked
      /\ order'.qty = asked /\ order'.price = price
  BY <1>1
<1>6. SteadyOK'
  BY <1>1, <1>5 DEF SteadyOK
<1> QED
  BY <1>4, <1>5, <1>6 DEF OrderInv, StageOK, ShrunkOK, CoveredOK, LawfulOK,
     Order!NotGutted, Paying, Selling

LEMMA OrderForgotten ==
    ASSUME Order!WholeAssumption, OrderInv, Order!Done, account' \in Balances,
           balances' \in Balances \cup {Nil}, UNCHANGED <<resting, fetched, market>>
    PROVE  OrderInv'
<1>1. order' = Order!Idle /\ avail' = Nil /\ cancels' = <<>> /\ steady' = TRUE
  BY DEF Order!Done
<1>2. order' \in OrderRec /\ order'.stage = "idle" /\ order'.qty = order'.asked
  BY <1>1 DEF Order!Idle, OrderRec, Order!Sides
<1>3. OrderTyped'
  BY <1>1, <1>2 DEF OrderInv, OrderTyped
<1> QED
  BY <1>2, <1>3 DEF OrderInv, StageOK, SteadyOK, ShrunkOK, CoveredOK, LawfulOK,
     Order!NotGutted, Paying, Selling

LEMMA OrderRejected ==
    ASSUME Order!WholeAssumption, OrderInv, Order!Rejected PROVE OrderInv'
  BY OrderForgotten DEF Order!Rejected, OrderInv, OrderTyped

LEMMA OrderExecuted ==
    ASSUME Order!WholeAssumption, OrderInv, NEW executed \in 0..Purse, NEW ok \in BOOLEAN,
           Order!Execute(executed, ok)
    PROVE  OrderInv'
<1> DEFINE p == IF order.price = Nil THEN 1 ELSE order.price
<1>1. /\ order.stage = "ready" /\ Order!Settles(order) /\ executed \in 0..order.qty
      /\ account' = IF order.side = "ASK"
                    THEN [base |-> account.base - executed,
                          quote |-> account.quote + executed * p]
                    ELSE [base |-> account.base + executed,
                          quote |-> account.quote - executed * p]
      /\ balances' = IF executed > 0 /\ ok THEN account' ELSE balances
      /\ Order!Done /\ UNCHANGED <<resting, fetched, market>>
  BY DEF Order!Execute
<1>2. account.base \in Nat /\ account.quote \in Nat
  BY DEF OrderInv, OrderTyped, Balances
<1>3. p \in Nat \ {0}
  BY DEF OrderInv, OrderTyped, OrderRec
<1>4. order.qty \in Nat /\ executed \in Nat /\ executed <= order.qty
  BY <1>1 DEF OrderInv, OrderTyped, OrderRec, Order!Settles
<1>5. executed * p \in Nat /\ executed * p <= order.qty * p
  BY <1>3, <1>4, MulMono
<1>6. IF order.side = "ASK" THEN order.qty <= account.base ELSE order.qty * p <= account.quote
  BY <1>1 DEF Order!Settles
<1>7. order.qty * p \in Nat
  BY <1>3, <1>4, SMT
<1>8. CASE order.side = "ASK"
  <2>1. account' = [base |-> account.base - executed,
        quote |-> account.quote + executed * p]
    BY <1>1, <1>8
  <2> HIDE DEF p
  <2>2. account.base - executed \in Nat /\ account.quote + executed * p \in Nat
    BY <1>2, <1>4, <1>5, <1>6, <1>8
  <2>3. account' \in Balances
    BY <2>1, <2>2 DEF Balances
  <2> QED BY <1>1, <2>3, OrderForgotten DEF OrderInv, OrderTyped
<1>9. CASE order.side # "ASK"
  <2>1. account' = [base |-> account.base + executed,
        quote |-> account.quote - executed * p]
    BY <1>1, <1>9
  <2> HIDE DEF p
  <2>2. account.base + executed \in Nat /\ account.quote - executed * p \in Nat
    BY <1>2, <1>4, <1>5, <1>6, <1>7, <1>9
  <2>3. account' \in Balances
    BY <2>1, <2>2 DEF Balances
  <2> QED BY <1>1, <2>3, OrderForgotten DEF OrderInv, OrderTyped
<1> QED BY <1>8, <1>9

\* What an order that only changes its stage, with a typed quantity, keeps.
LEMMA OrderProceedsTyped ==
    ASSUME OrderInv, NEW stage, NEW q, Order!Proceed(stage, q), q \in Nat \cup {MAX},
           stage \in {"idle", "asked", "valid", "ready",
                 "refused"} \cup Paying \cup Selling,
           UNCHANGED <<account, fetched, market, resting>>,
           balances' \in Balances \cup {Nil}, avail' \in Nat \cup {Nil},
           cancels' \in Seq(Nat), steady' \in BOOLEAN
    PROVE  OrderTyped'
<1>1. order' \in OrderRec
  BY ProceedsTyped DEF OrderInv
<1> QED
  BY <1>1 DEF OrderInv, OrderTyped

LEMMA OrderRefused ==
    ASSUME OrderInv, Order!Refuse, UNCHANGED <<account, fetched, market, resting, cancels>>,
           balances' = balances, avail' \in Nat \cup {Nil}, steady' = steady,
           order.stage # "idle"
    PROVE  OrderInv'
<1>1. order.qty \in Nat \cup {MAX}
  BY DEF OrderInv, OrderTyped, OrderRec
<1>2. OrderTyped'
  BY <1>1, OrderProceedsTyped DEF Order!Refuse, OrderInv, OrderTyped
<1>3. /\ order'.stage = "refused" /\ order'.qty = order.qty /\ order'.side = order.side
      /\ order'.asked = order.asked /\ order'.price = order.price
  BY Proceeds DEF Order!Refuse, OrderInv
<1> QED
  BY <1>2, <1>3 DEF OrderInv, StageOK, SteadyOK, ShrunkOK, CoveredOK, LawfulOK,
     Order!NotGutted, Paying, Selling

\* A sell's way through its stages: its quantity is still the asked one, and a
\* balance is known.
LEMMA OrderSells ==
    ASSUME Order!WholeAssumption, OrderInv, NEW stage \in Selling,
           Order!Proceed(stage, order.qty), order.side = "ASK", order.qty = order.asked,
           order.stage # "idle",
           UNCHANGED <<fetched, market, account, resting>>, cancels' \in Seq(Nat),
           balances' \in Balances, avail' \in Nat, steady' \in BOOLEAN, steady' => steady
    PROVE  OrderInv'
<1>1. order.qty \in Nat \cup {MAX}
  BY DEF OrderInv, OrderTyped, OrderRec
<1>2. OrderTyped'
  BY <1>1, OrderProceedsTyped DEF OrderInv, OrderTyped
<1>3. /\ order'.stage = stage /\ order'.qty = order.qty /\ order'.side = order.side
      /\ order'.asked = order.asked /\ order'.price = order.price
  BY Proceeds DEF OrderInv
<1>4. Nil \notin Nat /\ Nil \notin Balances
  BY OrderConstants
<1>5. ~ steady
  BY DEF OrderInv, SteadyOK
<1> QED
  BY <1>2, <1>3, <1>4, <1>5 DEF OrderInv, StageOK, SteadyOK, ShrunkOK, CoveredOK, LawfulOK,
     Order!NotGutted, Paying, Selling

\* A validated order: what it has to satisfy.
LEMMA OrderValidated ==
    ASSUME Order!WholeAssumption, OrderInv, NEW q \in Nat \cup {MAX},
           Order!Proceed("valid", q), order.stage # "idle",
           UNCHANGED <<account, balances, fetched, market, resting, cancels, steady>>,
           avail' \in Nat \cup {Nil},
           steady => q = order.asked,
           order.side = "BID" /\ order.asked # MAX =>
              q \in Nat /\ q <= order.asked /\ q * Gut >= order.asked,
           avail' # Nil =>
              /\ order.side = "ASK" => q \in Nat /\ q <= avail'
              /\ order.side = "BID" /\ order.price # Nil =>
                    q \in Nat /\ q * order.price <= avail'
    PROVE  OrderInv'
<1>1. OrderTyped'
  BY OrderProceedsTyped DEF OrderInv, OrderTyped
<1>2. /\ order'.stage = "valid" /\ order'.qty = q /\ order'.side = order.side
      /\ order'.asked = order.asked /\ order'.price = order.price
  BY Proceeds DEF OrderInv
<1>3. SteadyOK'
  BY <1>2 DEF OrderInv, SteadyOK
<1>4. ShrunkOK'
  BY <1>2 DEF ShrunkOK
<1>5. CoveredOK'
  BY <1>2 DEF CoveredOK
<1> QED
  BY <1>1, <1>2, <1>3, <1>4, <1>5 DEF OrderInv, StageOK, LawfulOK,
     Order!NotGutted, Paying, Selling

\* An order that is not shrunk is not gutted.
LEMMA WholeIsNotGutted ==
    ASSUME Order!WholeAssumption, NEW a \in Nat PROVE a <= a /\ a * Gut >= a
<1>1. Gut \in Nat /\ 1 <= Gut
  BY DEF Order!WholeAssumption
<1>2. 1 * a <= Gut * a
  BY <1>1, MulMono
<1>3. Gut * a = a * Gut /\ 1 * a = a
  BY <1>1, SMT
<1> QED BY <1>2, <1>3, SMT

LEMMA OrderBuyValidated ==
    ASSUME Order!WholeAssumption, OrderInv, Order!ValidateBuy PROVE OrderInv'
<1> DEFINE a == IF balances = Nil THEN Nil ELSE balances.quote
<1>1. /\ order.stage = "asked" /\ order.side = "BID" /\ avail' = a
      /\ UNCHANGED <<account, resting, balances, fetched, market, cancels, steady>>
      /\ IF a = Nil THEN Order!Proceed("valid", order.qty)
         ELSE IF a <= 0 THEN Order!Refuse
         ELSE IF order.price = Nil THEN Order!Proceed("valid", order.qty)
         ELSE IF order.asked = MAX
              THEN Order!Proceed("valid", Order!BufferAndRound(a \div order.price))
         ELSE IF Order!Needed(order) <= a THEN Order!Proceed("valid", order.qty)
         ELSE Order!Proceed("reread", order.qty)
  BY DEF Order!ValidateBuy, Order!Available
<1>2. a \in Nat \cup {Nil} /\ Nil \notin Nat /\ MAX \notin Nat
  BY OrderConstants DEF OrderInv, OrderTyped, Balances
<1>3. /\ order.qty = order.asked /\ order.asked \in Nat \cup {MAX}
      /\ order.price \in (Nat \ {0}) \cup {Nil}
  BY <1>1 DEF OrderInv, StageOK, OrderTyped, OrderRec
<1>4. steady => order.asked # MAX /\ order.price # Nil
  BY <1>1 DEF OrderInv, SteadyOK
<1>5. ASSUME order.asked # MAX
      PROVE  order.asked \in Nat /\ order.asked <= order.asked /\ order.asked * Gut >= order.asked
  BY <1>3, <1>5, WholeIsNotGutted
<1> HIDE DEF a
<1>6. CASE a = Nil
  BY <1>1, <1>2, <1>3, <1>5, <1>6, OrderValidated
<1>7. CASE a # Nil /\ a <= 0
  BY <1>1, <1>2, <1>7, OrderRefused
<1>8. CASE a # Nil /\ ~ (a <= 0) /\ order.price = Nil
  BY <1>1, <1>2, <1>3, <1>5, <1>8, OrderValidated
<1>9. CASE a # Nil /\ ~ (a <= 0) /\ order.price # Nil /\ order.asked = MAX
  <2> DEFINE q == Order!BufferAndRound(a \div order.price)
  <2>1. a \in Nat /\ order.price \in Nat \ {0}
    BY <1>2, <1>3, <1>9
  <2>2. a \div order.price \in Nat /\ (a \div order.price) * order.price <= a
    BY <2>1, DivIs
  <2>3. q \in Nat /\ q <= a \div order.price
    BY <2>2, Rounded
  <2> HIDE DEF q
  <2>4. q * order.price \in Nat /\ q * order.price <= (a \div order.price) * order.price
    BY <2>1, <2>2, <2>3, MulMono
  <2>5. (a \div order.price) * order.price \in Nat
    BY <2>1, <2>2, SMT
  <2>6. q * order.price <= a
    BY <2>1, <2>2, <2>4, <2>5
  <2>7. Order!Proceed("valid", q)
    BY <1>1, <1>9 DEF q
  <2> QED BY <1>1, <1>2, <1>4, <1>9, <2>3, <2>6, <2>7, OrderValidated
<1>10. CASE /\ a # Nil /\ ~ (a <= 0) /\ order.price # Nil /\ order.asked # MAX
            /\ Order!Needed(order) <= a
  <2>1. order.asked * order.price <= a
    BY <1>10 DEF Order!Needed
  <2> QED BY <1>1, <1>2, <1>3, <1>5, <1>10, <2>1, OrderValidated
<1>11. CASE /\ a # Nil /\ ~ (a <= 0) /\ order.price # Nil /\ order.asked # MAX
            /\ ~ (Order!Needed(order) <= a)
  <2>1. Order!Proceed("reread", order.qty)
    BY <1>1, <1>11
  <2>2. OrderTyped'
    BY <1>1, <1>2, <1>3, <2>1, OrderProceedsTyped DEF OrderInv, OrderTyped, Paying
  <2>3. /\ order'.stage = "reread" /\ order'.qty = order.qty /\ order'.side = order.side
        /\ order'.asked = order.asked /\ order'.price = order.price
    BY <2>1, Proceeds DEF OrderInv
  <2> QED
    BY <1>1, <1>3, <1>11, <2>2, <2>3 DEF OrderInv, StageOK, SteadyOK, ShrunkOK, CoveredOK,
       LawfulOK, Order!NotGutted, Paying, Selling
<1> QED BY <1>6, <1>7, <1>8, <1>9, <1>10, <1>11

LEMMA OrderReread ==
    ASSUME Order!WholeAssumption, OrderInv, NEW ok \in BOOLEAN, Order!Reread(ok)
    PROVE  OrderInv'
<1>1. /\ order.stage = "reread" /\ Order!Proceed("reread_done", order.qty)
      /\ UNCHANGED <<account, resting, fetched, market, avail, cancels>>
      /\ balances' = (IF ok THEN account ELSE balances) /\ steady' = (steady /\ ok)
  BY DEF Order!Reread, Order!Refreshed, Order!Balances
<1>2. order.qty \in Nat \cup {MAX} /\ steady' \in BOOLEAN /\ balances' \in Balances \cup {Nil}
  BY <1>1 DEF OrderInv, OrderTyped, OrderRec
<1>3. OrderTyped'
  BY <1>1, <1>2, OrderProceedsTyped DEF OrderInv, OrderTyped, Paying
<1>4. /\ order'.stage = "reread_done" /\ order'.qty = order.qty /\ order'.side = order.side
      /\ order'.asked = order.asked /\ order'.price = order.price
  BY <1>1, Proceeds DEF OrderInv
<1>5. Nil \notin Balances
  BY OrderConstants
<1>6. SteadyOK'
  BY <1>1, <1>4, <1>5 DEF OrderInv, OrderTyped, SteadyOK
<1> QED
  BY <1>1, <1>3, <1>4, <1>6 DEF OrderInv, StageOK, ShrunkOK, CoveredOK,
     LawfulOK, Order!NotGutted, Paying, Selling

LEMMA OrderShrinks ==
    ASSUME Order!WholeAssumption, OrderInv, Order!Shrink PROVE OrderInv'
<1> DEFINE again == IF balances = Nil THEN Nil ELSE balances.quote
           a == IF again # Nil /\ again > avail THEN again ELSE avail
           q == Order!BufferAndRound(a \div order.price)
<1>1. /\ order.stage = "reread_done" /\ avail' = a
      /\ UNCHANGED <<account, resting, balances, fetched, market, cancels, steady>>
      /\ IF Order!Needed(order) <= a THEN Order!Proceed("valid", order.qty)
         ELSE IF q * Gut < order.asked THEN Order!Refuse
         ELSE Order!Proceed("valid", q)
  BY DEF Order!Shrink, Order!Available
<1>2. /\ order.qty = order.asked /\ order.side = "BID" /\ order.asked \in Nat
      /\ order.price \in Nat \ {0} /\ avail \in Nat
  BY <1>1 DEF OrderInv, StageOK, OrderTyped, OrderRec, Paying
<1>3. again \in Nat \cup {Nil} /\ Nil \notin Nat /\ MAX \notin Nat /\ Gut \in Nat
  BY OrderConstants DEF OrderInv, OrderTyped, Balances
<1>4. a \in Nat
  BY <1>2, <1>3
<1>5. steady => Order!Needed(order) <= a
  <2> SUFFICES ASSUME steady PROVE Order!Needed(order) <= a
    OBVIOUS
  <2>1. balances # Nil /\ order.asked * order.price <= balances.quote
    BY <1>1 DEF OrderInv, SteadyOK
  <2>2. order.asked * order.price \in Nat
    BY <1>2, SMT
  <2>3. again \in Nat /\ again = balances.quote
    BY <1>3, <2>1 DEF OrderInv, OrderTyped, Balances
  <2>4. a >= again
    BY <1>2, <2>3, <1>3
  <2> HIDE DEF a, again
  <2> QED BY <1>4, <2>1, <2>2, <2>3, <2>4 DEF Order!Needed
<1> HIDE DEF a
<1>6. CASE Order!Needed(order) <= a
  <2>1. order.asked * order.price <= a
    BY <1>6 DEF Order!Needed
  <2>2. order.asked <= order.asked /\ order.asked * Gut >= order.asked
    BY <1>2, WholeIsNotGutted
  <2> QED BY <1>1, <1>2, <1>4, <1>6, <2>1, <2>2, OrderValidated
<1>7. CASE ~ (Order!Needed(order) <= a) /\ q * Gut < order.asked
  BY <1>1, <1>4, <1>7, OrderRefused
<1>8. CASE ~ (Order!Needed(order) <= a) /\ ~ (q * Gut < order.asked)
  <2>1. /\ a \div order.price \in Nat /\ (a \div order.price) * order.price <= a
        /\ \A n \in Nat : a < n * order.price => a \div order.price < n
    BY <1>2, <1>4, DivIs
  <2>2. q \in Nat /\ q <= a \div order.price
    BY <2>1, Rounded
  <2>3. order.asked * order.price \in Nat
    BY <1>2, SMT
  <2>4. a < order.asked * order.price
    BY <1>4, <1>8, <2>3 DEF Order!Needed
  <2>5. a \div order.price < order.asked
    BY <1>2, <2>1, <2>4
  <2>6. Order!Proceed("valid", q) /\ ~ steady
    BY <1>1, <1>5, <1>8
  <2>7. ~ (q * Gut < order.asked)
    BY <1>8
  <2> HIDE DEF q
  <2>8. q * order.price \in Nat /\ q * order.price <= (a \div order.price) * order.price
    BY <1>2, <2>1, <2>2, MulMono
  <2>9. (a \div order.price) * order.price \in Nat /\ q * Gut \in Nat
    BY <1>2, <1>3, <2>1, <2>2, SMT
  <2>10. q <= order.asked /\ q * order.price <= a /\ q * Gut >= order.asked
    BY <1>2, <1>4, <2>1, <2>2, <2>5, <2>7, <2>8, <2>9
  <2> QED BY <1>1, <1>2, <1>4, <2>2, <2>6, <2>10, OrderValidated
<1> QED BY <1>6, <1>7, <1>8

LEMMA OrderSellValidated ==
    ASSUME Order!WholeAssumption, OrderInv, Order!ValidateSell PROVE OrderInv'
<1> DEFINE a == IF balances = Nil THEN Nil ELSE balances.base
<1>1. /\ order.stage = "asked" /\ order.side = "ASK" /\ avail' = a
      /\ UNCHANGED <<account, resting, balances, fetched, market, cancels, steady>>
      /\ IF a = Nil
         THEN IF order.asked = MAX THEN Order!Refuse ELSE Order!Proceed("valid", order.qty)
         ELSE IF order.asked = MAX \/ order.asked > a THEN Order!Proceed("list", order.qty)
         ELSE Order!Proceed("settle", order.qty)
  BY DEF Order!ValidateSell, Order!Available
<1>2. a \in Nat \cup {Nil} /\ Nil \notin Nat /\ (a # Nil => balances \in Balances)
  BY OrderConstants DEF OrderInv, OrderTyped, Balances
<1>3. order.qty = order.asked /\ order.qty \in Nat \cup {MAX} /\ ~ steady
  BY <1>1 DEF OrderInv, StageOK, SteadyOK, OrderTyped, OrderRec
<1>4. cancels \in Seq(Nat) /\ steady \in BOOLEAN
  BY DEF OrderInv, OrderTyped
<1> HIDE DEF a
<1>5. CASE a = Nil /\ order.asked = MAX
  BY <1>1, <1>2, <1>5, OrderRefused
<1>6. CASE a = Nil /\ order.asked # MAX
  BY <1>1, <1>2, <1>3, <1>6, OrderValidated
<1>7. CASE a # Nil
  <2>1. \/ Order!Proceed("list", order.qty) \/ Order!Proceed("settle", order.qty)
    BY <1>1, <1>7
  <2>2. balances' \in Balances /\ avail' \in Nat /\ cancels' \in Seq(Nat) /\ steady' = steady
        /\ steady' \in BOOLEAN
    BY <1>1, <1>2, <1>4, <1>7
  <2>3. CASE Order!Proceed("list", order.qty)
    <3>1. "list" \in Selling
      BY DEF Selling
    <3> QED BY <1>1, <1>3, <2>2, <2>3, <3>1, OrderSells
  <2>4. CASE Order!Proceed("settle", order.qty)
    <3>1. "settle" \in Selling
      BY DEF Selling
    <3> QED BY <1>1, <1>3, <2>2, <2>4, <3>1, OrderSells
  <2> QED BY <2>1, <2>3, <2>4
<1> QED BY <1>5, <1>6, <1>7

\* What a sell on its way has.
LEMMA SellHas ==
    ASSUME Order!WholeAssumption, OrderInv, order.stage \in Selling
    PROVE  /\ order.side = "ASK" /\ order.qty = order.asked /\ order.qty \in Nat \cup {MAX}
           /\ order.stage # "idle" /\ ~ steady
           /\ balances \in Balances /\ avail \in Nat /\ resting \in Seq(Nat)
           /\ cancels \in Seq(Nat) /\ steady \in BOOLEAN /\ account \in Balances
  BY OrderConstants DEF OrderInv, StageOK, SteadyOK, OrderTyped, OrderRec, Selling

LEMMA OrderLists ==
    ASSUME Order!WholeAssumption, OrderInv, NEW ok \in BOOLEAN, Order!ListOpenOrders(ok)
    PROVE  OrderInv'
<1>1. /\ order.stage = "list" /\ cancels' = (IF ok THEN resting ELSE <<>>)
      /\ UNCHANGED <<account, resting, balances, fetched, market, avail, steady>>
      /\ \/ Order!Proceed("cancel", order.qty) \/ Order!Proceed("settle", order.qty)
  BY DEF Order!ListOpenOrders
<1>2. /\ order.side = "ASK" /\ order.qty = order.asked /\ order.stage # "idle"
      /\ balances' \in Balances /\ avail' \in Nat /\ resting \in Seq(Nat)
      /\ steady' \in BOOLEAN /\ (steady' => steady)
  BY <1>1, SellHas DEF Selling
<1>3. <<>> \in Seq(Nat)
  BY SMT
<1>4. cancels' \in Seq(Nat)
  BY <1>1, <1>2, <1>3
<1>5. CASE Order!Proceed("cancel", order.qty)
  <2>1. "cancel" \in Selling
    BY DEF Selling
  <2> QED BY <1>1, <1>2, <1>4, <1>5, <2>1, OrderSells
<1>6. CASE Order!Proceed("settle", order.qty)
  <2>1. "settle" \in Selling
    BY DEF Selling
  <2> QED BY <1>1, <1>2, <1>4, <1>6, <2>1, OrderSells
<1> QED BY <1>1, <1>5, <1>6

\* One resting sell less.
LEMMA WithoutTyped ==
    ASSUME NEW s \in Seq(Nat), NEW x \in Nat, Order!InSeq(s, x)
    PROVE  Order!Without(s, x) \in Seq(Nat)
<1> DEFINE i == CHOOSE j \in DOMAIN s : s[j] = x
<1>1. i \in DOMAIN s
  BY DEF Order!InSeq
<1>2. Len(s) \in Nat /\ DOMAIN s = 1..Len(s)
  OBVIOUS
<1>3. i \in 1..Len(s) /\ Len(s) - 1 \in Nat
  BY <1>1, <1>2
<1>4. Order!Without(s, x) = [j \in 1..(Len(s) - 1) |-> IF j < i THEN s[j] ELSE s[j + 1]]
  BY DEF Order!Without
<1> HIDE DEF i
<1>5. \A j \in 1..(Len(s) - 1) : (IF j < i THEN s[j] ELSE s[j + 1]) \in Nat
  BY <1>2, <1>3
<1> QED BY <1>3, <1>4, <1>5

LEMMA OrderCancels ==
    ASSUME Order!WholeAssumption, OrderInv, NEW how \in Order!ApiRequest,
          Order!CancelNext(how)
    PROVE  OrderInv'
<1>1. /\ order.stage = "cancel" /\ cancels # <<>> /\ cancels' = Tail(cancels)
      /\ UNCHANGED <<balances, fetched, market, order, avail, steady>>
      /\ \/ /\ Order!InSeq(resting, Head(cancels))
            /\ resting' = Order!Without(resting, Head(cancels))
            /\ account' = [account EXCEPT !.base = @ + Head(cancels)]
         \/ UNCHANGED <<account, resting>>
  BY DEF Order!CancelNext, Order!ApiRequest
<1>2. /\ order.side = "ASK" /\ ~ steady /\ cancels \in Seq(Nat) /\ resting \in Seq(Nat)
      /\ account \in Balances
  BY <1>1, SellHas DEF Selling
<1>3. Head(cancels) \in Nat /\ Tail(cancels) \in Seq(Nat)
  BY <1>1, <1>2
<1>4. account' \in Balances /\ resting' \in Seq(Nat)
  BY <1>1, <1>2, <1>3, WithoutTyped DEF Balances
<1>5. OrderTyped'
  BY <1>1, <1>3, <1>4 DEF OrderInv, OrderTyped
<1>6. SteadyOK'
  BY <1>1, <1>2 DEF SteadyOK
<1> QED
  BY <1>1, <1>5, <1>6 DEF OrderInv, StageOK, ShrunkOK, CoveredOK, LawfulOK,
     Order!NotGutted, Order!ValidQuantity

LEMMA OrderSellReread ==
    ASSUME Order!WholeAssumption, OrderInv, NEW ok \in BOOLEAN, Order!RereadSell(ok)
    PROVE  OrderInv'
<1>1. /\ order.stage = "cancel" /\ Order!Proceed("cancelled", order.qty)
      /\ UNCHANGED <<account, resting, fetched, market, avail, cancels>>
      /\ balances' \in {account, balances} /\ (steady' = steady \/ steady' = (steady /\ ok))
  BY DEF Order!RereadSell, Order!Refreshed, Order!Balances
<1>2. /\ order.side = "ASK" /\ order.qty = order.asked /\ order.stage # "idle"
      /\ balances' \in Balances /\ avail' \in Nat /\ cancels' \in Seq(Nat)
      /\ steady' \in BOOLEAN /\ (steady' => steady)
  BY <1>1, SellHas DEF Selling
<1>3. "cancelled" \in Selling
  BY DEF Selling
<1> QED BY <1>1, <1>2, <1>3, OrderSells

LEMMA OrderAvailableAgain ==
    ASSUME Order!WholeAssumption, OrderInv, Order!AvailableAgain PROVE OrderInv'
<1>1. /\ order.stage = "cancelled" /\ Order!Proceed("settle", order.qty)
      /\ UNCHANGED <<account, resting, balances, fetched, market, cancels, steady>>
      /\ avail' \in {avail, IF balances = Nil THEN Nil ELSE balances.base}
  BY DEF Order!AvailableAgain, Order!Available
<1>2. /\ order.side = "ASK" /\ order.qty = order.asked /\ order.stage # "idle"
      /\ balances \in Balances /\ avail \in Nat /\ cancels \in Seq(Nat)
      /\ steady \in BOOLEAN
  BY <1>1, SellHas DEF Selling
<1>3. balances # Nil /\ balances.base \in Nat
  BY <1>2, OrderConstants DEF Balances
<1>4. avail' \in Nat /\ balances' \in Balances /\ cancels' \in Seq(Nat)
      /\ steady' \in BOOLEAN /\ (steady' => steady)
  BY <1>1, <1>2, <1>3
<1>5. "settle" \in Selling
  BY DEF Selling
<1> QED BY <1>1, <1>2, <1>4, <1>5, OrderSells

LEMMA OrderSettles ==
    ASSUME Order!WholeAssumption, OrderInv, Order!Settle PROVE OrderInv'
<1> DEFINE q == IF order.asked = MAX THEN Order!Buffered(avail)
                ELSE Order!AdjustToBalance(order.asked, avail)
<1>1. /\ order.stage = "settle"
      /\ IF avail <= 0 THEN Order!Refuse ELSE Order!Proceed("valid", q)
      /\ UNCHANGED <<account, resting, balances, fetched, market, avail, cancels, steady>>
  BY DEF Order!Settle
<1>2. /\ order.side = "ASK" /\ order.qty = order.asked /\ order.qty \in Nat \cup {MAX}
      /\ order.stage # "idle" /\ ~ steady /\ avail \in Nat
  BY <1>1, SellHas DEF Selling
<1>3. Whole \in Nat \ {0}
  BY OrderConstants
<1>4. Order!Buffered(avail) \in Nat /\ Order!Buffered(avail) <= avail
  BY <1>2, Rounded
<1>5. ASSUME order.asked \in Nat, order.asked * Whole <= avail * (Whole - 1)
      PROVE  order.asked <= avail
  <2> SUFFICES ASSUME avail < order.asked PROVE FALSE
    BY <1>2, <1>5
  <2>1. (avail + 1) * Whole <= order.asked * Whole
    BY <1>2, <1>3, <1>5, MulMono
  <2>2. (avail + 1) * Whole = avail * (Whole - 1) + avail + Whole
    BY <1>2, <1>3, SMT
  <2>3. avail * (Whole - 1) \in Nat /\ order.asked * Whole \in Nat
    BY <1>2, <1>3, <1>5, SMT
  <2> QED BY <1>2, <1>3, <1>5, <2>1, <2>2, <2>3
<1>6. q \in Nat /\ q <= avail
  BY <1>2, <1>4, <1>5 DEF Order!AdjustToBalance
<1> HIDE DEF q
<1>7. CASE avail <= 0
  <2>1. Order!Refuse
    BY <1>1, <1>7
  <2>2. avail' \in Nat \cup {Nil}
    BY <1>1, <1>2
  <2> QED BY <1>1, <1>2, <2>1, <2>2, OrderRefused
<1>8. CASE ~ (avail <= 0)
  <2>1. Order!Proceed("valid", q) /\ avail' \in Nat \cup {Nil} /\ q <= avail'
    BY <1>1, <1>2, <1>6, <1>8
  <2> QED BY <1>1, <1>2, <1>6, <2>1, OrderValidated
<1> QED BY <1>7, <1>8

LEMMA OrderMeetsMarket ==
    ASSUME Order!WholeAssumption, OrderInv, Order!MarketRules PROVE OrderInv'
<1> DEFINE q == IF order.qty = MAX THEN 0 ELSE Order!RoundDown(order.qty, market.step)
<1>1. /\ order.stage = "valid"
      /\ IF market = Nil THEN Order!Proceed("ready", order.qty)
         ELSE IF order.qty = MAX \/ q <= 0 \/ ~ Order!ValidQuantity(q) THEN Order!Refuse
         ELSE Order!Proceed("ready", q)
      /\ UNCHANGED <<account, resting, balances, fetched, market, avail, cancels, steady>>
  BY DEF Order!MarketRules
<1>2. /\ order.qty \in Nat \cup {MAX} /\ order.asked \in Nat \cup {MAX}
      /\ order.price \in (Nat \ {0}) \cup {Nil} /\ avail \in Nat \cup {Nil}
      /\ market \in RuleBooks
  BY DEF OrderInv, OrderTyped, OrderRec
<1>3. Gut \in Nat \ {0} /\ MAX \notin Nat /\ Nil \notin Nat
  BY OrderConstants
<1>4. CASE market = Nil
  <2>1. Order!Proceed("ready", order.qty)
    BY <1>1, <1>4
  <2>2. OrderTyped'
    BY <1>1, <1>2, <2>1, OrderProceedsTyped DEF OrderInv, OrderTyped
  <2>3. /\ order'.stage = "ready" /\ order'.qty = order.qty /\ order'.side = order.side
        /\ order'.asked = order.asked /\ order'.price = order.price
    BY <2>1, Proceeds DEF OrderInv
  <2>4. SteadyOK'
    BY <1>1, <1>4, <2>3 DEF OrderInv, SteadyOK
  <2>5. CoveredOK'
    BY <1>1, <2>3 DEF OrderInv, CoveredOK
  <2>6. Order!NotGutted'
    BY <1>1, <1>4, <2>3 DEF OrderInv, ShrunkOK, Order!NotGutted
  <2> QED
    BY <1>1, <1>4, <2>2, <2>3, <2>4, <2>5, <2>6 DEF OrderInv, StageOK, ShrunkOK, LawfulOK,
       Paying, Selling
<1>5. CASE market # Nil /\ (order.qty = MAX \/ q <= 0 \/ ~ Order!ValidQuantity(q))
  <2>1. Order!Refuse
    BY <1>1, <1>5
  <2> QED BY <1>1, <1>2, <2>1, OrderRefused
<1>6. CASE /\ market # Nil /\ order.qty # MAX
           /\ ~ (q <= 0) /\ Order!ValidQuantity(q)
  <2>1. Order!Proceed("ready", q) /\ q = Order!RoundDown(order.qty, market.step)
    BY <1>1, <1>6
  <2>2. order.qty \in Nat /\ market.step \in Nat \ {0}
    BY <1>2, <1>6, OrderConstants
  <2>3. q \in Nat /\ q <= order.qty /\ order.qty < q + market.step
    BY <2>1, <2>2, Rounded
  <2>4. ~ (q <= 0) /\ Order!ValidQuantity(q)
    BY <1>6
  <2> HIDE DEF q
  <2>5. OrderTyped'
    BY <1>1, <1>2, <2>1, <2>3, OrderProceedsTyped DEF OrderInv, OrderTyped
  <2>6. /\ order'.stage = "ready" /\ order'.qty = q /\ order'.side = order.side
        /\ order'.asked = order.asked /\ order'.price = order.price
    BY <2>1, Proceeds DEF OrderInv
  <2>7. SteadyOK'
    BY <1>1, <1>6, <2>1, <2>6 DEF OrderInv, SteadyOK
  <2>8. CoveredOK'
    <3>1. ASSUME order.side = "BID", order.price # Nil, avail # Nil
          PROVE  q * order.price <= avail
      <4>1. order.qty * order.price <= avail /\ order.price \in Nat /\ avail \in Nat
        BY <1>1, <1>2, <3>1 DEF OrderInv, CoveredOK
      <4>2. q * order.price \in Nat /\ q * order.price <= order.qty * order.price
        BY <2>2, <2>3, <4>1, MulMono
      <4>3. order.qty * order.price \in Nat
        BY <2>2, <4>1, SMT
      <4> QED BY <4>1, <4>2, <4>3
    <3>2. ASSUME order.side = "ASK", avail # Nil PROVE q <= avail
      BY <1>1, <1>2, <2>2, <2>3, <3>2 DEF OrderInv, CoveredOK
    <3> QED BY <1>1, <2>3, <2>6, <3>1, <3>2 DEF CoveredOK
  <2>9. Order!NotGutted'
    <3> SUFFICES ASSUME order.side = "BID", order.asked # MAX
                 PROVE  q <= order.asked /\ (q + market.step) * Gut > order.asked
      BY <1>1, <2>6 DEF Order!NotGutted
    <3>1. order.qty <= order.asked /\ order.qty * Gut >= order.asked /\ order.asked \in Nat
      BY <1>1, <1>2 DEF OrderInv, ShrunkOK
    <3>2. (order.qty + 1) * Gut <= (q + market.step) * Gut
      BY <1>3, <2>2, <2>3, MulMono
    <3>3. (order.qty + 1) * Gut = order.qty * Gut + Gut
      BY <1>3, <2>2, SMT
    <3>4. order.qty * Gut \in Nat /\ (q + market.step) * Gut \in Nat
      BY <1>3, <2>2, <2>3, SMT
    <3> QED BY <1>3, <2>2, <2>3, <3>1, <3>2, <3>3, <3>4
  <2>10. LawfulOK'
    BY <1>1, <2>3, <2>4, <2>6 DEF LawfulOK, Order!ValidQuantity
  <2> QED
    BY <2>5, <2>6, <2>7, <2>8, <2>9, <2>10 DEF OrderInv, StageOK, ShrunkOK, Paying, Selling
<1> QED BY <1>4, <1>5, <1>6

LEMMA OrderSteps ==
    ASSUME Order!WholeAssumption, OrderInv, Order!Next PROVE OrderInv'
<1>1. CASE \E side \in Order!Sides, asked \in Amounts \cup {MAX},
      price \in OrderPrices \cup {Nil} :
              Order!Ask(side, asked, price)
  BY <1>1, OrderAsked
<1>2. CASE Order!ValidateBuy \/ Order!ValidateSell \/ Order!Shrink
  BY <1>2, OrderBuyValidated, OrderSellValidated, OrderShrinks
<1>3. CASE \E ok \in BOOLEAN :
              Order!Reread(ok) \/ Order!ListOpenOrders(ok) \/ Order!RereadSell(ok)
  BY <1>3, OrderReread, OrderLists, OrderSellReread
<1>4. CASE \E how \in Order!ApiRequest : Order!CancelNext(how)
  BY <1>4, OrderCancels
<1>5. CASE Order!AvailableAgain \/ Order!Settle \/ Order!MarketRules \/ Order!Rejected
  BY <1>5, OrderAvailableAgain, OrderSettles, OrderMeetsMarket, OrderRejected
<1>6. CASE \E executed \in 0..Purse, ok \in BOOLEAN : Order!Execute(executed, ok)
  BY <1>6, OrderExecuted
<1>7. CASE Order!Fetch \/ Order!Install \/ Order!RestFills
  BY <1>7, OrderFetches, OrderInstalls, OrderRestFills
<1>8. CASE \E asset \in {"base", "quote"}, amount \in {-2, 3} :
         Order!Elsewhere(asset, amount)
  BY <1>8, OrderElsewhere
<1> QED
  BY <1>1, <1>2, <1>3, <1>4, <1>5, <1>6, <1>7, <1>8 DEF Order!Next

LEMMA OrderKept == ASSUME OrderInv, UNCHANGED Order!vars PROVE OrderInv'
  BY DEF Order!vars, OrderInv, OrderTyped, StageOK, SteadyOK, ShrunkOK, CoveredOK, LawfulOK,
     Order!NotGutted, Order!ValidQuantity

LEMMA OrderInvGivesRight ==
    ASSUME OrderInv
    PROVE  Order!WholeIfAffordable /\ Order!NotGutted /\ Order!SentLawful
<1>1. Order!WholeIfAffordable
  BY DEF OrderInv, SteadyOK, Order!WholeIfAffordable
<1>2. Order!SentLawful
  BY DEF OrderInv, LawfulOK, CoveredOK, Order!SentLawful
<1> QED BY <1>1, <1>2 DEF OrderInv

(* Every order that goes to the exchange is what the validation promises:     *)
(* whole when the account could pay for it all along, not gutted when it was  *)
(* shrunk, lawful for its market and covered by the balance last read         *)
(* (_validate_buy_order, _validate_sell_order, _validate_market_rules).       *)
THEOREM OrdersRightAlways ==
    ASSUME Order!WholeAssumption PROVE EverySpec => []OrdersRight
<1> DEFINE Inv == part = "order" => OrderInv
<1>1. EveryInit => Inv
  BY OrderInit DEF EveryInit
<1>2. Inv /\ [EveryNext]_allVars => Inv'
  <2> SUFFICES ASSUME Inv, [EveryNext]_allVars, part' = "order" PROVE OrderInv'
    OBVIOUS
  <2>1. part = "order" /\ [Order!Next]_Order!vars
    BY PartsApart
  <2> QED BY <2>1, OrderSteps, OrderKept
<1>3. Inv => OrdersRight
  BY OrderInvGivesRight DEF OrdersRight
<1> QED BY <1>1, <1>2, <1>3, PTL DEF EverySpec

-----------------------------------------------------------------------------
(* The outcome of a signal.                                                *)

LEMMA LeastExists ==
    ASSUME NEW S \in SUBSET Nat, S # {}
    PROVE  \E n \in S : \A y \in S : n <= y
<1> DEFINE Less == OpToRel(<, Nat)
<1>1. \A m, n \in Nat : m < n => <<m, n>> \in Less
  BY DEF OpToRel
<1>2. IsWellFoundedOn(Less, Nat)
  BY NatLessThanWellFounded
<1> HIDE DEF Less
<1>3. PICK n \in S : \A m \in S : ~(<<m, n>> \in Less)
  BY <1>2, WFMin
<1>4. ASSUME NEW m \in S PROVE n <= m
  <2>1. m \in Nat /\ n \in Nat
    OBVIOUS
  <2>2. ~ (m < n)
    BY <1>1, <1>3, <2>1
  <2> QED BY <2>1, <2>2
<1> QED BY <1>3, <1>4

LEMMA LeastOf ==
    ASSUME NEW S \in SUBSET Nat, S # {}
    PROVE  Outcome!Min(S) \in S /\ \A y \in S : Outcome!Min(S) <= y
  BY LeastExists DEF Outcome!Min

Target(long) == IF long THEN {"up", "both_up", "both_even"}
                ELSE {"down", "both_down", "both_even"}

\* The first candle after the signal's that reached a level reached the one
\* that result names.
Hit(result, long, moment) ==
    \E i \in DOMAIN feed :
        /\ i > moment /\ feed[i] # "none"
        /\ \A j \in DOMAIN feed : j > moment /\ j < i => feed[j] = "none"
        /\ (result = "WIN") <=> feed[i] \in Target(long)

\* What the resolver wrote, and what it is about to write, was reached first.
OutcomeInv ==
    /\ feed \in Seq(Outcome!Candles)
    /\ logged \in [Signals -> {Nil} \cup Outcome!Row]
    /\ \A s \in Signals :
          logged[s] # Nil /\ logged[s].by = "tool"
             /\ logged[s].result \in {"WIN", "LOSS"} =>
              Hit(logged[s].result, logged[s].long, logged[s].at)
    /\ tool # Nil =>
          \A s \in DOMAIN tool :
              /\ s \in Signals /\ logged[s] # Nil /\ tool[s] \in Outcome!Results
              /\ tool[s] \in {"WIN", "LOSS"} => Hit(tool[s], logged[s].long, logged[s].at)

\* simulate_outcome looks only so far ahead, but what it finds is the first.
LEMMA SimulatedHits ==
    ASSUME Outcome!OutcomeAssumption, feed \in Seq(Outcome!Candles),
           NEW long \in BOOLEAN, NEW moment \in Nat
    PROVE  LET r == Outcome!simulate_outcome(long, moment)
           IN  r \in {"WIN", "LOSS", "MISSED"} /\ (r # "MISSED" => Hit(r, long, moment))
<1> DEFINE W == Outcome!Window(moment)
           hits == {i \in W : feed[i] # "none"}
           k == Outcome!Min(hits)
           r == Outcome!simulate_outcome(long, moment)
<1>1. Len(feed) \in Nat /\ DOMAIN feed = 1..Len(feed) /\ Forward \in Nat
  BY DEF Outcome!OutcomeAssumption
<1>2. W = {i \in DOMAIN feed : i > moment /\ i <= moment + Forward}
  BY DEF Outcome!Window
<1>3. r = IF hits = {} THEN "MISSED"
          ELSE IF (Outcome!Reached(feed[k], long) = "up") = long THEN "WIN" ELSE "LOSS"
  BY DEF Outcome!simulate_outcome
<1> HIDE DEF r, W
<1> SUFFICES ASSUME hits # {} PROVE r \in {"WIN", "LOSS"} /\ Hit(r, long, moment)
  BY <1>3 DEF r
<1>4. hits \in SUBSET Nat
  BY <1>1, <1>2
<1>5. k \in hits /\ \A y \in hits : k <= y
  BY <1>4, LeastOf
<1> HIDE DEF k, hits
<1>6. k \in DOMAIN feed /\ k \in Nat /\ k > moment /\ k <= moment + Forward /\ feed[k] # "none"
  BY <1>1, <1>2, <1>5 DEF hits
<1>7. ASSUME NEW j \in DOMAIN feed, j > moment, j < k PROVE feed[j] = "none"
  <2>1. j \in Nat /\ j <= moment + Forward /\ ~ (k <= j)
    BY <1>1, <1>6, <1>7
  <2>2. j \in W
    BY <1>2, <1>7, <2>1
  <2> QED BY <1>5, <2>1, <2>2 DEF hits
<1>8. feed[k] \in {"up", "down", "both_up", "both_down", "both_even"}
  BY <1>6 DEF Outcome!Candles
<1>9. (r = "WIN") <=> feed[k] \in Target(long)
  BY <1>3, <1>8 DEF Outcome!Reached, Target
<1> QED BY <1>3, <1>6, <1>7, <1>9 DEF Hit

\* Candles that come later change nothing.
LEMMA HitStays ==
    ASSUME feed \in Seq(Outcome!Candles), NEW c \in Outcome!Candles,
           feed' = Append(feed, c),
           NEW result, NEW long, NEW moment \in Nat, Hit(result, long, moment)
    PROVE  Hit(result, long, moment)'
<1>1. /\ Len(feed) \in Nat /\ DOMAIN feed = 1..Len(feed) /\ DOMAIN feed' = 1..(Len(feed) + 1)
      /\ \A i \in 1..Len(feed) : feed'[i] = feed[i]
  OBVIOUS
<1>2. PICK i \in DOMAIN feed :
          /\ i > moment /\ feed[i] # "none"
          /\ \A j \in DOMAIN feed : j > moment /\ j < i => feed[j] = "none"
          /\ (result = "WIN") <=> feed[i] \in Target(long)
  BY DEF Hit
<1>3. i \in DOMAIN feed' /\ feed'[i] = feed[i]
  BY <1>1, <1>2
<1>4. \A j \in DOMAIN feed' : j > moment /\ j < i => feed'[j] = "none"
  BY <1>1, <1>2
<1> QED BY <1>2, <1>3, <1>4 DEF Hit, Target

LEMMA OutcomeInit == Outcome!Init => OutcomeInv
  BY DEF Outcome!Init, OutcomeInv

\* A row that is not the resolver's may change as it likes, if it keeps what
\* the signal was.
LEMMA OutcomeOther ==
    ASSUME OutcomeInv, UNCHANGED <<feed, tool>>,
          logged' \in [Signals -> {Nil} \cup Outcome!Row],
           \A s \in Signals :
              \/ logged'[s] = logged[s]
              \/ /\ logged'[s].by # "tool"
                 /\ logged[s] # Nil => /\ logged'[s] # Nil /\ logged'[s].at = logged[s].at
                                       /\ logged'[s].long = logged[s].long
    PROVE  OutcomeInv'
  BY DEF OutcomeInv, Hit, Target

LEMMA OutcomeSteps ==
    ASSUME Outcome!OutcomeAssumption, OutcomeInv, Outcome!Next PROVE OutcomeInv'
<1>0. Nil # "tool" /\ Nil \notin Outcome!Row
  BY DEF Outcome!OutcomeAssumption, Outcome!Writers
<1>1. ASSUME NEW c \in Outcome!Candles, Outcome!Candle(c) PROVE OutcomeInv'
  <2>1. feed' = Append(feed, c) /\ UNCHANGED <<logged, tool>>
    BY <1>1 DEF Outcome!Candle
  <2>2. feed' \in Seq(Outcome!Candles)
    BY <2>1 DEF OutcomeInv
  <2>3. ASSUME NEW s \in Signals, logged[s] # Nil PROVE logged[s].at \in Nat
    BY <2>3 DEF OutcomeInv, Outcome!Row
  <2> QED
    BY <2>1, <2>2, <2>3, HitStays DEF OutcomeInv
<1>2. ASSUME NEW s \in Signals, NEW long \in BOOLEAN, NEW d \in {"ENTER", "SKIP"},
             Outcome!Log(s, long, d)
      PROVE  OutcomeInv'
  <2>1. /\ logged[s] = Nil /\ UNCHANGED <<feed, tool>>
        /\ logged' = [logged EXCEPT ![s] = [at |-> Len(feed), long |-> long, decision |-> d,
                                            result |-> Nil, by |-> Nil]]
    BY <1>2 DEF Outcome!Log, Outcome!Logged
  <2>2. Len(feed) \in Nat
    BY DEF OutcomeInv
  <2>3. [at |-> Len(feed), long |-> long, decision |-> d, result |-> Nil,
        by |-> Nil] \in Outcome!Row
    BY <2>2 DEF Outcome!Row, Outcome!Writers
  <2>4. logged' \in [Signals -> {Nil} \cup Outcome!Row]
    BY <2>1, <2>3 DEF OutcomeInv
  <2> QED BY <1>0, <2>1, <2>4, OutcomeOther DEF OutcomeInv
<1>3. ASSUME NEW s \in Signals, Outcome!Enter(s) PROVE OutcomeInv'
  BY <1>3, OutcomeOther DEF Outcome!Enter, OutcomeInv
<1>4. ASSUME NEW s \in Signals, NEW exit \in {"above", "below", "even"},
              Outcome!Close(s, exit)
      PROVE  OutcomeInv'
  <2> DEFINE res == Outcome!Classified(exit)
  <2>1. /\ UNCHANGED <<feed, tool>>
        /\ \/ UNCHANGED logged
           \/ /\ logged[s] # Nil
              /\ logged' = [logged EXCEPT ![s].result = res, ![s].by = "close"]
    BY <1>4 DEF Outcome!Close, Outcome!Unresolved, Outcome!Resolve
  <2>2. res \in Outcome!Results
    BY DEF Outcome!Classified, Outcome!Results
  <2> HIDE DEF res
  <2>3. CASE UNCHANGED logged
    BY <2>1, <2>3, OutcomeOther DEF OutcomeInv
  <2>4. CASE logged[s] # Nil /\ logged' = [logged EXCEPT ![s].result = res,
        ![s].by = "close"]
    <3>1. logged[s] \in Outcome!Row
      BY <2>4 DEF OutcomeInv
    <3>2. logged'[s] = [logged[s] EXCEPT !.result = res, !.by = "close"]
      BY <2>4 DEF OutcomeInv
    <3>3. logged'[s] \in Outcome!Row /\ logged'[s].by = "close" /\ logged'[s].at = logged[s].at
          /\ logged'[s].long = logged[s].long
      BY <2>2, <3>1, <3>2 DEF Outcome!Row, Outcome!Writers
    <3>4. logged' \in [Signals -> {Nil} \cup Outcome!Row] /\ \A t \in Signals \ {s} : logged'[t] = logged[t]
      BY <2>4, <3>3 DEF OutcomeInv
    <3> QED BY <1>0, <2>1, <3>3, <3>4, OutcomeOther
  <2> QED BY <2>1, <2>3, <2>4
<1>5. ASSUME Outcome!ToolReads PROVE OutcomeInv'
  <2> DEFINE Open == {t \in Signals : Outcome!Unresolved(t) /\
                                      position[t] \notin {"linked", "closed_linked"}}
  <2>1. /\ UNCHANGED <<feed, logged>>
        /\ tool' = [s \in Open |-> Outcome!simulate_outcome(logged[s].long, logged[s].at)]
    BY <1>5 DEF Outcome!ToolReads
  <2>2. ASSUME NEW s \in Open
        PROVE  /\ s \in Signals /\ logged[s] # Nil /\ logged[s].long \in BOOLEAN
               /\ logged[s].at \in Nat
    BY DEF OutcomeInv, Outcome!Row, Outcome!Unresolved
  <2> HIDE DEF Open
  <2>3. ASSUME NEW s \in DOMAIN tool'
        PROVE  /\ s \in Signals /\ logged[s] # Nil /\ tool'[s] \in Outcome!Results
               /\ tool'[s] \in {"WIN", "LOSS"} => Hit(tool'[s], logged[s].long,
                     logged[s].at)
    <3>1. s \in Open /\ tool'[s] = Outcome!simulate_outcome(logged[s].long, logged[s].at)
      BY <2>1
    <3>2. feed \in Seq(Outcome!Candles)
      BY DEF OutcomeInv
    <3>3. /\ tool'[s] \in {"WIN", "LOSS", "MISSED"}
          /\ tool'[s] # "MISSED" => Hit(tool'[s], logged[s].long, logged[s].at)
      BY <2>2, <3>1, <3>2, SimulatedHits
    <3> QED BY <2>2, <3>1, <3>3 DEF Outcome!Results
  <2> QED BY <2>1, <2>3 DEF OutcomeInv, Hit, Target
<1>6. ASSUME Outcome!ToolCommits PROVE OutcomeInv'
  <2>1. /\ tool # Nil /\ tool' = Nil /\ UNCHANGED feed
        /\ \/ logged' = [s \in Signals |-> IF s \in DOMAIN tool
                                           THEN [logged[s] EXCEPT !.result = tool[s],
                                                 !.by = "tool"]
                                           ELSE logged[s]]
           \/ UNCHANGED logged
    BY <1>6 DEF Outcome!ToolCommits
  <2>2. CASE UNCHANGED logged
    BY <2>1, <2>2 DEF OutcomeInv, Hit, Target
  <2>3. CASE logged' = [s \in Signals |-> IF s \in DOMAIN tool
                                          THEN [logged[s] EXCEPT !.result = tool[s],
                                                !.by = "tool"]
                                          ELSE logged[s]]
    <3>1. ASSUME NEW s \in Signals, s \in DOMAIN tool
          PROVE  /\ logged'[s] \in Outcome!Row /\ logged'[s].at = logged[s].at
                 /\ logged'[s].long = logged[s].long /\ logged'[s].result = tool[s]
                 /\ tool[s] \in {"WIN", "LOSS"} => Hit(tool[s], logged[s].long,
                       logged[s].at)
      <4>1. logged[s] \in Outcome!Row /\ tool[s] \in Outcome!Results
        BY <2>1, <3>1 DEF OutcomeInv
      <4>2. logged'[s] = [logged[s] EXCEPT !.result = tool[s], !.by = "tool"]
        BY <2>3, <3>1
      <4>3. tool[s] \in {"WIN", "LOSS"} => Hit(tool[s], logged[s].long, logged[s].at)
        BY <2>1, <3>1 DEF OutcomeInv
      <4> QED BY <4>1, <4>2, <4>3 DEF Outcome!Row, Outcome!Writers
    <3>2. \A s \in Signals : s \notin DOMAIN tool => logged'[s] = logged[s]
      BY <2>3
    <3>3. logged' \in [Signals -> {Nil} \cup Outcome!Row]
      BY <2>3, <3>1, <3>2 DEF OutcomeInv
    <3>4. ASSUME NEW s \in Signals, logged'[s] # Nil, logged'[s].by = "tool",
                 logged'[s].result \in {"WIN", "LOSS"}
          PROVE  Hit(logged'[s].result, logged'[s].long, logged'[s].at)
      <4>1. CASE s \in DOMAIN tool
        BY <3>1, <3>4, <4>1
      <4>2. CASE s \notin DOMAIN tool
        BY <3>2, <3>4, <4>2 DEF OutcomeInv
      <4> QED BY <4>1, <4>2
    <3>5. ASSUME NEW s \in Signals, logged'[s] # Nil, logged'[s].by = "tool",
                 logged'[s].result \in {"WIN", "LOSS"}
          PROVE  Hit(logged[s].result, logged[s].long, logged[s].at)'
      BY <2>1, <3>4, <3>5 DEF Hit, Target
    <3> QED BY <2>1, <3>3, <3>5 DEF OutcomeInv
  <2> QED BY <2>1, <2>2, <2>3
<1>7. ASSUME Outcome!EndpointResolves PROVE OutcomeInv'
  <2>1. PICK found \in [Signals -> {"WIN", "LOSS", Nil}] :
            /\ \A s \in Signals : found[s] # Nil => logged[s] # Nil
            /\ logged' = [s \in Signals |-> IF found[s] = Nil THEN logged[s]
                            ELSE [logged[s] EXCEPT !.result = found[s], !.by = "endpoint"]]
    BY <1>7 DEF Outcome!EndpointResolves, Outcome!Unresolved
  <2>2. UNCHANGED <<feed, tool>>
    BY <1>7 DEF Outcome!EndpointResolves
  <2>3. ASSUME NEW s \in Signals, found[s] # Nil
        PROVE  /\ logged'[s] \in Outcome!Row /\ logged'[s].by = "endpoint"
               /\ logged'[s].at = logged[s].at /\ logged'[s].long = logged[s].long
    <3>1. logged[s] \in Outcome!Row /\ found[s] \in {"WIN", "LOSS"}
      BY <2>1, <2>3 DEF OutcomeInv
    <3>2. logged'[s] = [logged[s] EXCEPT !.result = found[s], !.by = "endpoint"]
      BY <2>1, <2>3
    <3> QED BY <3>1, <3>2 DEF Outcome!Row, Outcome!Writers, Outcome!Results
  <2>4. \A s \in Signals : found[s] = Nil => logged'[s] = logged[s]
    BY <2>1
  <2>5. logged' \in [Signals -> {Nil} \cup Outcome!Row]
    BY <2>1, <2>3, <2>4 DEF OutcomeInv
  <2>6. ASSUME NEW s \in Signals
        PROVE  \/ logged'[s] = logged[s]
               \/ /\ logged'[s].by # "tool"
                  /\ logged[s] # Nil => /\ logged'[s] # Nil /\ logged'[s].at = logged[s].at
                                        /\ logged'[s].long = logged[s].long
    BY <1>0, <2>3, <2>4
  <2> QED BY <2>2, <2>5, <2>6, OutcomeOther
<1> QED
  BY <1>1, <1>2, <1>3, <1>4, <1>5, <1>6, <1>7 DEF Outcome!Next

(* A win or a loss that the resolver wrote is the level the candles after the *)
(* signal reached first, whatever came before its run or after it             *)
(* (simulate_outcome, resolve_ai_outcomes, trigger_outcome_resolution).       *)
THEOREM FirstTouchAlways ==
    ASSUME Outcome!OutcomeAssumption PROVE EverySpec => []FirstTouch
<1> DEFINE Inv == part = "outcome" => OutcomeInv
<1>1. EveryInit => Inv
  BY OutcomeInit DEF EveryInit
<1>2. Inv /\ [EveryNext]_allVars => Inv'
  <2> SUFFICES ASSUME Inv, [EveryNext]_allVars, part' = "outcome" PROVE OutcomeInv'
    OBVIOUS
  <2>1. part = "outcome" /\ [Outcome!Next]_Outcome!vars
    BY PartsApart
  <2>2. CASE UNCHANGED Outcome!vars
    BY <2>1, <2>2 DEF Outcome!vars, OutcomeInv, Hit, Target
  <2> QED BY <2>1, <2>2, OutcomeSteps
<1>3. Inv => FirstTouch
  <2> SUFFICES ASSUME OutcomeInv PROVE Outcome!FirstTouch
    BY DEF FirstTouch
  <2> QED BY DEF OutcomeInv, Hit, Target, Outcome!FirstTouch
<1> QED BY <1>1, <1>2, <1>3, PTL DEF EverySpec

-----------------------------------------------------------------------------
(* The confidence of a signal.                                             *)

\* The greatest of some numbers up to a bound, and the least of two.
LEMMA GreatestOf ==
    ASSUME NEW N \in Nat, NEW S \in SUBSET (0..N), S # {}
    PROVE  Score!Max(S) \in S /\ \A y \in S : Score!Max(S) >= y
<1> DEFINE U == {n \in Nat : \A y \in S : y <= n}
<1>1. N \in U
  OBVIOUS
<1>2. PICK n \in U : \A m \in U : n <= m
  <2> HIDE DEF U
  <2>1. U \in SUBSET Nat /\ U # {}
    BY <1>1 DEF U
  <2> QED BY <2>1, LeastExists
<1>3. n \in Nat /\ \A y \in S : y \in Nat /\ y <= n
  BY <1>2
<1>4. ASSUME n \notin S PROVE FALSE
  <2>1. PICK z \in S : TRUE
    OBVIOUS
  <2>2. n > 0 /\ n - 1 \in Nat
    BY <1>3, <1>4, <2>1
  <2>3. \A y \in S : y <= n - 1
    BY <1>3, <1>4
  <2>4. n - 1 \in U
    BY <2>2, <2>3
  <2> QED BY <1>2, <1>3, <2>2, <2>4
<1>5. n \in S /\ \A y \in S : n >= y
  BY <1>3, <1>4
<1> QED BY <1>5 DEF Score!Max

LEMMA OfTwo ==
    ASSUME NEW a \in Int, NEW b \in Int
    PROVE  /\ Score!Min({a, b}) = IF a <= b THEN a ELSE b
           /\ Score!Max({a, b}) = IF a <= b THEN b ELSE a
<1>1. \A y \in {a, b} : (IF a <= b THEN a ELSE b) <= y
  OBVIOUS
<1>2. Score!Min({a, b}) \in {a, b} /\ \A y \in {a, b} : Score!Min({a, b}) <= y
  BY <1>1 DEF Score!Min
<1>3. \A y \in {a, b} : (IF a <= b THEN b ELSE a) >= y
  OBVIOUS
<1>4. Score!Max({a, b}) \in {a, b} /\ \A y \in {a, b} : Score!Max({a, b}) >= y
  BY <1>3 DEF Score!Max
<1> QED BY <1>2, <1>4

\* A table gives points, not a debt.
LEMMA TableGives ==
    ASSUME NEW x, NEW points, \A r \in points : r[2] \in 0..300
    PROVE  Score!Below(x, points) \in Nat /\ Score!AtLeast(x, points) \in Nat
<1> DEFINE B == {0} \cup {r[2] : r \in {q \in points : x < q[1]}}
           A == {0} \cup {r[2] : r \in {q \in points : x >= q[1]}}
<1>1. 300 \in Nat /\ 0 \in 0..300
  OBVIOUS
<1>2. B \in SUBSET (0..300) /\ B # {} /\ A \in SUBSET (0..300) /\ A # {}
  <2>1. \A r \in points : r[2] \in 0..300
    OBVIOUS
  <2>2. \A z \in A \cup B : z \in 0..300
    BY <1>1, <2>1
  <2>3. 0 \in A /\ 0 \in B
    OBVIOUS
  <2> HIDE DEF A, B
  <2> QED BY <2>2, <2>3
<1>3. Score!Below(x, points) = Score!Max(B) /\ Score!AtLeast(x, points) = Score!Max(A)
  BY DEF Score!Below, Score!AtLeast
<1> HIDE DEF A, B
<1>4. Score!Max(A) \in A /\ Score!Max(B) \in B
  BY <1>1, <1>2, GreatestOf
<1>5. \A n \in A \cup B : n \in Nat
  BY <1>2
<1> QED BY <1>3, <1>4, <1>5

LEMMA DivMono ==
    ASSUME NEW a \in Nat, NEW b \in Nat, a <= b, NEW p \in Nat \ {0}
    PROVE  a \div p \in Nat /\ b \div p \in Nat /\ a \div p <= b \div p
<1> DEFINE c == a \div p
           d == b \div p
<1>1. c \in Nat /\ c * p <= a /\ d \in Nat /\ b < d * p + p
  BY DivIs
<1> HIDE DEF c, d
<1>2. ASSUME d < c PROVE FALSE
  <2>1. (d + 1) * p <= c * p
    BY <1>1, <1>2, MulMono
  <2>2. (d + 1) * p = d * p + p /\ d * p \in Nat /\ c * p \in Nat
    BY <1>1, SMT
  <2> QED BY <1>1, <2>1, <2>2
<1> QED BY <1>1, <1>2 DEF c, d

\* The points of VWAP, which only a caller with a price adds, lower no bonus.
LEMMA PriceAddsPoints ==
    ASSUME NEW e
    PROVE  /\ Score!ReversionBonus(e, FALSE) \in Nat
           /\ Score!ReversionBonus(e, TRUE) \in Nat
           /\ Score!ReversionBonus(e, FALSE) <= Score!ReversionBonus(e, TRUE)
<1> DEFINE vwap == Score!Below(e.gapVwap,
                     {<<-400, 50>>, <<-250, 40>>, <<-150, 30>>, <<-50, 15>>})
           low == IF e.low = Nil THEN e.rsi ELSE e.low
           depth == Score!Below(low, Score!DipDepth)
           turn == CASE e.low # Nil -> Score!AtLeast(e.rsi - e.low, Score!Recovery)
                     [] e.low = Nil /\ e.direction = "increasing" ->
                            Score!AtLeast(e.momentum, Score!Turning)
                     [] OTHER -> 0
           volume == IF e.volume = Nil THEN 0
                     ELSE Score!AtLeast(e.volume,
                                         {<<20, 80>>, <<15, 60>>, <<10, 40>>, <<7, 20>>})
           ema == Score!Below(e.gapEma20,
                                {<<-500, 40>>, <<-300, 30>>, <<-200, 20>>, <<-100, 10>>})
<1>1. vwap \in Nat
  BY TableGives
<1>2. depth \in Nat
  BY TableGives DEF Score!DipDepth
<1>3. turn \in Nat
  <2>1. \A x : Score!AtLeast(x, Score!Recovery) \in Nat /\ Score!AtLeast(x,
        Score!Turning) \in Nat
    BY TableGives DEF Score!Recovery, Score!Turning
  <2> QED BY <2>1
<1>4. volume \in Nat
  <2>1. Score!AtLeast(e.volume, {<<20, 80>>, <<15, 60>>, <<10, 40>>, <<7, 20>>}) \in Nat
    BY TableGives
  <2> QED BY <2>1
<1>5. ema \in Nat
  BY TableGives
<1>6. /\ Score!ReversionBonus(e, FALSE) = Score!Min({300, depth + volume + 0 + ema + turn})
      /\ Score!ReversionBonus(e, TRUE) = Score!Min({300,
            depth + volume + vwap + ema + turn})
  BY DEF Score!ReversionBonus
<1> HIDE DEF vwap, depth, turn, volume, ema
<1> DEFINE u == depth + volume + 0 + ema + turn
           w == depth + volume + vwap + ema + turn
<1>7. u \in Nat /\ w \in Nat /\ u <= w /\ 300 \in Nat
  BY <1>1, <1>2, <1>3, <1>4, <1>5
<1>8. /\ Score!ReversionBonus(e, FALSE) = Score!Min({300, u})
      /\ Score!ReversionBonus(e, TRUE) = Score!Min({300, w})
  BY <1>6
<1> HIDE DEF u, w
<1>9. /\ Score!Min({300, u}) = IF 300 <= u THEN 300 ELSE u
      /\ Score!Min({300, w}) = IF 300 <= w THEN 300 ELSE w
  <2>1. u \in Int /\ w \in Int /\ 300 \in Int
    BY <1>7
  <2> QED BY <2>1, OfTwo
<1>10. /\ Score!Min({300, u}) \in Nat /\ Score!Min({300, w}) \in Nat
       /\ Score!Min({300, u}) <= Score!Min({300, w})
  BY <1>7, <1>9
<1> QED BY <1>8, <1>10, Zenon

\* What the confidence is, strategy by strategy.
LEMMA ConfidenceBlind ==
    ASSUME NEW s, NEW p, NEW m, NEW base, NEW v, NEW priced, s \in Score!Reversion,
          m.e = Nil
    PROVE  Score!Confidence(s, p, m, base, v, priced) = Score!Percent(base,
          Score!MaxConfidence(p))
<1>1. s # "range"
  BY DEF Score!Reversion
<1> QED BY <1>1 DEF Score!Confidence

LEMMA ConfidenceReversion ==
    ASSUME NEW s, NEW p, NEW m, NEW base, NEW v, NEW priced, s \in Score!Reversion,
          m.e # Nil
    PROVE  Score!Confidence(s, p, m, base, v, priced)
               = Score!Percent(base + Score!ReversionBonus(m.e, priced),
                               Score!MaxConfidence(p) + 300)
<1>1. s # "range"
  BY DEF Score!Reversion
<1> QED BY <1>1 DEF Score!Confidence

LEMMA ConfidenceRange ==
    ASSUME NEW s, NEW p, NEW m, NEW base, NEW v, NEW priced, s = "range"
    PROVE  Score!Confidence(s, p, m, base, v, priced)
               = Score!Percent(base + Score!RangeBonus(m.h, m.e, v),
                     Score!MaxConfidence(p) + 200)
<1>1. s \notin Score!Reversion
  BY DEF Score!Reversion
<1> QED BY <1>1 DEF Score!Confidence

LEMMA ConfidenceTrend ==
    ASSUME NEW s, NEW p, NEW m, NEW base, NEW v, NEW priced, 
           s \notin Score!Reversion, s # "range"
    PROVE  Score!Confidence(s, p, m, base, v, priced)
               = IF Score!BandPenalty(m.e.pctB) = 0
                 THEN Score!Percent(base, Score!MaxConfidence(p))
                 ELSE Score!Max({0, Score!Percent(base, Score!MaxConfidence(p))
                                        - Score!BandPenalty(m.e.pctB)})
  BY DEF Score!Confidence

\* Every confidence is a number, whatever the market.
LEMMA ConfidenceIsNumber ==
    ASSUME NEW s, NEW p, NEW m, NEW base \in Int, NEW v, NEW priced,
           Score!ReversionBonus(m.e, priced) \in Nat
    PROVE  Score!Confidence(s, p, m, base, v, priced) \in Int
<1>1. Score!MaxConfidence(p) \in Nat \ {0}
  BY DEF Score!MaxConfidence, Score!TrendWeight, Score!EntryWeight, Score!VolumeWeight,
     Score!SafetyWeight
<1>2. ASSUME NEW points \in Int, NEW most \in Nat \ {0}
      PROVE Score!Percent(points, most) \in Int
  <2>1. points * 1000 \in Int
    BY SMT
  <2> DEFINE n == points * 1000
  <2> HIDE DEF n
  <2>2. n \div most \in Int
    BY <2>1, SMT DEF n
  <2> QED BY <2>2 DEF Score!Percent, n
<1>3. Score!ReversionBonus(m.e, priced) \in Int
  OBVIOUS
<1>4. Score!RangeBonus(m.h, m.e, v) \in Int
  <2> DEFINE chop == IF v = "CHOPPY" THEN 50 ELSE 0
             flat == IF m.h = Nil THEN 0
                     ELSE Score!Below(Score!Abs(m.h.spread),
                                      {<<10, 50>>, <<25, 40>>, <<50, 25>>, <<80, 10>>})
             turn == CASE m.e.direction = "increasing" ->
                              Score!AtLeast(2 * m.e.momentum,
                                        {<<6, 50>>, <<4, 40>>, <<2, 30>>, <<1, 15>>})
                       [] m.e.direction = "stable" -> 10
                       [] OTHER -> 0
             vwap == CASE m.e.gapVwap \in -50..-6 -> 30 [] m.e.gapVwap \in -100..-51 -> 20
                       [] m.e.gapVwap >= -5 -> 10 [] OTHER -> 0
             sum == chop + flat + Score!MidBand(m.e.rsi) + turn + vwap
  <2>1. chop \in Nat
    OBVIOUS
  <2>2. flat \in Nat
    <3>1. Score!Below(Score!Abs(m.h.spread),
                      {<<10, 50>>, <<25, 40>>, <<50, 25>>, <<80, 10>>}) \in Nat
      BY TableGives
    <3> QED BY <3>1
  <2>3. turn \in Nat
    <3>1. Score!AtLeast(2 * m.e.momentum, {<<6, 50>>, <<4, 40>>, <<2, 30>>, <<1,
          15>>}) \in Nat
      BY TableGives
    <3> QED BY <3>1
  <2>4. Score!MidBand(m.e.rsi) \in Nat
    <3> DEFINE a == m.e.rsi \in 42..50
               b == m.e.rsi \in 51..55
               c == m.e.rsi \in 38..41
               d == m.e.rsi \in 56..60
    <3>1. Score!MidBand(m.e.rsi) = CASE a -> 50 [] b -> 30 [] c -> 20 [] d -> 10 [] OTHER -> 0
      BY DEF Score!MidBand
    <3> HIDE DEF a, b, c, d
    <3> QED BY <3>1
  <2>5. vwap \in Nat
    OBVIOUS
  <2>6. Score!RangeBonus(m.h, m.e, v) = Score!Min({200, sum})
    BY DEF Score!RangeBonus
  <2> HIDE DEF chop, flat, turn, vwap
  <2>7. sum \in Int
    BY <2>1, <2>2, <2>3, <2>4, <2>5
  <2> HIDE DEF sum
  <2>8. Score!Min({200, sum}) = IF 200 <= sum THEN 200 ELSE sum
    BY <2>7, OfTwo
  <2> QED BY <2>6, <2>7, <2>8
<1>5. Score!BandPenalty(m.e.pctB) \in Int
  <2>1. Score!AtLeast(m.e.pctB, {<<50, 30>>, <<65, 80>>, <<80, 150>>}) \in Nat
    BY TableGives
  <2> QED BY <2>1 DEF Score!BandPenalty
<1>6. CASE s \in Score!Reversion /\ m.e = Nil
  <2>1. Score!Confidence(s, p, m, base, v, priced) = Score!Percent(base,
        Score!MaxConfidence(p))
    BY <1>6, ConfidenceBlind
  <2> QED BY <1>1, <1>2, <2>1
<1>7. CASE s \in Score!Reversion /\ m.e # Nil
  <2>1. /\ base + Score!ReversionBonus(m.e, priced) \in Int
        /\ Score!MaxConfidence(p) + 300 \in Nat \ {0}
    BY <1>1, <1>3
  <2>2. Score!Confidence(s, p, m, base, v, priced)
            = Score!Percent(base + Score!ReversionBonus(m.e, priced),
                  Score!MaxConfidence(p) + 300)
    BY <1>7, ConfidenceReversion
  <2> QED BY <1>2, <2>1, <2>2
<1>8. CASE s = "range"
  <2>1. /\ base + Score!RangeBonus(m.h, m.e, v) \in Int
        /\ Score!MaxConfidence(p) + 200 \in Nat \ {0}
    BY <1>1, <1>4
  <2>2. Score!Confidence(s, p, m, base, v, priced)
            = Score!Percent(base + Score!RangeBonus(m.h, m.e, v),
                  Score!MaxConfidence(p) + 200)
    BY <1>8, ConfidenceRange
  <2> QED BY <1>2, <2>1, <2>2
<1>9. CASE s \notin Score!Reversion /\ s # "range"
  <2> DEFINE pc == Score!Percent(base, Score!MaxConfidence(p))
             penalty == Score!BandPenalty(m.e.pctB)
  <2>1. Score!Confidence(s, p, m, base, v, priced)
            = IF penalty = 0 THEN pc ELSE Score!Max({0, pc - penalty})
    BY <1>9, ConfidenceTrend
  <2>2. pc \in Int /\ pc - penalty \in Int
    BY <1>1, <1>2, <1>5
  <2> DEFINE rest == pc - penalty
  <2> HIDE DEF pc, penalty, rest
  <2>3. rest \in Int /\ 0 \in Int
    BY <2>2 DEF rest
  <2>4. Score!Max({0, rest}) = IF 0 <= rest THEN rest ELSE 0
    BY <2>3, OfTwo
  <2> QED BY <2>1, <2>2, <2>3, <2>4 DEF rest
<1> QED BY <1>6, <1>7, <1>8, <1>9

ScoredWith(p, m, safety) ==
    Score!TrendWeight(p) + Score!EntryWeight(p) + Score!VolumePoints(m) + safety

\* The agent's scoring of a shadowed long entry is the rules', less the points
\* of the price: no stands for the call without one, yes for the one with it.
LEMMA ShadowScoresLess ==
    ASSUME NEW p, NEW q, NEW m, NEW v, NEW s, ~ Score!IsShort(s),
           q.trendFilter = p.trendFilter, q.entryFilter = p.entryFilter,
           NEW no, NEW yes,
           Score!ReversionBonus(m.e, no) \in Nat, Score!ReversionBonus(m.e, yes) \in Nat,
           Score!ReversionBonus(m.e, no) <= Score!ReversionBonus(m.e, yes),
           NEW cp, NEW cq,
           cp = Score!Confidence(s, p, m, ScoredWith(p, m, Score!ShadowSafety(s, m)),
                                   v, no),
           cq = Score!Confidence(s, q, m, ScoredWith(q, m, Score!SafetyPoints(s, m)),
                                   v, yes)
    PROVE  cp \in Int /\ cq \in Int /\ cp <= cq
<1> DEFINE base == ScoredWith(p, m, Score!SafetyPoints(s, m))
<1>1. Score!ShadowSafety(s, m) = Score!SafetyPoints(s, m)
  BY DEF Score!ShadowSafety, Score!SafetyPoints, Score!IsShort
<1>2. /\ Score!TrendWeight(q) = Score!TrendWeight(p) /\ Score!EntryWeight(q) = Score!EntryWeight(p)
      /\ Score!MaxConfidence(q) = Score!MaxConfidence(p)
  BY DEF Score!TrendWeight, Score!EntryWeight, Score!MaxConfidence
<1>3. ScoredWith(q, m, Score!SafetyPoints(s, m)) = base
  BY <1>2 DEF ScoredWith
<1>4. ASSUME NEW b
      PROVE Score!Confidence(s, q, m, b, v, yes) = Score!Confidence(s, p, m, b, v, yes)
  BY <1>2 DEF Score!Confidence
<1>11. /\ cp = Score!Confidence(s, p, m, base, v, no)
       /\ cq = Score!Confidence(s, p, m, base, v, yes)
  BY <1>1, <1>3, <1>4
<1>9. base \in Int
  <2>1. /\ Score!TrendWeight(p) \in Int /\ Score!EntryWeight(p) \in Int
        /\ Score!VolumePoints(m) \in Int
    BY DEF Score!TrendWeight, Score!EntryWeight, Score!VolumePoints, Score!VolumeWeight
  <2>2. \A rsi : Score!Overbought(rsi) \in Int /\ Score!Oversold(rsi) \in Int
    BY DEF Score!Overbought, Score!Oversold, Score!SafetyWeight
  <2>3. Score!SafetyPoints(s, m) \in Int
    BY <2>2 DEF Score!SafetyPoints, Score!SafetyWeight
  <2> QED BY <2>1, <2>3 DEF ScoredWith
<1>10. cp \in Int /\ cq \in Int
  <2> HIDE DEF base
  <2> QED BY <1>9, <1>11, ConfidenceIsNumber
<1>6. ASSUME s \notin Score!Reversion PROVE cp = cq
  <2> HIDE DEF base
  <2>1. CASE s = "range"
    <3> DEFINE c == Score!Percent(base + Score!RangeBonus(m.h, m.e, v),
          Score!MaxConfidence(p) + 200)
    <3>1. Score!Confidence(s, p, m, base, v, no) = c
      BY <2>1, ConfidenceRange
    <3>2. Score!Confidence(s, p, m, base, v, yes) = c
      BY <2>1, ConfidenceRange
    <3> QED BY <1>11, <3>1, <3>2
  <2>2. CASE s # "range"
    <3> DEFINE c == IF Score!BandPenalty(m.e.pctB) = 0
                    THEN Score!Percent(base, Score!MaxConfidence(p))
                    ELSE Score!Max({0, Score!Percent(base, Score!MaxConfidence(p))
                                           - Score!BandPenalty(m.e.pctB)})
    <3>1. Score!Confidence(s, p, m, base, v, no) = c
      BY <1>6, <2>2, ConfidenceTrend
    <3>2. Score!Confidence(s, p, m, base, v, yes) = c
      BY <1>6, <2>2, ConfidenceTrend
    <3> HIDE DEF c
    <3> QED BY <1>11, <3>1, <3>2
  <2> QED BY <2>1, <2>2
<1>7. ASSUME s \in Score!Reversion, m.e = Nil PROVE cp = cq
  <2> HIDE DEF base
  <2>1. Score!Confidence(s, p, m, base, v, no) = Score!Percent(base, Score!MaxConfidence(p))
    BY <1>7, ConfidenceBlind
  <2>2. Score!Confidence(s, p, m, base, v, yes) = Score!Percent(base,
        Score!MaxConfidence(p))
    BY <1>7, ConfidenceBlind
  <2> QED BY <1>11, <2>1, <2>2
<1>8. ASSUME s \in Score!Reversion, m.e # Nil PROVE cp <= cq
  <2> DEFINE x == Score!ReversionBonus(m.e, no)
             y == Score!ReversionBonus(m.e, yes)
             most == Score!MaxConfidence(p) + 300
  <2>1. x \in Nat /\ y \in Nat /\ x <= y
    OBVIOUS
  <2>2. Score!TrendWeight(p) \in Nat /\ Score!EntryWeight(p) \in Nat
    BY DEF Score!TrendWeight, Score!EntryWeight
  <2>3. Score!VolumePoints(m) \in Nat
    BY DEF Score!VolumePoints, Score!VolumeWeight
  <2>4. Score!SafetyPoints(s, m) = 100
    BY <1>8 DEF Score!SafetyPoints, Score!Reversion, Score!IsShort, Score!SafetyWeight
  <2>5. base \in Nat /\ most \in Nat \ {0}
    BY <2>2, <2>3, <2>4
          DEF ScoredWith, Score!MaxConfidence, Score!VolumeWeight, Score!SafetyWeight
  <2> HIDE DEF base
  <2>10. cp = Score!Percent(base + x, most) /\ cq = Score!Percent(base + y, most)
    BY <1>8, <1>11, ConfidenceReversion
  <2> HIDE DEF x, y, most
  <2>6. cp = ((base + x) * 1000) \div most /\ cq = ((base + y) * 1000) \div most
    BY <2>10 DEF Score!Percent
  <2>7. /\ (base + x) * 1000 \in Nat /\ (base + y) * 1000 \in Nat
        /\ (base + x) * 1000 <= (base + y) * 1000
    BY <2>1, <2>5
  <2> QED BY <2>5, <2>6, <2>7, DivMono
<1>5. cp <= cq
  <2>1. cp = cq \/ cp <= cq
    BY <1>6, <1>7, <1>8
  <2> QED BY <1>10, <2>1
<1> QED BY <1>5, <1>10

LEMMA AgentOnlyNarrows ==
    ASSUME Score!ScoreAssumption, r1 \in ScoredProfiles
    PROVE  Score!ShadowNarrows
<1> DEFINE p == [r1 EXCEPT !.trading = "SHADOW"]
           q == [r1 EXCEPT !.trading = "RULES"]
<1>1. /\ p.trading = "SHADOW" /\ q.trading = "RULES"
      /\ p.strategy = r1.strategy /\ q.strategy = r1.strategy
      /\ p.trendFilter = r1.trendFilter /\ q.trendFilter = r1.trendFilter
      /\ p.entryFilter = r1.entryFilter /\ q.entryFilter = r1.entryFilter
      /\ p.regimeFilter = r1.regimeFilter /\ q.regimeFilter = r1.regimeFilter
  BY DEF Score!ScoreAssumption
<1> HIDE DEF p, q
<1> SUFFICES ASSUME NEW v, NEW op, ~ Score!IsShort(r1.strategy),
                    Score!Generate(p, r2, v, op).stage = "signal"
             PROVE  /\ Score!Generate(q, r2, v, op).stage = "signal"
                    /\ Score!Generate(p, r2, v, op).confidence
                           <= Score!Generate(q, r2, v, op).confidence
  BY DEF Score!ShadowNarrows, p, q
<1> DEFINE s == r1.strategy
           cp == Score!Confidence(s, p, r2, ScoredWith(p, r2, Score!ShadowSafety(s, r2)),
                                   v, FALSE)
           cq == Score!Confidence(s, q, r2, ScoredWith(q, r2, Score!SafetyPoints(s, r2)),
                                   v, TRUE)
<1>2. \A stage : Score!Stopped(stage).stage = stage
  BY DEF Score!Stopped
<1>3. /\ Score!Generate(p, r2, v, op) = Score!Agent(p, r2, v, op)
      /\ Score!Generate(q, r2, v, op) = Score!Rules(q, r2, v)
  BY <1>1, <1>2 DEF Score!Generate
<1>4. Score!ShadowStrategy(s) = s
  BY DEF Score!ShadowStrategy, Score!IsShort
<1>5. /\ p.entryFilter /\ r2.e # Nil /\ r2.entryOk /\ ~ Score!Breaks(s, r2)
      /\ Score!Agent(p, r2, v, op) = Score!Judged(cp)
  BY <1>1, <1>2, <1>3, <1>4 DEF Score!Agent, ScoredWith
<1>6. Score!Rules(q, r2, v) = Score!Judged(cq)
  BY <1>1, <1>5 DEF Score!Rules, ScoredWith
<1>7. cp \in Int /\ cq \in Int /\ cp <= cq
  <2>1. /\ Score!ReversionBonus(r2.e, FALSE) \in Nat
        /\ Score!ReversionBonus(r2.e, TRUE) \in Nat
        /\ Score!ReversionBonus(r2.e, FALSE) <= Score!ReversionBonus(r2.e, TRUE)
    BY PriceAddsPoints, Zenon
  <2>2. q.trendFilter = p.trendFilter /\ q.entryFilter = p.entryFilter
    BY <1>1
  <2> QED BY <2>1, <2>2, ShadowScoresLess, Zenon
<1> HIDE DEF cp, cq
<1>8. ~ (cp < MinConfidence) /\ Score!Judged(cp) = [stage |-> "signal", confidence |-> cp]
  BY <1>2, <1>3, <1>5 DEF Score!Judged
<1>9. MinConfidence \in Int
  BY DEF Score!ScoreAssumption
<1>10. ~ (cq < MinConfidence)
  BY <1>7, <1>8, <1>9
<1>11. Score!Judged(cq) = [stage |-> "signal", confidence |-> cq]
  BY <1>10 DEF Score!Judged
<1>12. /\ Score!Generate(p, r2, v, op).confidence = cp
       /\ Score!Generate(q, r2, v, op).confidence = cq
       /\ Score!Generate(q, r2, v, op).stage = "signal"
  BY <1>3, <1>5, <1>6, <1>8, <1>11
<1> QED BY <1>7, <1>12

Verdicts == {"SAFE", "CHOPPY", "HIGH_RISK"}

\* A verdict in the cache that calls the market safe is as old as the danger.
ScoreInv ==
    /\ r1 \in ScoredProfiles
    /\ r6 \in Nat /\ r6 <= RegimeOld
    /\ r6 > 0 => Score!Classified(r1.strategy, r2) = "HIGH_RISK"
    /\ r3 # Nil => /\ r3 \in [verdict : Verdicts, age : Nat]
                   /\ r3.verdict # "HIGH_RISK" => r3.age >= r6
    /\ Score!DangerStops

LEMMA Verdict ==
    ASSUME NEW s, NEW m
    PROVE  Score!Classified(s, m) \in Verdicts \cup {"UNKNOWN"}
<1> DEFINE t == Score!Primary(s, m)
           risk == Score!HighRisk(s, t, m.e)
           chop == Score!ChopIssues(t, m.e) >= 2
<1>1. Score!Classified(s, m) = CASE t = Nil -> "UNKNOWN"
                                 [] t # Nil -> IF risk THEN "HIGH_RISK" ELSE IF chop THEN "CHOPPY" ELSE "SAFE"
  BY DEF Score!Classified
<1> HIDE DEF t, risk, chop
<1> QED BY <1>1 DEF Verdicts

\* A dangerous market is entered by no profile with the filter.
LEMMA DangerRefused ==
    ASSUME NEW p, NEW m, NEW op, p.regimeFilter
    PROVE  Score!Generate(p, m, "HIGH_RISK", op).stage # "signal"
<1>1. ~ Score!CanTrade(p.strategy, "HIGH_RISK")
  BY DEF Score!CanTrade
<1>2. \A stage : Score!Stopped(stage).stage = stage
  BY DEF Score!Stopped
<1> QED BY <1>1, <1>2 DEF Score!Generate

LEMMA UnknownRefused ==
    ASSUME NEW p, NEW m, NEW v, NEW op, ~ (m.priced /\ m.balance)
    PROVE  Score!Generate(p, m, v, op).stage # "signal"
<1>2. \A stage : Score!Stopped(stage).stage = stage
  BY DEF Score!Stopped
<1> QED BY <1>2 DEF Score!Generate

LEMMA ScoreInit == ASSUME Score!ScoreAssumption, Score!Init PROVE ScoreInv
<1>1. RegimeTTL \in Nat \ {0} /\ RegimeOld \in Nat
  BY DEF Score!ScoreAssumption
<1>2. r1 \in ScoredProfiles /\ r3 = Nil /\ r6 = 0
  BY DEF Score!Init
<1>3. Score!DangerStops
  BY <1>1, <1>2 DEF Score!DangerStops
<1> QED BY <1>1, <1>2, <1>3 DEF ScoreInv

LEMMA ScoreScans == ASSUME Score!ScoreAssumption, ScoreInv, Score!Scan PROVE ScoreInv'
<1> DEFINE s == r1.strategy
           c == Score!Classified(s, r2)
           r == Score!RegimeNow(s, r2, r3)
<1>1. UNCHANGED <<r1, r2, r4, r6>>
  BY DEF Score!Scan
<1>2. RegimeTTL \in Nat \ {0} /\ RegimeOld \in Nat /\ r6 \in Nat
  BY DEF Score!ScoreAssumption, ScoreInv
<1>3. r = IF r3 # Nil /\ r3.age < RegimeTTL THEN r3
          ELSE IF c = "UNKNOWN" THEN [verdict |-> "UNKNOWN", age |-> RegimeOld]
          ELSE [verdict |-> c, age |-> 0]
  BY DEF Score!RegimeNow
<1>4. c \in Verdicts \cup {"UNKNOWN"} /\ (r6 > 0 => c = "HIGH_RISK")
  BY Verdict DEF ScoreInv
<1> HIDE DEF c, s, r
<1>5. /\ r \in [verdict : Verdicts \cup {"UNKNOWN"}, age : Nat]
      /\ r.verdict \notin {"HIGH_RISK", "UNKNOWN"} => r.age >= r6
      /\ r6 >= RegimeTTL => r.verdict = "HIGH_RISK"
  <2>1. CASE r3 # Nil /\ r3.age < RegimeTTL
    BY <1>2, <1>3, <2>1 DEF ScoreInv, Verdicts
  <2>2. CASE ~ (r3 # Nil /\ r3.age < RegimeTTL) /\ c = "UNKNOWN"
    BY <1>2, <1>3, <1>4, <2>2
  <2>3. CASE ~ (r3 # Nil /\ r3.age < RegimeTTL) /\ c # "UNKNOWN"
    <3>1. r = [verdict |-> c, age |-> 0]
      BY <1>3, <2>3
    <3> QED BY <1>2, <1>4, <3>1
  <2> QED BY <2>1, <2>2, <2>3
<1>6. r3' = (IF r.verdict = "UNKNOWN" THEN r3 ELSE r) \/ r3' = r3
  BY DEF Score!Scan, r, s
<1>7. Score!DangerStops'
  <2> SUFFICES ASSUME r1.regimeFilter, r6 >= RegimeTTL PROVE r5'.stage # "signal"
    BY <1>1 DEF Score!DangerStops
  <2>1. CASE r2.priced /\ r2.balance
    <3>1. r5' = Score!Generate(r1, r2, r.verdict, r4)
      BY <2>1 DEF Score!Scan, r, s
    <3> QED BY <1>5, <3>1, DangerRefused
  <2>2. CASE ~ (r2.priced /\ r2.balance)
    <3>1. r5' = Score!Generate(r1, r2, "UNKNOWN", r4)
      BY <2>2 DEF Score!Scan
    <3> QED BY <2>2, <3>1, UnknownRefused
  <2> QED BY <2>1, <2>2
<1>8. r3' # Nil => /\ r3' \in [verdict : Verdicts, age : Nat]
                   /\ r3'.verdict # "HIGH_RISK" => r3'.age >= r6
  BY <1>2, <1>5, <1>6 DEF ScoreInv
<1> QED BY <1>1, <1>7, <1>8 DEF ScoreInv

LEMMA ScoreRests ==
    ASSUME ScoreInv, UNCHANGED r1, r5' = Score!Stopped("none"),
           r6' \in Nat, r6' <= RegimeOld,
           r6' > 0 => Score!Classified(r1.strategy, r2') = "HIGH_RISK",
           r3' # Nil => /\ r3' \in [verdict : Verdicts, age : Nat]
                        /\ r3'.verdict # "HIGH_RISK" => r3'.age >= r6'
    PROVE  ScoreInv'
<1>1. r5'.stage # "signal"
  BY DEF Score!Stopped
<1>2. Score!DangerStops'
  BY <1>1 DEF Score!DangerStops
<1>3. Score!Classified(r1.strategy, r2)' = Score!Classified(r1.strategy, r2')
  BY DEF Score!Classified, Score!Primary, Score!HighRisk, Score!ChopIssues
<1> QED BY <1>2, <1>3 DEF ScoreInv

LEMMA ScoreBar == ASSUME Score!ScoreAssumption, ScoreInv, Score!Bar PROVE ScoreInv'
<1>1. /\ UNCHANGED <<r1, r3, r4>> /\ r5' = Score!Stopped("none")
      /\ r6' = IF Score!Classified(r1.strategy, r2') = "HIGH_RISK" THEN r6 ELSE 0
  BY DEF Score!Bar
<1>2. RegimeOld \in Nat
  BY DEF Score!ScoreAssumption
<1>3. r6' \in Nat /\ r6' <= r6 /\ r6' <= RegimeOld
  BY <1>1, <1>2 DEF ScoreInv
<1>4. r6' > 0 => Score!Classified(r1.strategy, r2') = "HIGH_RISK"
  BY <1>1, <1>3
<1>5. r3' # Nil => /\ r3' \in [verdict : Verdicts, age : Nat]
                   /\ r3'.verdict # "HIGH_RISK" => r3'.age >= r6'
  BY <1>1, <1>3 DEF ScoreInv
<1> QED BY <1>1, <1>3, <1>4, <1>5, ScoreRests

LEMMA ScoreTick == ASSUME Score!ScoreAssumption, ScoreInv, Score!Tick PROVE ScoreInv'
<1> DEFINE up == Score!Min({r6 + 1, RegimeOld})
<1>1. /\ UNCHANGED <<r1, r2, r4>> /\ r5' = Score!Stopped("none")
      /\ r6' = IF Score!Classified(r1.strategy, r2) = "HIGH_RISK" THEN up ELSE 0
      /\ r3' = IF r3 = Nil THEN Nil
               ELSE [r3 EXCEPT !.age = Score!Min({r3.age + 1, RegimeOld})]
  BY DEF Score!Tick
<1>2. RegimeOld \in Nat /\ r6 \in Nat /\ r6 <= RegimeOld
  BY DEF Score!ScoreAssumption, ScoreInv
<1>3. up = IF r6 + 1 <= RegimeOld THEN r6 + 1 ELSE RegimeOld
  BY <1>2, OfTwo
<1> HIDE DEF up
<1>4. r6' \in Nat /\ r6' <= RegimeOld /\ r6' <= r6 + 1
  BY <1>1, <1>2, <1>3
<1>5. r6' > 0 => Score!Classified(r1.strategy, r2') = "HIGH_RISK"
  BY <1>1, <1>2, <1>4
<1>6. ASSUME r3' # Nil
      PROVE  /\ r3' \in [verdict : Verdicts, age : Nat]
             /\ r3'.verdict # "HIGH_RISK" => r3'.age >= r6'
  <2>1. r3 \in [verdict : Verdicts, age : Nat] /\ (r3.verdict # "HIGH_RISK" => r3.age >= r6)
    BY <1>1, <1>6 DEF ScoreInv
  <2> DEFINE a == r3.age + 1
  <2>2. a \in Int /\ RegimeOld \in Int /\ a \in Nat
    BY <1>2, <2>1
  <2> HIDE DEF a
  <2>3. Score!Min({a, RegimeOld}) = IF a <= RegimeOld THEN a ELSE RegimeOld
    BY <2>2, OfTwo
  <2>4. r3' = [r3 EXCEPT !.age = Score!Min({a, RegimeOld})]
    BY <1>1, <1>6 DEF a
  <2>5. /\ r3'.verdict = r3.verdict /\ r3'.age = Score!Min({a, RegimeOld})
        /\ Score!Min({a, RegimeOld}) \in Nat
    BY <1>2, <2>1, <2>2, <2>3, <2>4
  <2>6. r3' \in [verdict : Verdicts, age : Nat]
    BY <2>1, <2>4, <2>5
  <2>7. r3'.verdict # "HIGH_RISK" => r3'.age >= r6'
    BY <1>2, <1>4, <2>1, <2>2, <2>3, <2>5 DEF a
  <2> QED BY <2>6, <2>7
<1> QED BY <1>1, <1>4, <1>5, <1>6, ScoreRests

(* No scan of a profile with the regime filter enters a market that has been  *)
(* dangerous for longer than a verdict is kept, and SHADOW mode admits no     *)
(* long signal that RULES would have refused, for any profiles, markets and   *)
(* opinions (get_regime, generate_signal, _generate_ai_agent_signal).         *)
THEOREM SignalsGuardedAlways ==
    ASSUME Score!ScoreAssumption PROVE EverySpec => []SignalsGuarded
<1> DEFINE Inv == part = "score" => ScoreInv
<1>1. EveryInit => Inv
  BY ScoreInit DEF EveryInit
<1>2. Inv /\ [EveryNext]_allVars => Inv'
  <2> SUFFICES ASSUME Inv, [EveryNext]_allVars, part' = "score" PROVE ScoreInv'
    OBVIOUS
  <2>1. part = "score" /\ [Score!Next]_Score!vars
    BY ScorePart
  <2>2. CASE UNCHANGED Score!vars
    <3>1. UNCHANGED <<r1, r2, r3, r4, r5, r6>>
      BY <2>2 DEF Score!vars
    <3>2. Score!Classified(r1.strategy, r2)' = Score!Classified(r1.strategy, r2)
      BY <3>1 DEF Score!Classified, Score!Primary, Score!HighRisk, Score!ChopIssues
    <3> QED BY <2>1, <3>1, <3>2 DEF ScoreInv, Score!DangerStops
  <2> QED BY <2>1, <2>2, ScoreScans, ScoreBar, ScoreTick DEF Score!Next
<1>3. Inv => SignalsGuarded
  BY AgentOnlyNarrows DEF ScoreInv, SignalsGuarded
<1> QED BY <1>1, <1>2, <1>3, PTL DEF EverySpec
=============================================================================
