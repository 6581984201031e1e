--------------------------- MODULE IndicatorVote ---------------------------
(***************************************************************************)
(* How TrendCache._validate_timeframe_indicators turns the verdicts of the *)
(* configured indicators into one: hard stops, groups and the count.      *)
(* An indicator is [group, hardStop]; a group is [requireAll, hardStop];   *)
(* passed is the set of indicators that passed.                            *)
(***************************************************************************)
EXTENDS Integers, FiniteSets

CONSTANTS Ungrouped,   \* the value of `group` for an indicator in no group
          Slots,       \* the configured indicators
          GroupIds     \* the groups they may be put in

ASSUME SlotsAssumption == IsFiniteSet(Slots)

Indicator == [group : GroupIds \cup {Ungrouped}, hardStop : BOOLEAN]
Group == [requireAll : BOOLEAN, hardStop : BOOLEAN]

Members(I, inds, g) == {i \in I : inds[i].group = g}
Alone(I, inds) == Members(I, inds, Ungrouped)
GroupsOf(I, inds) == {inds[i].group : i \in I} \ {Ungrouped}

\* a hard stop of an indicator inside a group is not looked at
HardStopped(I, inds, passed) ==
    \E i \in Alone(I, inds) : inds[i].hardStop /\ i \notin passed

GroupPassed(I, inds, groups, passed, g) ==
    IF groups[g].requireAll
    THEN Members(I, inds, g) \subseteq passed
    ELSE Members(I, inds, g) \cap passed # {}

GroupStopped(I, inds, groups, passed) ==
    \E g \in GroupsOf(I, inds) :
        groups[g].hardStop /\ ~GroupPassed(I, inds, groups, passed, g)

Passes(I, inds, groups, passed) ==
    Cardinality(Alone(I, inds) \cap passed)
      + Cardinality({g \in GroupsOf(I, inds) : GroupPassed(I, inds, groups, passed, g)})

Decide(I, inds, groups, useHardStops, minRequired, passed) ==
    /\ useHardStops => ~HardStopped(I, inds, passed)
    /\ useHardStops => ~GroupStopped(I, inds, groups, passed)
    /\ Passes(I, inds, groups, passed) >= minRequired

(***************************************************************************)
(* An indicator that passes is evidence for the entry: whatever the        *)
(* grouping, one more passing indicator never loses a signal that fewer    *)
(* had won (_validate_timeframe_indicators, from its hard stops to its     *)
(* count).                                                                 *)
(***************************************************************************)
VoteMonotone ==
    \A I \in SUBSET Slots, inds \in [Slots -> Indicator], groups \in [GroupIds -> Group],
       useHardStops \in BOOLEAN, minRequired \in 0..Cardinality(Slots) :
        \A p, q \in SUBSET I :
            /\ p \subseteq q
            /\ Decide(I, inds, groups, useHardStops, minRequired, p)
            => Decide(I, inds, groups, useHardStops, minRequired, q)
=============================================================================
