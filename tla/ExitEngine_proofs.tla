------------------------- MODULE ExitEngine_proofs -------------------------
(***************************************************************************)
(* Theorems about ExitEngine.  The typing and the soundness of validation  *)
(* and the pricing of fills hold for every value of the constants; the     *)
(* rest for one position of the symbol at a time, bought by the loop       *)
(* (Alone), for every number of positions and faults, with and without the *)
(* trailing stop.                                                          *)
(*                                                                         *)
(* Three invariants hold whatever fails (Typed, Phases, PricedOK); the     *)
(* others hold until a fault of certain kinds (KeptInv for validation;     *)
(* Marked, ReachInv, BoundInv and SoldInv for what is sold and booked).    *)
(***************************************************************************)
EXTENDS ExitEngine, TLAPS, FiniteSetTheorems, WellFoundedInduction

\* One position at a time.  Up to 100 lots, a lot is never below the 1 % of a
\* position that validation writes off.
Alone == MaxOpen <= 1 /\ ~Webhook /\ Lots <= 100

\* Lots locked by the TAKE_PROFIT order of p.
Own(p) == IF tp[p] = "open" THEN tpQty[p] - tpExec[p] ELSE 0

\* An order is filled once it has executed its quantity, and the position
\* being opened has none until RestTakeProfit.
OrdersOK ==
    /\ \A p \in Positions :
          /\ tp[p] = "none" => tpExec[p] = 0
          /\ tp[p] = "open" => tpExec[p] < tpQty[p]
          /\ tpExec[p] <= tpQty[p]
          /\ st[p] = "none" => tp[p] = "none"
    /\ bpc # "idle" => st[buy] # "none"
    /\ bpc \in {"bought", "booked", "refreshed"} => tp[buy] = "none"

Typed == TypeOK /\ OrdersOK

-----------------------------------------------------------------------------
(* Sums over finite sets of numbers.                                       *)

\* Induction, as a fact about a set of numbers.
LEMMA Numbers ==
    ASSUME NEW T \in SUBSET Nat, 0 \in T, \A n \in T : n + 1 \in T
    PROVE  T = Nat
<1> DEFINE Bad == Nat \ T
<1>1. ASSUME Bad # {} PROVE FALSE
  <2> DEFINE Less == OpToRel(<, Nat)
  <2>1. \A m, n \in Nat : m < n => <<m, n>> \in Less
    BY DEF OpToRel
  <2>2. IsWellFoundedOn(Less, Nat)
    BY NatLessThanWellFounded
  <2> HIDE DEF Less
  <2>3. PICK n \in Bad : \A m \in Bad : ~(<<m, n>> \in Less)
    BY <1>1, <2>2, WFMin
  <2>4. n # 0 /\ n - 1 \in Nat /\ n - 1 < n
    BY <2>3
  <2>5. n - 1 \notin Bad
    BY <2>1, <2>3, <2>4
  <2> QED BY <2>3, <2>4, <2>5
<1> QED BY <1>1

Pick(s) == CHOOSE x \in s : TRUE
Sums(g, Q, E, S) == g = [s \in SUBSET S |-> IF s = {} THEN 0 ELSE (Q[Pick(s)] - E[Pick(s)]) + g[s \ {Pick(s)}]]
Total(Q, E, S) == CHOOSE g : Sums(g, Q, E, S)

LEMMA PickIn == ASSUME NEW s, s # {} PROVE Pick(s) \in s
  BY DEF Pick

LEMMA TotalDefined ==
    ASSUME NEW S, IsFiniteSet(S), NEW Q, NEW E
    PROVE  Sums(Total(Q, E, S), Q, E, S)
<1> DEFINE F(g, s) == IF s = {} THEN 0 ELSE (Q[Pick(s)] - E[Pick(s)]) + g[s \ {Pick(s)}]
           T == {n \in Nat : \E g : \A s \in SUBSET S : Cardinality(s) <= n => g[s] = F(g, s)}
<1> HIDE DEF T
<1>0. \A s \in SUBSET S : IsFiniteSet(s) /\ Cardinality(s) \in Nat
  BY FS_Subset, FS_CardinalityType
<1>1. 0 \in T
  <2> DEFINE g == [s \in SUBSET S |-> 0]
  <2>1. \A s \in SUBSET S : Cardinality(s) <= 0 => g[s] = F(g, s)
    BY <1>0, FS_EmptySet
  <2> QED BY <2>1 DEF T
<1>2. ASSUME NEW n \in T PROVE n + 1 \in T
  <2>1. PICK g : \A s \in SUBSET S : Cardinality(s) <= n => g[s] = F(g, s)
    BY DEF T
  <2>2. n \in Nat BY DEF T
  <2> DEFINE h == [s \in SUBSET S |-> IF Cardinality(s) <= n THEN g[s] ELSE F(g, s)]
  <2>3. ASSUME NEW s \in SUBSET S, Cardinality(s) <= n + 1 PROVE h[s] = F(h, s)
    <3>1. h[s] = F(g, s)
      BY <2>1
    <3>2. CASE s = {}
      BY <3>1, <3>2
    <3>3. CASE s # {}
      <4>1. Pick(s) \in s BY <3>3, PickIn
      <4>2. Cardinality(s \ {Pick(s)}) <= n
        BY <4>1, <1>0, <2>2, <2>3, FS_RemoveElement
      <4>3. h[s \ {Pick(s)}] = g[s \ {Pick(s)}]
        BY <4>2
      <4> QED BY <3>1, <3>3, <4>3
    <3> QED BY <3>2, <3>3
  <2> HIDE DEF h, F
  <2> QED BY <2>2, <2>3 DEF T
<1>3. Cardinality(S) \in T
  <2>1. T \in SUBSET Nat BY DEF T
  <2>2. T = Nat BY <1>1, <1>2, <2>1, Numbers
  <2> QED BY <2>2, <1>0
<1>4. PICK g : \A s \in SUBSET S : g[s] = F(g, s)
  <2>1. \A s \in SUBSET S : Cardinality(s) <= Cardinality(S)
    BY FS_Subset
  <2> QED BY <1>3, <2>1 DEF T
<1> DEFINE h == [s \in SUBSET S |-> g[s]]
<1>5. \A s \in SUBSET S : h[s] = F(h, s)
  BY <1>4
<1>6. Sums(h, Q, E, S)
  BY <1>5 DEF Sums
<1> QED BY <1>6 DEF Total

LEMMA TotalValue ==
    ASSUME NEW S, IsFiniteSet(S), NEW Q, NEW E
    PROVE  \A s \in SUBSET S :
             /\ s = {} => Total(Q, E, S)[s] = 0
             /\ s # {} => Total(Q, E, S)[s] =
                            (Q[Pick(s)] - E[Pick(s)]) + Total(Q, E, S)[s \ {Pick(s)}]
<1> DEFINE g == Total(Q, E, S)
<1>1. g = [s \in SUBSET S |-> IF s = {} THEN 0
                             ELSE (Q[Pick(s)] - E[Pick(s)]) + g[s \ {Pick(s)}]]
  <2>1. Sums(g, Q, E, S) BY TotalDefined
  <2> HIDE DEF g
  <2> QED BY <2>1 DEF Sums
<1> HIDE DEF g
<1>2. \A s \in SUBSET S :
        /\ s = {} => g[s] = 0
        /\ s # {} => g[s] = (Q[Pick(s)] - E[Pick(s)]) + g[s \ {Pick(s)}]
  BY <1>1
<1> QED BY <1>2 DEF g

LEMMA TotalOfNone ==
    ASSUME NEW Q, NEW E
    PROVE  Total(Q, E, {})[{}] = 0
<1>1. IsFiniteSet({}) /\ {} \in SUBSET {}
  BY FS_EmptySet
<1> QED BY <1>1, TotalValue

LEMMA TotalOfOne ==
    ASSUME NEW Q, NEW E, NEW y, Q[y] - E[y] \in Int
    PROVE  Total(Q, E, {y})[{y}] = Q[y] - E[y]
<1>0. Pick({y}) = y /\ {y} \ {y} = {} /\ {} \in SUBSET {y} /\ IsFiniteSet({y})
  BY FS_Singleton DEF Pick
<1> DEFINE g == Total(Q, E, {y})
<1>1. \A s \in SUBSET {y} :
        /\ s = {} => g[s] = 0
        /\ s # {} => g[s] = (Q[Pick(s)] - E[Pick(s)]) + g[s \ {Pick(s)}]
  BY <1>0, TotalValue
<1> HIDE DEF g
<1>2. g[{y}] = Q[y] - E[y] + g[{}] /\ g[{}] = 0
  BY <1>0, <1>1
<1> QED BY <1>2 DEF g

LEMMA TotalBounds ==
    ASSUME NEW S, IsFiniteSet(S), NEW Q, NEW E, \A y \in S : Q[y] - E[y] \in Nat
    PROVE  Total(Q, E, S)[S] \in Nat /\ \A y \in S : Total(Q, E, S)[S] >= Q[y] - E[y]
<1> DEFINE g == Total(Q, E, S)
           T == {n \in Nat : \A s \in SUBSET S : Cardinality(s) = n =>
                               g[s] \in Nat /\ \A y \in s : g[s] >= Q[y] - E[y]}
<1>0. \A s \in SUBSET S : IsFiniteSet(s) /\ Cardinality(s) \in Nat
  BY FS_Subset, FS_CardinalityType
<1>1. \A s \in SUBSET S :
        /\ s = {} => g[s] = 0
        /\ s # {} => g[s] = (Q[Pick(s)] - E[Pick(s)]) + g[s \ {Pick(s)}]
  BY TotalValue
<1> HIDE DEF g
<1>2. 0 \in T
  BY <1>0, <1>1, FS_EmptySet
<1>3. ASSUME NEW n \in T PROVE n + 1 \in T
  <2> SUFFICES ASSUME NEW s \in SUBSET S, Cardinality(s) = n + 1
               PROVE  g[s] \in Nat /\ \A y \in s : g[s] >= Q[y] - E[y]
    OBVIOUS
  <2>1. s # {} /\ Pick(s) \in s
    BY PickIn, FS_EmptySet, <1>0
  <2>2. Cardinality(s \ {Pick(s)}) = n
    BY <2>1, <1>0, FS_RemoveElement
  <2> DEFINE r == s \ {Pick(s)}
  <2>3. g[r] \in Nat /\ \A y \in r : g[r] >= Q[y] - E[y]
    BY <2>2
  <2>4. g[s] = Q[Pick(s)] - E[Pick(s)] + g[r]
    BY <2>1, <1>1
  <2>5. \A y \in s : y = Pick(s) \/ y \in r
    OBVIOUS
  <2>6. \A y \in s : Q[y] - E[y] \in Nat
    OBVIOUS
  <2> HIDE DEF r
  <2> QED BY <2>1, <2>3, <2>4, <2>5, <2>6
<1>4. Cardinality(S) \in T
  <2>1. T \in SUBSET Nat OBVIOUS
  <2> HIDE DEF T
  <2>2. T = Nat BY <1>2, <1>3, <2>1, Numbers
  <2> QED BY <2>2, <1>0
<1>5. g[S] \in Nat /\ \A y \in S : g[S] >= Q[y] - E[y]
  BY <1>4
<1> QED BY <1>5 DEF g

\* The sum of a subset does not depend on the set it is taken from, nor on
\* anything but the terms.
LEMMA SumsAgree ==
    ASSUME NEW S, IsFiniteSet(S), NEW W \in SUBSET S, NEW Q, NEW E, NEW Q2, NEW E2,
           \A y \in W : Q[y] - E[y] = Q2[y] - E2[y],
           NEW g, NEW h, Sums(g, Q, E, S), Sums(h, Q2, E2, W)
    PROVE  \A s \in SUBSET W : g[s] = h[s]
<1>0. \A s \in SUBSET W : IsFiniteSet(s) /\ Cardinality(s) \in Nat
  BY FS_Subset, FS_CardinalityType
<1>1. \A s \in SUBSET S :
        g[s] = IF s = {} THEN 0 ELSE (Q[Pick(s)] - E[Pick(s)]) + g[s \ {Pick(s)}]
  BY DEF Sums
<1>2. \A s \in SUBSET W :
        h[s] = IF s = {} THEN 0 ELSE (Q2[Pick(s)] - E2[Pick(s)]) + h[s \ {Pick(s)}]
  BY DEF Sums
<1> DEFINE T == {n \in Nat : \A s \in SUBSET W : Cardinality(s) = n => g[s] = h[s]}
<1>3. 0 \in T
  <2> SUFFICES ASSUME NEW s \in SUBSET W, Cardinality(s) = 0 PROVE g[s] = h[s]
    OBVIOUS
  <2>1. s = {}
    BY <1>0, FS_EmptySet
  <2>2. g[s] = 0 /\ h[s] = 0
    BY <1>1, <1>2, <2>1
  <2> QED BY <2>2
<1>4. ASSUME NEW n \in T PROVE n + 1 \in T
  <2> SUFFICES ASSUME NEW s \in SUBSET W, Cardinality(s) = n + 1 PROVE g[s] = h[s]
    OBVIOUS
  <2>1. s # {} /\ Pick(s) \in s
    BY PickIn, FS_EmptySet, <1>0
  <2>2. s \ {Pick(s)} \in SUBSET W /\ Cardinality(s \ {Pick(s)}) = n
    <3>1. IsFiniteSet(s)
      BY <1>0
    <3>2. Cardinality(s \ {Pick(s)}) = Cardinality(s) - 1
      BY <2>1, <3>1, FS_RemoveElement
    <3> QED BY <3>2
  <2>3. g[s \ {Pick(s)}] = h[s \ {Pick(s)}]
    BY <2>2
  <2>4. Q[Pick(s)] - E[Pick(s)] = Q2[Pick(s)] - E2[Pick(s)]
    BY <2>1
  <2>5. g[s] = (Q[Pick(s)] - E[Pick(s)]) + g[s \ {Pick(s)}]
    BY <1>1, <2>1
  <2>6. h[s] = (Q2[Pick(s)] - E2[Pick(s)]) + h[s \ {Pick(s)}]
    BY <1>2, <2>1
  <2> QED BY <2>3, <2>4, <2>5, <2>6
<1>5. T = Nat
  <2>1. T \in SUBSET Nat
    OBVIOUS
  <2> HIDE DEF T
  <2> QED BY <1>3, <1>4, <2>1, Numbers
<1> QED BY <1>0, <1>5

LEMMA TotalAgree ==
    ASSUME NEW S, IsFiniteSet(S), NEW W \in SUBSET S, NEW Q, NEW E, NEW Q2, NEW E2,
           \A y \in W : Q[y] - E[y] = Q2[y] - E2[y]
    PROVE  \A s \in SUBSET W : Total(Q, E, S)[s] = Total(Q2, E2, W)[s]
<1>1. Sums(Total(Q, E, S), Q, E, S)
  BY TotalDefined
<1>2. Sums(Total(Q2, E2, W), Q2, E2, W)
  <2>1. IsFiniteSet(W)
    BY FS_Subset
  <2> QED BY <2>1, TotalDefined
<1> QED BY <1>1, <1>2, SumsAgree

\* A term may be taken out of a sum.
LEMMA TotalRemove ==
    ASSUME NEW S, IsFiniteSet(S), NEW Q, NEW E, \A y \in S : Q[y] - E[y] \in Int
    PROVE  \A s \in SUBSET S :
              /\ Total(Q, E, S)[s] \in Int
              /\ \A y \in s : Total(Q, E, S)[s] = (Q[y] - E[y]) + Total(Q, E, S)[s \ {y}]
<1>0. \A s \in SUBSET S : IsFiniteSet(s) /\ Cardinality(s) \in Nat
  BY FS_Subset, FS_CardinalityType
<1> DEFINE g == Total(Q, E, S)
<1>1. \A s \in SUBSET S :
        /\ s = {} => g[s] = 0
        /\ s # {} => g[s] = (Q[Pick(s)] - E[Pick(s)]) + g[s \ {Pick(s)}]
  BY TotalValue, Z3
<1> HIDE DEF g
<1> DEFINE OK(s) == /\ g[s] \in Int
                    /\ \A y \in s : g[s] = (Q[y] - E[y]) + g[s \ {y}]
           T == {n \in Nat : \A s \in SUBSET S : Cardinality(s) <= n => OK(s)}
<1>2. 0 \in T
  <2> SUFFICES ASSUME NEW s \in SUBSET S, Cardinality(s) <= 0 PROVE OK(s)
    OBVIOUS
  <2>1. s = {}
    BY <1>0, FS_EmptySet
  <2>2. g[s] = 0
    BY <1>1, <2>1
  <2> QED BY <2>1, <2>2
<1>3. ASSUME NEW n \in T PROVE n + 1 \in T
  <2> SUFFICES ASSUME NEW s \in SUBSET S, Cardinality(s) <= n + 1, s # {} PROVE OK(s)
    BY <1>1
  <2> DEFINE x == Pick(s)
  <2>1. x \in s
    BY PickIn
  <2>2. ASSUME NEW r \in SUBSET S, NEW y \in r, Cardinality(r) <= n + 1
        PROVE  r \ {y} \in SUBSET S /\ Cardinality(r \ {y}) <= n
    BY <1>0, <2>2, FS_RemoveElement
  <2>3. g[s] = (Q[x] - E[x]) + g[s \ {x}]
    BY <1>1
  <2> HIDE DEF x
  <2>4. n \in Nat /\ \A r \in SUBSET S : Cardinality(r) <= n => OK(r)
    OBVIOUS
  <2>5. \A y \in s : OK(s \ {y})
    BY <2>2, <2>4
  <2> HIDE DEF T
  <2>6. ASSUME NEW y \in s PROVE g[s] = (Q[y] - E[y]) + g[s \ {y}]
    <3>1. CASE y = x
      BY <2>3, <3>1
    <3>2. CASE y # x
      <4> DEFINE r == (s \ {x}) \ {y}
      <4>1. r = (s \ {y}) \ {x} /\ y \in s \ {x} /\ x \in s \ {y}
        BY <2>1, <3>2
      <4>2. g[s \ {x}] = (Q[y] - E[y]) + g[r]
        BY <2>1, <2>5, <4>1
      <4>3. g[s \ {y}] = (Q[x] - E[x]) + g[(s \ {y}) \ {x}]
        BY <2>5, <4>1
      <4>4. g[r] \in Int
        <5>1. s \ {x} \in SUBSET S /\ Cardinality(s \ {x}) <= n
          BY <2>1, <2>2
        <5>2. Cardinality(s \ {x}) <= n + 1
          BY <1>0, <2>4, <5>1
        <5>3. r \in SUBSET S /\ Cardinality(r) <= n
          BY <2>2, <4>1, <5>1, <5>2
        <5> QED BY <2>4, <5>3
      <4>5. Q[x] - E[x] \in Int /\ Q[y] - E[y] \in Int
        BY <2>1
      <4> HIDE DEF r
      <4> QED BY <2>3, <4>1, <4>2, <4>3, <4>4, <4>5
    <3> QED BY <3>1, <3>2
  <2>7. Q[x] - E[x] \in Int
    BY <2>1
  <2>8. g[s \ {x}] \in Int
    BY <2>1, <2>5
  <2>9. g[s] \in Int
    BY <2>3, <2>7, <2>8
  <2> QED BY <2>6, <2>9
<1>4. T = Nat
  <2>1. T \in SUBSET Nat
    OBVIOUS
  <2> HIDE DEF T
  <2> QED BY <1>2, <1>3, <2>1, Numbers
<1>5. \A s \in SUBSET S : OK(s)
  <2> SUFFICES ASSUME NEW s \in SUBSET S PROVE OK(s)
    OBVIOUS
  <2>1. Cardinality(s) \in Nat
    BY <1>0
  <2>2. \A r \in SUBSET S : Cardinality(r) <= Cardinality(s) => OK(r)
    BY <1>4, <2>1
  <2> HIDE DEF OK, T
  <2> QED BY <2>1, <2>2
<1> QED BY <1>5 DEF g

\* A sum may be split in two.
LEMMA TotalSplit ==
    ASSUME NEW S, IsFiniteSet(S), NEW Q, NEW E, \A y \in S : Q[y] - E[y] \in Int,
           NEW A \in SUBSET S
    PROVE  Total(Q, E, S)[S] = Total(Q, E, A)[A] + Total(Q, E, S \ A)[S \ A]
<1>p. ASSUME NEW W \in SUBSET S PROVE Total(Q, E, S)[W] = Total(Q, E, W)[W]
  <2>1. \A s \in SUBSET W : Total(Q, E, S)[s] = Total(Q, E, W)[s]
    BY TotalAgree, Z3
  <2>2. W \in SUBSET W
    OBVIOUS
  <2> QED BY <2>1, <2>2
<1> DEFINE g == Total(Q, E, S)
<1>0. \A s \in SUBSET S : IsFiniteSet(s) /\ Cardinality(s) \in Nat
  BY FS_Subset, FS_CardinalityType
<1>1. \A s \in SUBSET S :
         g[s] \in Int /\ \A y \in s : g[s] = (Q[y] - E[y]) + g[s \ {y}]
  BY TotalRemove
<1>2. g[{}] = 0
  BY TotalValue
<1>3. g[A] = Total(Q, E, A)[A] /\ g[S \ A] = Total(Q, E, S \ A)[S \ A]
  BY <1>p
<1> HIDE DEF g
<1> DEFINE T == {n \in Nat : \A s, a \in SUBSET S :
                    Cardinality(a) = n /\ a \subseteq s => g[s] = g[a] + g[s \ a]}
<1>4. 0 \in T
  <2> SUFFICES ASSUME NEW s \in SUBSET S, NEW a \in SUBSET S, Cardinality(a) = 0
               PROVE  g[s] = g[a] + g[s \ a]
    OBVIOUS
  <2>1. a = {} /\ s \ a = s
    BY <1>0, FS_EmptySet
  <2> QED BY <1>1, <1>2, <2>1
<1>5. ASSUME NEW n \in T PROVE n + 1 \in T
  <2> SUFFICES ASSUME NEW s \in SUBSET S, NEW a \in SUBSET S, Cardinality(a) = n + 1, a \subseteq s
               PROVE  g[s] = g[a] + g[s \ a]
    OBVIOUS
  <2>1. PICK y : y \in a
    <3>1. a # {}
      BY FS_EmptySet
    <3> QED BY <3>1
  <2>2. Cardinality(a \ {y}) = n
    <3>1. IsFiniteSet(a)
      BY <1>0
    <3>2. Cardinality(a \ {y}) = Cardinality(a) - 1
      BY <2>1, <3>1, FS_RemoveElement
    <3> QED BY <3>2
  <2>3. g[s \ {y}] = g[a \ {y}] + g[(s \ {y}) \ (a \ {y})]
    <3>1. a \ {y} \in SUBSET S /\ s \ {y} \in SUBSET S /\ a \ {y} \subseteq s \ {y}
      OBVIOUS
    <3> QED BY <2>2, <3>1
  <2>4. (s \ {y}) \ (a \ {y}) = s \ a
    BY <2>1
  <2>5. g[s] = (Q[y] - E[y]) + g[s \ {y}] /\ g[a] = (Q[y] - E[y]) + g[a \ {y}]
    BY <1>1, <2>1
  <2>6. Q[y] - E[y] \in Int /\ g[a \ {y}] \in Int /\ g[s \ a] \in Int
    BY <1>1, <2>1
  <2>7. g[s \ {y}] = g[a \ {y}] + g[s \ a]
    BY <2>3, <2>4
  <2> HIDE DEF T
  <2> QED BY <2>5, <2>6, <2>7
<1>6. T = Nat
  <2>1. T \in SUBSET Nat
    OBVIOUS
  <2> HIDE DEF T
  <2> QED BY <1>4, <1>5, <2>1, Numbers
<1>7. g[S] = g[A] + g[S \ A]
  BY <1>0, <1>6
<1> QED BY <1>3, <1>7 DEF g

-----------------------------------------------------------------------------
(* What the resting orders lock.                                           *)

LEMMA TotalOpen ==
    ASSUME NEW t, NEW Q, NEW E, NEW S \in SUBSET Positions,
           \A p \in S : t[p] = "open" => Q[p] - E[p] \in Nat
    PROVE  LET R == {p \in S : t[p] = "open"}
           IN  Total(Q, E, R)[R] \in Nat /\ \A p \in R : Total(Q, E, R)[R] >= Q[p] - E[p]
<1> DEFINE R == {p \in S : t[p] = "open"}
<1>1. IsFiniteSet(R)
  <2>1. IsFiniteSet(Positions)
    BY ExitAssumption, FS_Interval DEF Positions
  <2>2. R \in SUBSET Positions
    OBVIOUS
  <2> HIDE DEF R
  <2> QED BY <2>1, <2>2, FS_Subset
<1>2. \A p \in R : Q[p] - E[p] \in Nat
  OBVIOUS
<1> HIDE DEF R
<1>3. Total(Q, E, R)[R] \in Nat /\ \A p \in R : Total(Q, E, R)[R] >= Q[p] - E[p]
  BY <1>1, <1>2, TotalBounds
<1> QED BY <1>3 DEF R

LEMMA LockedNat ==
    ASSUME Typed, NEW S \in SUBSET Positions
    PROVE  Locked(S) \in Nat /\ \A p \in S : tp[p] = "open" => Locked(S) >= Own(p)
<1> DEFINE R == {p \in S : tp[p] = "open"}
<1>1. \A p \in S : tp[p] = "open" => tpQty[p] - tpExec[p] \in Nat
  BY DEF Typed, TypeOK, OrdersOK
<1>2. Locked(S) = Total(tpQty, tpExec, R)[R]
  BY DEF Locked, MapThenSumSet, MapThenFoldSet, Total, Sums, Pick
<1>3. Total(tpQty, tpExec, R)[R] \in Nat
      /\ \A p \in R : Total(tpQty, tpExec, R)[R] >= tpQty[p] - tpExec[p]
  BY <1>1, TotalOpen
<1> QED BY <1>2, <1>3 DEF Own

\* With one resting order, that order's rest.
LEMMA LockedOne ==
    ASSUME Typed, NEW S \in SUBSET Positions, NEW p \in S,
           \A q \in S : tp[q] = "open" => q = p
    PROVE  Locked(S) = Own(p)
<1> DEFINE R == {q \in S : tp[q] = "open"}
<1>1. Locked(S) = Total(tpQty, tpExec, R)[R]
  BY DEF Locked, MapThenSumSet, MapThenFoldSet, Total, Sums, Pick
<1>2. CASE tp[p] = "open"
  <2>1. R = {p}
    BY <1>2
  <2>2. tpQty[p] - tpExec[p] \in Int
    BY DEF Typed, TypeOK
  <2>3. Total(tpQty, tpExec, {p})[{p}] = tpQty[p] - tpExec[p]
    BY <2>2, TotalOfOne
  <2> HIDE DEF R
  <2>4. Locked(S) = tpQty[p] - tpExec[p]
    BY <1>1, <2>1, <2>3
  <2> QED BY <1>2, <2>4 DEF Own
<1>3. CASE tp[p] # "open"
  <2>1. R = {}
    BY <1>3
  <2> QED BY <1>1, <1>3, <2>1, TotalOfNone DEF Own
<1> QED BY <1>2, <1>3

LEMMA StrikeTyped ==
    ASSUME struck \in [count : Nat, kinds : SUBSET AllFaults], NEW f, Strike(f)
    PROVE  /\ struck' \in [count : Nat, kinds : SUBSET AllFaults]
           /\ struck'.kinds = struck.kinds \cup {f}
  BY ExitAssumption DEF Strike

\* A refresh either shows the wallet of the next state, or is a fault.
LEMMA Refreshed ==
    ASSUME TypeOK, RefreshBalances, free' \in Nat,
           \A p \in Positions : tp'[p] = "open" => tpQty'[p] - tpExec'[p] \in Nat
    PROVE  \/ /\ cacheFree' = free' /\ cacheTotal' \in Nat
              /\ \A p \in Positions : cacheTotal' >= free' + Own(p)'
              /\ UNCHANGED struck
           \/ Strike("balance") /\ UNCHANGED <<cacheFree, cacheTotal>>
<1> DEFINE R == {p \in Positions : tp'[p] = "open"}
           T == Total(tpQty', tpExec', R)[R]
<1>1. Locked(Positions)' = T
  BY DEF Locked, MapThenSumSet, MapThenFoldSet, Total, Sums, Pick
<1>2. T \in Nat /\ \A p \in R : T >= tpQty'[p] - tpExec'[p]
  BY TotalOpen
<1>3. CASE cacheFree' = free' /\ cacheTotal' = free' + Locked(Positions)' /\ UNCHANGED struck
  <2>1. cacheTotal' = free' + T
    BY <1>1, <1>3
  <2>2. \A p \in Positions : Own(p)' = IF tp'[p] = "open" THEN tpQty'[p] - tpExec'[p] ELSE 0
    BY DEF Own
  <2>3. \A p \in Positions : Own(p)' <= T /\ Own(p)' \in Nat
    BY <1>2, <2>2
  <2> HIDE DEF T
  <2>4. \A p \in Positions : cacheTotal' >= free' + Own(p)'
    BY <1>2, <2>1, <2>3
  <2> QED BY <1>2, <1>3, <2>1, <2>4
<1>4. CASE Strike("balance") /\ UNCHANGED cache
  BY <1>4 DEF cache
<1> QED BY <1>3, <1>4 DEF RefreshBalances

-----------------------------------------------------------------------------
(* Typing, whatever the constants and the faults.                          *)

LEMMA TypedInit == Init => Typed
<1> SUFFICES ASSUME Init PROVE Typed
  OBVIOUS
<1>1. 1 \in Positions /\ 0 \in 0 .. Lots
  BY ExitAssumption DEF Positions
<1>2. TypeOK
  BY <1>1, ExitAssumption DEF Init, TypeOK, Live, NoData
<1>3. OrdersOK
  BY DEF Init, OrdersOK
<1> QED BY <1>2, <1>3 DEF Typed

\* The venue rests a sale of qty lots.
Holds(left, qty) == 0 < qty /\ qty <= left

\* What RestTakeProfit does when the sale of qty lots is placed with left lots
\* free, which it has made free by cancelling resting sales or found so.
Rests(left, qty) ==
    /\ bpc = "refreshed"
    /\ free <= left /\ (left # free => left = free + Locked(Cancellable))
    /\ Cancellable = {} => left = free /\ qty = Sellable(Lots) /\ UNCHANGED <<cache, struck>>
    /\ free' = IF Holds(left, qty) THEN left - qty ELSE left
    /\ \A p \in Positions :
          tp'[p] = CASE p = buy /\ Holds(left, qty) -> "open"
                     [] left # free /\ p \in Cancellable -> "Cancelled"
                     [] OTHER -> tp[p]
    /\ tp' \in [Positions -> {"none", "open", "Filled", "Cancelled"}]
    /\ tpQty' = IF Holds(left, qty) THEN [tpQty EXCEPT ![buy] = qty] ELSE tpQty
    /\ bpc' = IF Holds(left, qty) THEN "resting" ELSE "idle"
    /\ UNCHANGED <<tpExec, sold, book, row, buy, pc, todo, exit>>
    /\ \/ RefreshBalances
       \/ UNCHANGED <<cache, struck>> /\ left = free

LEMMA RestsShape ==
    ASSUME Typed, RestTakeProfit
    PROVE  \E left \in Nat, qty \in 0 .. Lots : Rests(left, qty)
<1> DEFINE short == cacheFree # NoData /\ cacheFree < Lots /\ Cancellable # {}
           left  == IF short THEN free + Locked(Cancellable) ELSE free
           qty   == IF short THEN IF left < Lots THEN left ELSE Lots ELSE Sellable(Lots)
           rests == 0 < qty /\ qty <= left
<1>0. Lots \in Nat
  BY ExitAssumption
<1>1. /\ free \in Nat /\ left \in Nat /\ free <= left
      /\ (short => left = free + Locked(Cancellable)) /\ (~short => left = free)
  BY LockedNat DEF Cancellable, Typed, TypeOK
<1>2. qty \in 0 .. Lots
  BY <1>0, <1>1 DEF Sellable, NoData, Typed, TypeOK
<1>3. short => left # free
  <2> SUFFICES ASSUME short PROVE left # free
    OBVIOUS
  <2>1. PICK p \in Cancellable : tp[p] = "open"
    BY DEF Cancellable
  <2>2. p \in Positions /\ Cancellable \in SUBSET Positions
    BY DEF Cancellable
  <2>3. Own(p) \in Nat /\ Own(p) > 0
    BY <2>1, <2>2 DEF Own, Typed, TypeOK, OrdersOK
  <2>4. Locked(Cancellable) >= Own(p) /\ Locked(Cancellable) \in Nat
    BY <2>1, <2>2, LockedNat
  <2> QED BY <1>1, <2>3, <2>4
<1>4. Cancellable = {} => ~short /\ left = free /\ qty = Sellable(Lots)
  OBVIOUS
<1>5. /\ bpc = "refreshed"
      /\ free' = IF rests THEN left - qty ELSE left
      /\ tp' = [p \in Positions |->
                   CASE p = buy /\ rests -> "open"
                     [] short /\ p \in Cancellable -> "Cancelled"
                     [] OTHER -> tp[p]]
      /\ tpQty' = IF rests THEN [tpQty EXCEPT ![buy] = qty] ELSE tpQty
      /\ bpc' = IF rests THEN "resting" ELSE "idle"
      /\ UNCHANGED <<tpExec, sold, book, row, buy, pc, todo, exit>>
      /\ IF short THEN RefreshBalances ELSE UNCHANGED <<cache, struck>>
  BY DEF RestTakeProfit
<1>6. tp \in [Positions -> {"none", "open", "Filled", "Cancelled"}]
  BY DEF Typed, TypeOK
<1> HIDE DEF short, left, qty
<1>7. short <=> left # free
  BY <1>1, <1>3
<1>8. tp' \in [Positions -> {"none", "open", "Filled", "Cancelled"}]
  BY <1>5, <1>6
<1>9. Rests(left, qty)
  BY <1>1, <1>4, <1>5, <1>6, <1>7, <1>8 DEF Rests, Holds
<1> QED BY <1>1, <1>2, <1>9

LEMMA RestsOrders ==
    ASSUME Typed, NEW left \in Nat, NEW qty \in 0 .. Lots,
           Rests(left, qty)
    PROVE  \A p \in Positions :
              \/ p # buy /\ tpQty'[p] = tpQty[p] /\ tp'[p] = tp[p]
              \/ p # buy /\ tpQty'[p] = tpQty[p] /\ tp[p] = "open" /\ tp'[p] = "Cancelled"
              \/ p = buy /\ ~Holds(left, qty) /\ tpQty'[p] = tpQty[p] /\ tp'[p] = "none"
              \/ p = buy /\ Holds(left, qty) /\ tpQty'[p] = qty /\ tp'[p] = "open"
<1>1. Lots \in Nat /\ tp[buy] = "none"
  BY ExitAssumption DEF Rests, Typed, OrdersOK
<1> QED BY <1>1 DEF Rests, Cancellable, Typed, TypeOK

LEMMA TypedStep == ASSUME Typed PROVE [Next]_vars => Typed'
<1> USE DEF Typed, TypeOK, OrdersOK, vars, orders, cache, book, buyer, exit
<1>0. Lots \in Nat \ {0} /\ NumPositions \in Nat \ {0}
  BY ExitAssumption
<1>1. ASSUME NEW p \in Positions, FillTakeProfit(p) PROVE Typed'
  BY <1>0, <1>1 DEF FillTakeProfit
<1>2. ASSUME NEW p \in Positions, ExternalCancel(p) PROVE Typed'
  BY <1>0, <1>2, StrikeTyped DEF ExternalCancel
<1>3. CASE ExternalSale
  BY <1>0, <1>3, StrikeTyped DEF ExternalSale
<1>4. CASE Restart
  BY <1>0, <1>4, StrikeTyped DEF Restart
<1>5. ASSUME NEW p \in Positions, BuyExecutes(p) PROVE Typed'
  BY <1>0, <1>5 DEF BuyExecutes
<1>6. CASE BuyBooked
  BY <1>0, <1>6 DEF BuyBooked
<1>7. CASE BuyRefreshed
  BY <1>0, <1>7, StrikeTyped, Refreshed DEF BuyRefreshed
<1>8. CASE RestTakeProfit
  <2>1. PICK left \in Nat, qty \in 0 .. Lots : Rests(left, qty)
    BY <1>8, RestsShape
  <2>2. tp[buy] = "none" /\ st[buy] # "none" /\ tpExec[buy] = 0
    BY <2>1 DEF Rests
  <2>3. free' \in Nat /\ tp' \in [Positions -> {"none", "open", "Filled", "Cancelled"}]
        /\ tpQty' \in [Positions -> 0 .. Lots] /\ bpc' \in {"resting", "idle"}
    BY <2>1, <2>2 DEF Rests, Holds
  <2>4. OrdersOK'
    <3>1. UNCHANGED <<tpExec, st, buy>>
      BY <2>1 DEF Rests
    <3> QED BY <1>0, <2>1, <2>2, <2>3, <3>1, RestsOrders DEF Holds
  <2>5. UNCHANGED <<cache, struck>> \/ (/\ cacheFree' \in Nat \cup {NoData}
                                       /\ cacheTotal' \in Nat \cup {NoData}
                                       /\ struck' \in [count : Nat, kinds : SUBSET AllFaults])
    BY <2>1, <2>3, <2>4, StrikeTyped, Refreshed DEF Rests
  <2> QED BY <2>1, <2>3, <2>4, <2>5 DEF Rests
<1>9. CASE TakeProfitSaved
  BY <1>0, <1>9, StrikeTyped, Refreshed DEF TakeProfitSaved, Live
<1>10. CASE BuyWriteFails
  BY <1>0, <1>10, StrikeTyped DEF BuyWriteFails
<1>11. CASE BeginCycle
  BY <1>0, <1>11, StrikeTyped, Refreshed DEF BeginCycle
<1>12. ASSUME NEW p \in Positions, CheckTakeProfit(p) PROVE Typed'
  BY <1>0, <1>12 DEF CheckTakeProfit, Live
<1>13. ASSUME NEW p \in Positions, CheckFails(p) PROVE Typed'
  BY <1>0, <1>13, StrikeTyped DEF CheckFails
<1>13a. ASSUME NEW p \in Positions, AnsweredAsFilled(p) PROVE Typed'
  BY <1>0, <1>13a, StrikeTyped DEF AnsweredAsFilled
<1>14. CASE BookFill
  BY <1>0, <1>14 DEF BookFill, Close
<1>15. CASE MarkFilled
  BY <1>0, <1>15 DEF MarkFilled
<1>16. CASE FillWriteFails
  BY <1>0, <1>16, StrikeTyped DEF FillWriteFails
<1>17. CASE BeginPositions
  BY <1>0, <1>17 DEF BeginPositions
<1>18. ASSUME NEW p \in Positions, HoldPosition(p) PROVE Typed'
  BY <1>0, <1>18 DEF HoldPosition
<1>19. ASSUME NEW p \in Positions, TriggerExit(p) PROVE Typed'
  BY <1>0, <1>19 DEF TriggerExit
<1>20. CASE ExitCancel
  BY <1>0, <1>20, LockedNat DEF ExitCancel, Cancellable
<1>21. CASE ExitCancelFails
  BY <1>0, <1>21, StrikeTyped DEF ExitCancelFails
<1>22. CASE ExitRefresh
  BY <1>0, <1>22, StrikeTyped, Refreshed DEF ExitRefresh
<1>23. CASE ExitRefused
  BY <1>0, <1>23 DEF ExitRefused, ExitReturns
<1>24. ASSUME NEW k \in 0 .. Lots, ExitExecutes(k) PROVE Typed'
  BY <1>0, <1>24, StrikeTyped DEF ExitExecutes, ExitReturns, Sellable, NoData
<1>25. CASE ExitBooked
  BY <1>0, <1>25, StrikeTyped, Refreshed DEF ExitBooked, ExitReturns, Close
<1>26. CASE ExitWriteFails
  BY <1>0, <1>26, StrikeTyped DEF ExitWriteFails, ExitReturns
<1>27. CASE SecondExit
  BY <1>0, <1>27 DEF SecondExit
<1>28. CASE Validate
  BY <1>0, <1>28 DEF Validate
<1>29. CASE SkipValidate
  BY <1>0, <1>29 DEF SkipValidate
<1>30. CASE EndCycle
  BY <1>0, <1>30 DEF EndCycle
<1>31. CASE UNCHANGED vars
  BY <1>31
<1> QED
  BY <1>1, <1>2, <1>3, <1>4, <1>5, <1>6, <1>7, <1>8, <1>9, <1>10, <1>11, <1>12, <1>13, <1>13a, <1>14, <1>15, <1>16, <1>17, <1>18, <1>19, <1>20, <1>21, <1>22, <1>23, <1>24, <1>25, <1>26, <1>27, <1>28, <1>29, <1>30, <1>31 DEF Next, Monitor, Buyer, Environment

-----------------------------------------------------------------------------
(* The phases of the two threads, for one position at a time.              *)

Exiting == {"exitCancel", "exitRefresh", "exitSend", "exitBook", "again"}

\* The loop does nothing else while it buys; at most one position is open, and
\* an exit is of that one; a position not yet open has no past.
PhaseOK ==
    /\ pc # "signals" => bpc = "idle"
    /\ \A p, q \in Positions : st[p] = "OPEN" /\ st[q] = "OPEN" => p = q
    /\ bpc = "bought" => st[buy] = "bought" /\ \A p \in Positions : st[p] # "OPEN"
    /\ bpc \in {"booked", "refreshed", "resting"} => st[buy] = "OPEN"
    /\ bpc = "resting" => row[buy] = "none" /\ tp[buy] # "none"
    /\ pc = "positions" => \A p \in todo : st[p] = "OPEN"
    /\ pc \in Exiting =>
          /\ todo = {}
          /\ st[cur] \in {"OPEN", "CLOSED"}
          /\ \A p \in Positions : st[p] = "OPEN" => p = cur
    /\ pc = "orders" => \A p \in todo : row[p] \in Live
    /\ pc \in {"bookFill", "markFilled"} =>
          /\ tp[cur] = "Filled" /\ row[cur] \in Live /\ cur \notin todo
          /\ \A p \in todo : row[p] \in Live
    /\ \A p \in Positions :
          /\ st[p] \in {"none", "bought"} =>
                tp[p] = "none" /\ sold[p] = 0 /\ remaining[p] = 0 /\ priced[p] = 0
          /\ tp[p] = "none" => row[p] = "none"

Phases == Typed /\ PhaseOK

LEMMA PhasesInit == Init => Phases
<1>1. Init => PhaseOK
  BY DEF Init, PhaseOK, Exiting, Live
<1> QED BY <1>1, TypedInit DEF Phases

\* With nothing open, the loop may buy; otherwise not.
LEMMA NothingOpen ==
    ASSUME Alone, NEW p \in Positions, BuyExecutes(p)
    PROVE  \A q \in Positions : st[q] # "OPEN"
<1> DEFINE O == {q \in Positions : st[q] = "OPEN"}
<1>1. IsFiniteSet(Positions)
  BY ExitAssumption, FS_Interval DEF Positions
<1>2. IsFiniteSet(O) /\ Cardinality(O) < 1
  <2>1. O \in SUBSET Positions
    OBVIOUS
  <2>2. IsFiniteSet(O)
    <3> HIDE DEF O
    <3> QED BY <1>1, <2>1, FS_Subset
  <2>3. Cardinality(O) < MaxOpen
    BY DEF BuyExecutes
  <2>4. Cardinality(O) \in Nat
    <3> HIDE DEF O
    <3> QED BY <2>2, FS_CardinalityType
  <2> HIDE DEF O
  <2> QED BY <2>2, <2>3, <2>4, ExitAssumption DEF Alone
<1>3. O = {}
  <2> HIDE DEF O
  <2> QED BY <1>2, FS_CardinalityType, FS_EmptySet
<1> QED BY <1>3

LEMMA PhaseStep == ASSUME Alone, Phases PROVE [Next]_vars => PhaseOK'
<1> USE DEF Phases, Typed, TypeOK, OrdersOK, PhaseOK, Exiting,
            vars, orders, cache, book, buyer, exit
<1>1. ASSUME NEW p \in Positions, FillTakeProfit(p) PROVE PhaseOK'
  BY <1>1 DEF FillTakeProfit
<1>2. ASSUME NEW p \in Positions, ExternalCancel(p) PROVE PhaseOK'
  BY <1>2 DEF ExternalCancel
<1>3. CASE ExternalSale
  BY <1>3 DEF ExternalSale
<1>4. CASE Restart
  BY <1>4 DEF Restart
<1>5. ASSUME NEW p \in Positions, BuyExecutes(p) PROVE PhaseOK'
  <2>1. /\ pc = "signals" /\ bpc' = "bought" /\ buy' = p /\ st[p] = "none"
        /\ st' = [st EXCEPT ![p] = "bought"]
        /\ UNCHANGED <<orders, sold, remaining, priced, row, pc, todo, exit>>
    BY <1>5 DEF BuyExecutes, Alone
  <2>2. \A q \in Positions : st'[q] # "OPEN"
    BY <1>5, <2>1, NothingOpen
  <2> QED BY <2>1, <2>2
<1>6. CASE BuyBooked
  BY <1>6 DEF BuyBooked
<1>7. CASE BuyRefreshed
  BY <1>7 DEF BuyRefreshed
<1>8. CASE RestTakeProfit
  <2>1. PICK left \in Nat, qty \in 0 .. Lots : Rests(left, qty)
    BY <1>8, RestsShape
  <2>2. /\ pc = "signals" /\ bpc = "refreshed" /\ pc' = pc
        /\ UNCHANGED <<st, row, buy, todo, cur, sold, remaining, priced>>
        /\ bpc' \in {"idle", "resting"} /\ (bpc' = "resting" => Holds(left, qty))
    BY <2>1 DEF Rests
  <2>3. st[buy] = "OPEN" /\ tp[buy] = "none" /\ row[buy] = "none"
    BY <2>2
  <2>4. \A p \in Positions : tp'[p] = "none" => tp[p] = "none"
    BY <2>1, <2>3, RestsOrders
  <2>5. \A p \in Positions : tp[p] = "none" /\ p # buy => tp'[p] = "none"
    BY <2>1, <2>3, RestsOrders
  <2>6. Holds(left, qty) => tp'[buy] = "open"
    BY <2>1, <2>3, RestsOrders
  <2> QED BY <2>2, <2>3, <2>4, <2>5, <2>6
<1>9. CASE TakeProfitSaved
  BY <1>9 DEF TakeProfitSaved, Live
<1>10. CASE BuyWriteFails
  BY <1>10 DEF BuyWriteFails
<1>11. CASE BeginCycle
  BY <1>11 DEF BeginCycle
<1>12. ASSUME NEW p \in Positions, CheckTakeProfit(p) PROVE PhaseOK'
  BY <1>12 DEF CheckTakeProfit, Live
<1>13. ASSUME NEW p \in Positions, CheckFails(p) PROVE PhaseOK'
  BY <1>13 DEF CheckFails
<1>13a. ASSUME NEW p \in Positions, AnsweredAsFilled(p) PROVE PhaseOK'
  BY <1>13a DEF AnsweredAsFilled
<1>14. CASE BookFill
  BY <1>14 DEF BookFill, Close
<1>15. CASE MarkFilled
  BY <1>15 DEF MarkFilled
<1>16. CASE FillWriteFails
  BY <1>16 DEF FillWriteFails
<1>17. CASE BeginPositions
  BY <1>17 DEF BeginPositions
<1>18. ASSUME NEW p \in Positions, HoldPosition(p) PROVE PhaseOK'
  BY <1>18 DEF HoldPosition
<1>19. ASSUME NEW p \in Positions, TriggerExit(p) PROVE PhaseOK'
  BY <1>19 DEF TriggerExit
<1>20. CASE ExitCancel
  BY <1>20 DEF ExitCancel, Cancellable
<1>21. CASE ExitCancelFails
  BY <1>21 DEF ExitCancelFails
<1>22. CASE ExitRefresh
  BY <1>22 DEF ExitRefresh
<1>23. CASE ExitRefused
  BY <1>23 DEF ExitRefused, ExitReturns
<1>24. ASSUME NEW k \in 0 .. Lots, ExitExecutes(k) PROVE PhaseOK'
  BY <1>24 DEF ExitExecutes, ExitReturns
<1>25. CASE ExitBooked
  BY <1>25 DEF ExitBooked, ExitReturns, Close
<1>26. CASE ExitWriteFails
  BY <1>26 DEF ExitWriteFails, ExitReturns
<1>27. CASE SecondExit
  BY <1>27 DEF SecondExit
<1>28. CASE Validate
  BY <1>28 DEF Validate
<1>29. CASE SkipValidate
  BY <1>29 DEF SkipValidate
<1>30. CASE EndCycle
  BY <1>30 DEF EndCycle, Alone
<1>31. CASE UNCHANGED vars
  BY <1>31
<1> QED
  BY <1>1, <1>2, <1>3, <1>4, <1>5, <1>6, <1>7, <1>8, <1>9, <1>10, <1>11, <1>12, <1>13, <1>13a, <1>14, <1>15, <1>16, <1>17, <1>18, <1>19, <1>20, <1>21, <1>22, <1>23, <1>24, <1>25, <1>26, <1>27, <1>28, <1>29, <1>30, <1>31 DEF Next, Monitor, Buyer, Environment

LEMMA PhasesStep == ASSUME Alone, Phases PROVE [Next]_vars => Phases'
  BY TypedStep, PhaseStep DEF Phases

\* Faults add up: what has been spared after a step was spared before it.
LEMMA SparedBefore ==
    ASSUME Typed, [Next]_vars, NEW K, Spared(K)'
    PROVE  Spared(K)
<1> DEFINE Grown == struck.kinds \subseteq struck'.kinds
<1> SUFFICES Grown
  BY DEF Spared
<1>0. ASSUME NEW f, Strike(f) PROVE Grown
  BY <1>0, StrikeTyped DEF Typed, TypeOK
<1> USE <1>0 DEF vars, RefreshBalances
<1>1. ASSUME NEW p \in Positions, FillTakeProfit(p) PROVE Grown
  BY <1>1 DEF FillTakeProfit
<1>2. ASSUME NEW p \in Positions, ExternalCancel(p) PROVE Grown
  BY <1>2 DEF ExternalCancel
<1>3. CASE ExternalSale
  BY <1>3 DEF ExternalSale
<1>4. CASE Restart
  BY <1>4 DEF Restart
<1>5. ASSUME NEW p \in Positions, BuyExecutes(p) PROVE Grown
  BY <1>5 DEF BuyExecutes
<1>6. CASE BuyBooked
  BY <1>6 DEF BuyBooked
<1>7. CASE BuyRefreshed
  BY <1>7 DEF BuyRefreshed
<1>8. CASE RestTakeProfit
  BY <1>8 DEF RestTakeProfit
<1>9. CASE TakeProfitSaved
  BY <1>9 DEF TakeProfitSaved, Live
<1>10. CASE BuyWriteFails
  BY <1>10 DEF BuyWriteFails
<1>11. CASE BeginCycle
  BY <1>11 DEF BeginCycle
<1>12. ASSUME NEW p \in Positions, CheckTakeProfit(p) PROVE Grown
  BY <1>12 DEF CheckTakeProfit, Live
<1>13. ASSUME NEW p \in Positions, CheckFails(p) PROVE Grown
  BY <1>13 DEF CheckFails
<1>13a. ASSUME NEW p \in Positions, AnsweredAsFilled(p) PROVE Grown
  BY <1>13a DEF AnsweredAsFilled
<1>14. CASE BookFill
  BY <1>14 DEF BookFill, Close
<1>15. CASE MarkFilled
  BY <1>15 DEF MarkFilled
<1>16. CASE FillWriteFails
  BY <1>16 DEF FillWriteFails
<1>17. CASE BeginPositions
  BY <1>17 DEF BeginPositions
<1>18. ASSUME NEW p \in Positions, HoldPosition(p) PROVE Grown
  BY <1>18 DEF HoldPosition
<1>19. ASSUME NEW p \in Positions, TriggerExit(p) PROVE Grown
  BY <1>19 DEF TriggerExit
<1>20. CASE ExitCancel
  BY <1>20 DEF ExitCancel
<1>21. CASE ExitCancelFails
  BY <1>21 DEF ExitCancelFails
<1>22. CASE ExitRefresh
  BY <1>22 DEF ExitRefresh
<1>23. CASE ExitRefused
  BY <1>23 DEF ExitRefused, ExitReturns
<1>24. ASSUME NEW k \in 0 .. Lots, ExitExecutes(k) PROVE Grown
  BY <1>24 DEF ExitExecutes, ExitReturns
<1>25. CASE ExitBooked
  BY <1>25 DEF ExitBooked, ExitReturns, Close
<1>26. CASE ExitWriteFails
  BY <1>26 DEF ExitWriteFails, ExitReturns
<1>27. CASE SecondExit
  BY <1>27 DEF SecondExit
<1>28. CASE Validate
  BY <1>28 DEF Validate
<1>29. CASE SkipValidate
  BY <1>29 DEF SkipValidate
<1>30. CASE EndCycle
  BY <1>30 DEF EndCycle
<1>31. CASE UNCHANGED vars
  BY <1>31
<1> QED
  BY <1>1, <1>2, <1>3, <1>4, <1>5, <1>6, <1>7, <1>8, <1>9, <1>10, <1>11, <1>12, <1>13, <1>13a, <1>14, <1>15, <1>16, <1>17, <1>18, <1>19, <1>20, <1>21, <1>22, <1>23, <1>24, <1>25, <1>26, <1>27, <1>28, <1>29, <1>30, <1>31 DEF Next, Monitor, Buyer, Environment

-----------------------------------------------------------------------------
(* Until a write fails, the process crashes or the owner trades by hand, an  *)
(* exit can reach what its position has left, whatever the balances say.     *)

Unreached == {"db", "crash", "external"}

\* Every resting order has a live row, or is being saved.
RowOK ==
    \A p \in Positions : tp[p] = "open" => row[p] \in Live \/ (bpc = "resting" /\ buy = p)

\* The lots of the open position are free or locked by its own order.
ReachOK ==
    /\ \A p \in Positions : st[p] = "OPEN" => Lots - tpExec[p] - sold[p] <= free + Own(p)
    /\ bpc = "bought" => Lots <= free

ReachInv == Spared(Unreached) => RowOK /\ ReachOK

LEMMA ReachInit == Init => ReachInv
  BY DEF Init, ReachInv, RowOK, ReachOK

LEMMA ReachStep ==
    ASSUME Alone, Phases, Phases', RowOK, ReachOK, Spared(Unreached)'
    PROVE  [Next]_vars => RowOK' /\ ReachOK'
<1> SUFFICES ASSUME [Next]_vars PROVE RowOK' /\ ReachOK'
  OBVIOUS
<1>0. Lots \in Nat \ {0}
  BY ExitAssumption
<1>s. ASSUME NEW f, Strike(f) PROVE f \notin Unreached
  BY <1>s, StrikeTyped DEF Spared, Phases, Typed, TypeOK
<1> USE <1>0 DEF Phases, Typed, TypeOK, OrdersOK, PhaseOK, Exiting, RowOK, ReachOK, Own,
                 vars, orders, cache, book, buyer, exit
<1>1. ASSUME NEW p \in Positions, FillTakeProfit(p) PROVE RowOK' /\ ReachOK'
  BY <1>1 DEF FillTakeProfit
<1>2. ASSUME NEW p \in Positions, ExternalCancel(p) PROVE RowOK' /\ ReachOK'
  BY <1>2, <1>s DEF ExternalCancel, Unreached
<1>3. CASE ExternalSale
  BY <1>3, <1>s DEF ExternalSale, Unreached
<1>4. CASE Restart
  BY <1>4, <1>s DEF Restart, Unreached
<1>5. ASSUME NEW p \in Positions, BuyExecutes(p) PROVE RowOK' /\ ReachOK'
  BY <1>5, NothingOpen DEF BuyExecutes
<1>6. CASE BuyBooked
  BY <1>6 DEF BuyBooked
<1>7. CASE BuyRefreshed
  BY <1>7 DEF BuyRefreshed
<1>8. CASE RestTakeProfit
  <2>1. PICK left \in Nat, qty \in 0 .. Lots : Rests(left, qty)
    BY <1>8, RestsShape
  <2>2. /\ UNCHANGED <<tpExec, st, sold, row, buy>> /\ free <= left
        /\ free' = (IF Holds(left, qty) THEN left - qty ELSE left)
        /\ bpc' = (IF Holds(left, qty) THEN "resting" ELSE "idle")
        /\ bpc = "refreshed"
    BY <2>1 DEF Rests
  <2>3. st[buy] = "OPEN" /\ tp[buy] = "none" /\ tpExec[buy] = 0
    BY <2>2
  <2>4. \A p \in Positions : tp'[p] = "open" => tp[p] = "open" \/ (p = buy /\ Holds(left, qty))
    BY <2>1, <2>3, RestsOrders
  <2>5. Holds(left, qty) => tp'[buy] = "open" /\ tpQty'[buy] = qty
    BY <2>1, <2>3, RestsOrders
  <2>6. RowOK'
    BY <2>2, <2>4
  <2>7. \A p \in Positions : st[p] = "OPEN" => p = buy
    BY <2>3
  <2>8. Lots - tpExec[buy] - sold[buy] <= left
    BY <2>2, <2>3
  <2>9. CASE Holds(left, qty)
    BY <2>2, <2>3, <2>5, <2>6, <2>7, <2>8, <2>9
  <2>10. CASE ~Holds(left, qty)
    BY <2>2, <2>3, <2>6, <2>7, <2>8, <2>10
  <2> QED BY <2>9, <2>10
<1>9. CASE TakeProfitSaved
  BY <1>9 DEF TakeProfitSaved, Live
<1>10. CASE BuyWriteFails
  BY <1>10, <1>s DEF BuyWriteFails, Unreached
<1>11. CASE BeginCycle
  BY <1>11 DEF BeginCycle
<1>12. ASSUME NEW p \in Positions, CheckTakeProfit(p) PROVE RowOK' /\ ReachOK'
  BY <1>12 DEF CheckTakeProfit, Live
<1>13. ASSUME NEW p \in Positions, CheckFails(p) PROVE RowOK' /\ ReachOK'
  BY <1>13 DEF CheckFails
<1>13a. ASSUME NEW p \in Positions, AnsweredAsFilled(p) PROVE RowOK' /\ ReachOK'
  BY <1>13a DEF AnsweredAsFilled
<1>14. CASE BookFill
  BY <1>14 DEF BookFill, Close
<1>15. CASE MarkFilled
  BY <1>15 DEF MarkFilled
<1>16. CASE FillWriteFails
  BY <1>16, <1>s DEF FillWriteFails, Unreached
<1>17. CASE BeginPositions
  BY <1>17 DEF BeginPositions
<1>18. ASSUME NEW p \in Positions, HoldPosition(p) PROVE RowOK' /\ ReachOK'
  BY <1>18 DEF HoldPosition
<1>19. ASSUME NEW p \in Positions, TriggerExit(p) PROVE RowOK' /\ ReachOK'
  BY <1>19 DEF TriggerExit
<1>20. CASE ExitCancel
  BY <1>20, LockedNat DEF ExitCancel, Cancellable
<1>21. CASE ExitCancelFails
  BY <1>21 DEF ExitCancelFails
<1>22. CASE ExitRefresh
  BY <1>22 DEF ExitRefresh
<1>23. CASE ExitRefused
  BY <1>23 DEF ExitRefused, ExitReturns
<1>24. ASSUME NEW k \in 0 .. Lots, ExitExecutes(k) PROVE RowOK' /\ ReachOK'
  BY <1>24 DEF ExitExecutes, ExitReturns
<1>25. CASE ExitBooked
  BY <1>25 DEF ExitBooked, ExitReturns, Close
<1>26. CASE ExitWriteFails
  BY <1>26, <1>s DEF ExitWriteFails, Unreached
<1>27. CASE SecondExit
  BY <1>27 DEF SecondExit
<1>28. CASE Validate
  BY <1>28 DEF Validate
<1>29. CASE SkipValidate
  BY <1>29 DEF SkipValidate
<1>30. CASE EndCycle
  BY <1>30 DEF EndCycle
<1>31. CASE UNCHANGED vars
  BY <1>31
<1> QED
  BY <1>1, <1>2, <1>3, <1>4, <1>5, <1>6, <1>7, <1>8, <1>9, <1>10, <1>11, <1>12, <1>13, <1>13a, <1>14, <1>15, <1>16, <1>17, <1>18, <1>19, <1>20, <1>21, <1>22, <1>23, <1>24, <1>25, <1>26, <1>27, <1>28, <1>29, <1>30, <1>31 DEF Next, Monitor, Buyer, Environment

-----------------------------------------------------------------------------
(* Until a balance request or a write fails or the process crashes, nothing  *)
(* of a position is sold or booked twice.                                    *)

Unbounded == {"balance", "db", "crash"}

\* The wallet holds no more than the open position has left to sell and to
\* book, and nothing when none is open; a resting or filled TAKE_PROFIT order
\* of it has taken all of it; a fill still to be booked finds a position with
\* something remaining.
BoundOK ==
    /\ \A p \in Positions :
          /\ tp[p] = "open" => st[p] = "OPEN"
          /\ st[p] = "OPEN" =>
                /\ tp[p] \in {"open", "Filled"} => free = 0
                /\ free + Own(p) <= Lots - tpExec[p] - sold[p]
                /\ remaining[p] >= 1 /\ free + Own(p) <= remaining[p]
          /\ priced[p] + remaining[p] <= Lots /\ tpExec[p] + sold[p] <= Lots
          /\ row[p] \in Live /\ tp[p] = "Filled" =>
                (pc = "markFilled" /\ cur = p) \/ remaining[p] >= 1
    /\ bpc = "bought" => free <= Lots
    /\ (\A p \in Positions : st[p] # "OPEN") /\ bpc # "bought" => free = 0

\* But while a purchase is being booked, the cached balances show at least
\* what the position holds, or nothing available at all.
CacheOK ==
    bpc \notin {"bought", "booked"} =>
        \A p \in Positions :
          /\ cacheFree \in {NoData, 0} \/ cacheFree >= free + Own(p)
          /\ cacheTotal = NoData \/ cacheTotal >= free + Own(p)

\* An exit offers all that is free, and what it books remains to be booked.
SaleOK ==
    /\ pc \in Exiting /\ st[cur] = "OPEN" => remaining[cur] <= loaded
    /\ pc = "exitBook" =>
          /\ 0 < done /\ done <= sent /\ sent <= remaining[cur]
          /\ free <= sent - done
          /\ st[cur] = "OPEN" /\ tp[cur] \in {"none", "Cancelled"}

Bound == BoundOK /\ CacheOK /\ SaleOK

BoundInv == Spared(Unbounded) => Bound

LEMMA BoundInit == Init => BoundInv
<1> SUFFICES ASSUME Init PROVE Bound
  BY DEF BoundInv
<1>1. Lots \in Nat
  BY ExitAssumption
<1> QED BY <1>1 DEF Init, Bound, BoundOK, CacheOK, SaleOK, Exiting, Live, Own, NoData

LEMMA BoundStep ==
    ASSUME Alone, Phases, Phases', Bound, Spared(Unbounded)'
    PROVE  [Next]_vars => Bound'
<1> SUFFICES ASSUME [Next]_vars PROVE Bound'
  OBVIOUS
<1>0. Lots \in Nat \ {0} /\ Lots <= 100
  BY ExitAssumption DEF Alone
<1>s. ASSUME NEW f, Strike(f) PROVE f \notin Unbounded
  BY <1>s, StrikeTyped DEF Spared, Phases, Typed, TypeOK
<1>c. ASSUME NEW p \in Cancellable, \A q \in Cancellable : q = p
      PROVE  Locked(Cancellable) = Own(p)
  <2>1. Cancellable \in SUBSET Positions
    BY DEF Cancellable
  <2> QED BY <1>c, <2>1, LockedOne DEF Phases
<1> USE <1>0 DEF Phases, Typed, TypeOK, OrdersOK, PhaseOK, Exiting, Bound, BoundOK, CacheOK, SaleOK,
                 Own, NoData, vars, orders, cache, book, buyer, exit
<1>1. ASSUME NEW p \in Positions, FillTakeProfit(p) PROVE Bound'
  BY <1>1 DEF FillTakeProfit
<1>2. ASSUME NEW p \in Positions, ExternalCancel(p) PROVE Bound'
  BY <1>2 DEF ExternalCancel
<1>3. CASE ExternalSale
  <2>1. free > 0 /\ free' = free - 1
        /\ UNCHANGED <<orders, sold, cache, book, row, buyer, pc, todo, exit>>
    BY <1>3 DEF ExternalSale
  <2>2. BoundOK'
    BY <2>1
  <2>3. CacheOK'
    BY <2>1
  <2>4. SaleOK'
    BY <2>1
  <2> QED BY <2>2, <2>3, <2>4
<1>4. CASE Restart
  BY <1>4, <1>s DEF Restart, Unbounded
<1>5. ASSUME NEW p \in Positions, BuyExecutes(p) PROVE Bound'
  BY <1>5, NothingOpen DEF BuyExecutes
<1>6. CASE BuyBooked
  <2>1. /\ st[buy] = "bought" /\ tp[buy] = "none" /\ sold[buy] = 0 /\ priced[buy] = 0
        /\ tpExec[buy] = 0 /\ row[buy] = "none" /\ pc = "signals"
    BY <1>6 DEF BuyBooked
  <2>2. /\ \A p \in Positions : st[p] # "OPEN"
        /\ st' = [st EXCEPT ![buy] = "OPEN"] /\ remaining' = [remaining EXCEPT ![buy] = Lots]
        /\ UNCHANGED <<free, orders, sold, priced, row, pc, cur>>
        /\ free <= Lots /\ bpc' = "booked"
    BY <1>6 DEF BuyBooked
  <2>4. BoundOK'
    <3> SUFFICES ASSUME NEW p \in Positions
                 PROVE  /\ tp'[p] = "open" => st'[p] = "OPEN"
                        /\ st'[p] = "OPEN" =>
                              /\ tp'[p] \in {"open", "Filled"} => free' = 0
                              /\ free' + Own(p)' <= Lots - tpExec'[p] - sold'[p]
                              /\ remaining'[p] >= 1 /\ free' + Own(p)' <= remaining'[p]
                        /\ priced'[p] + remaining'[p] <= Lots /\ tpExec'[p] + sold'[p] <= Lots
                        /\ row'[p] \in Live /\ tp'[p] = "Filled" =>
                              (pc' = "markFilled" /\ cur' = p) \/ remaining'[p] >= 1
      BY <2>1, <2>2
    <3>1. CASE p = buy
      BY <2>1, <2>2, <3>1 DEF Live
    <3>2. CASE p # buy
      BY <2>1, <2>2, <3>2
    <3> QED BY <3>1, <3>2
  <2>3. CacheOK' /\ SaleOK'
    BY <1>6, <2>1 DEF BuyBooked
  <2> QED BY <2>3, <2>4
<1>7. CASE BuyRefreshed
  <2>1. UNCHANGED <<orders, free>>
    BY <1>7 DEF BuyRefreshed
  <2>2. /\ cacheFree' = free /\ cacheTotal' \in Nat
        /\ \A p \in Positions : cacheTotal' >= free + Own(p)
    BY <1>7, <1>s, <2>1, Refreshed DEF BuyRefreshed, Unbounded
  <2> QED BY <1>7, <2>1, <2>2 DEF BuyRefreshed
<1>8. CASE RestTakeProfit
  <2>1. PICK left \in Nat, qty \in 0 .. Lots : Rests(left, qty)
    BY <1>8, RestsShape
  <2>2. st[buy] = "OPEN" /\ tp[buy] = "none" /\ tpExec[buy] = 0
    BY <2>1 DEF Rests
  <2>3. Cancellable = {}
    BY <2>2 DEF Cancellable
  <2>4. /\ UNCHANGED <<tpExec, st, sold, row, buy, remaining, priced, pc, cur, loaded, sent, done, cache>>
        /\ qty = Sellable(Lots) /\ bpc = "refreshed" /\ bpc' \in {"idle", "resting"}
        /\ free' = (IF Holds(left, qty) THEN free - qty ELSE free) /\ left = free
    BY <2>1, <2>3 DEF Rests
  <2>5. \A p \in Positions : p # buy => st[p] # "OPEN" /\ tp'[p] = tp[p]
    BY <2>1, <2>2, RestsOrders
  <2>6. CASE Holds(left, qty)
    <3>1. tp'[buy] = "open" /\ tpQty'[buy] = qty
      BY <2>1, <2>2, <2>6, RestsOrders
    <3>2. free <= Lots /\ (cacheFree \in {NoData, 0} \/ free <= cacheFree)
      BY <2>2, <2>4
    <3>3. 0 < qty /\ qty <= free /\ (qty = Lots \/ (qty = cacheFree /\ cacheFree # NoData))
      BY <2>4, <2>6 DEF Holds, Sellable
    <3>4. free' = 0 /\ qty = free
      BY <2>4, <2>6, <3>2, <3>3
    <3> QED BY <2>2, <2>4, <2>5, <3>1, <3>4
  <2>7. CASE ~Holds(left, qty)
    <3>1. tp'[buy] = "none"
      BY <2>1, <2>2, <2>7, RestsOrders
    <3> QED BY <2>2, <2>4, <2>5, <2>7, <3>1
  <2> QED BY <2>6, <2>7
<1>9. CASE TakeProfitSaved
  <2>1. UNCHANGED <<orders, free>>
    BY <1>9 DEF TakeProfitSaved
  <2>2. /\ cacheFree' = free /\ cacheTotal' \in Nat
        /\ \A p \in Positions : cacheTotal' >= free + Own(p)
    BY <1>9, <1>s, <2>1, Refreshed DEF TakeProfitSaved, Unbounded
  <2> QED BY <1>9, <2>1, <2>2 DEF TakeProfitSaved, Live
<1>10. CASE BuyWriteFails
  BY <1>10, <1>s DEF BuyWriteFails, Unbounded
<1>11. CASE BeginCycle
  <2>1. UNCHANGED <<orders, free>>
    BY <1>11 DEF BeginCycle
  <2>2. /\ cacheFree' = free /\ cacheTotal' \in Nat
        /\ \A p \in Positions : cacheTotal' >= free + Own(p)
    BY <1>11, <1>s, <2>1, Refreshed DEF BeginCycle, Unbounded
  <2> QED BY <1>11, <2>1, <2>2 DEF BeginCycle
<1>12. ASSUME NEW p \in Positions, CheckTakeProfit(p) PROVE Bound'
  BY <1>12 DEF CheckTakeProfit, Live
<1>13. ASSUME NEW p \in Positions, CheckFails(p) PROVE Bound'
  BY <1>13 DEF CheckFails
<1>13a. ASSUME NEW p \in Positions, AnsweredAsFilled(p) PROVE Bound'
  BY <1>13a DEF AnsweredAsFilled
<1>14. CASE BookFill
  BY <1>14 DEF BookFill, Close
<1>15. CASE MarkFilled
  BY <1>15 DEF MarkFilled, Live
<1>16. CASE FillWriteFails
  BY <1>16, <1>s DEF FillWriteFails, Unbounded
<1>17. CASE BeginPositions
  BY <1>17 DEF BeginPositions
<1>18. ASSUME NEW p \in Positions, HoldPosition(p) PROVE Bound'
  BY <1>18 DEF HoldPosition
<1>19. ASSUME NEW p \in Positions, TriggerExit(p) PROVE Bound'
  BY <1>19 DEF TriggerExit
<1>20. CASE ExitCancel
  <2>1. \A p \in Cancellable : p = cur /\ tp[p] = "open"
    BY <1>20 DEF ExitCancel, Cancellable
  <2>2. CASE Cancellable = {}
    BY <1>20, <2>2 DEF ExitCancel
  <2>3. CASE cur \in Cancellable
    <3>1. Cancellable \in SUBSET Positions
      BY DEF Cancellable
    <3>2. Locked(Cancellable) = Own(cur)
      BY <1>c, <2>1, <2>3
    <3>3. tp[cur] = "open" /\ Own(cur) = tpQty[cur] - tpExec[cur] /\ st[cur] = "OPEN" /\ free = 0
      BY <2>1, <2>3
    <3>4. CASE UNCHANGED <<free, tp>> /\ pc' = "exitSend"
      BY <1>20, <3>4 DEF ExitCancel
    <3>5. CASE free' = Own(cur) /\ pc' = "exitRefresh"
      <4>1. tp' = [p \in Positions |-> IF p \in Cancellable THEN "Cancelled" ELSE tp[p]]
            /\ UNCHANGED <<tpQty, tpExec, sold, cache, book, row, buyer, todo, exit>>
            /\ pc = "exitCancel"
        BY <1>20, <3>5 DEF ExitCancel
      <4>2. \A p \in Positions : tp'[p] = (IF p = cur THEN "Cancelled" ELSE tp[p])
        BY <2>1, <2>3, <3>1, <4>1
      <4>3. BoundOK'
        BY <1>20, <3>3, <3>5, <4>1, <4>2
      <4>4. CacheOK'
        BY <1>20, <3>3, <3>5, <4>1, <4>2
      <4>5. SaleOK'
        BY <3>5, <4>1
      <4> QED BY <4>3, <4>4, <4>5
    <3>6. \/ UNCHANGED <<free, tp>> /\ pc' = "exitSend"
          \/ free' = free + Locked(Cancellable) /\ pc' = "exitRefresh"
      BY <1>20 DEF ExitCancel
    <3>7. free + Locked(Cancellable) = Own(cur)
      <4> HIDE DEF Own
      <4>1. Own(cur) \in Int
        BY <3>3
      <4> QED BY <3>2, <3>3, <4>1
    <3> HIDE DEF Bound, Own
    <3> QED BY <3>4, <3>5, <3>6, <3>7
  <2>4. Cancellable = {} \/ cur \in Cancellable
    BY <2>1
  <2> HIDE DEF Bound
  <2> QED BY <2>2, <2>3, <2>4
<1>21. CASE ExitCancelFails
  BY <1>21 DEF ExitCancelFails
<1>22. CASE ExitRefresh
  <2>1. UNCHANGED <<orders, free>>
    BY <1>22 DEF ExitRefresh
  <2>2. /\ cacheFree' = free /\ cacheTotal' \in Nat
        /\ \A p \in Positions : cacheTotal' >= free + Own(p)
    BY <1>22, <1>s, <2>1, Refreshed DEF ExitRefresh, Unbounded
  <2> QED BY <1>22, <2>1, <2>2 DEF ExitRefresh
<1>23. CASE ExitRefused
  BY <1>23 DEF ExitRefused, ExitReturns
<1>24. ASSUME NEW k \in 0 .. Lots, ExitExecutes(k) PROVE Bound'
  BY <1>24 DEF ExitExecutes, ExitReturns, Sellable
<1>25. CASE ExitBooked
  <2>1. UNCHANGED <<orders, free>>
    BY <1>25 DEF ExitBooked
  <2>2. /\ cacheFree' = free /\ cacheTotal' \in Nat
        /\ \A p \in Positions : cacheTotal' >= free + Own(p)
    BY <1>25, <1>s, <2>1, Refreshed DEF ExitBooked, Unbounded
  <2> QED BY <1>25, <2>1, <2>2 DEF ExitBooked, ExitReturns, Close
<1>26. CASE ExitWriteFails
  BY <1>26, <1>s DEF ExitWriteFails, Unbounded
<1>27. CASE SecondExit
  BY <1>27 DEF SecondExit
<1>28. CASE Validate
  BY <1>28 DEF Validate, Gone
<1>29. CASE SkipValidate
  BY <1>29 DEF SkipValidate
<1>30. CASE EndCycle
  BY <1>30 DEF EndCycle
<1>31. CASE UNCHANGED vars
  BY <1>31
<1> QED
  BY <1>1, <1>2, <1>3, <1>4, <1>5, <1>6, <1>7, <1>8, <1>9, <1>10, <1>11, <1>12, <1>13, <1>13a, <1>14, <1>15, <1>16, <1>17, <1>18, <1>19, <1>20, <1>21, <1>22, <1>23, <1>24, <1>25, <1>26, <1>27, <1>28, <1>29, <1>30, <1>31 DEF Next, Monitor, Buyer, Environment

-----------------------------------------------------------------------------
(* If the owner does not trade by hand either, what is booked was sold.      *)

Unsold == {"balance", "db", "crash", "external"}

\* A filled TAKE_PROFIT order and the exits of its position have sold all of
\* it, and profit is booked for what was sold.
SoldOK ==
    /\ \A p \in Positions :
          /\ priced[p] <= tpExec[p] + sold[p]
          /\ tp[p] = "Filled" => tpExec[p] + sold[p] >= Lots
    /\ pc = "exitBook" => priced[cur] + done <= tpExec[cur] + sold[cur]

SoldInv == Spared(Unsold) => SoldOK

LEMMA SoldInit == Init => SoldInv
<1>1. Lots \in Nat
  BY ExitAssumption
<1> QED BY <1>1 DEF Init, SoldInv, SoldOK

LEMMA SoldStep ==
    ASSUME Alone, Phases, Phases', Bound, ReachOK, SoldOK, Spared(Unsold)'
    PROVE  [Next]_vars => SoldOK'
<1> SUFFICES ASSUME [Next]_vars PROVE SoldOK'
  OBVIOUS
<1>0. Lots \in Nat \ {0}
  BY ExitAssumption
<1>s. ASSUME NEW f, Strike(f) PROVE f \notin Unsold
  BY <1>s, StrikeTyped DEF Spared, Phases, Typed, TypeOK
<1> USE <1>0 DEF Phases, Typed, TypeOK, OrdersOK, PhaseOK, Exiting, SoldOK,
                 vars, orders, cache, book, buyer, exit
<1>1. ASSUME NEW p \in Positions, FillTakeProfit(p) PROVE SoldOK'
  BY <1>1 DEF FillTakeProfit, Bound, BoundOK, ReachOK, Own
<1>2. ASSUME NEW p \in Positions, ExternalCancel(p) PROVE SoldOK'
  BY <1>2, <1>s DEF ExternalCancel, Unsold
<1>3. CASE ExternalSale
  BY <1>3, <1>s DEF ExternalSale, Unsold
<1>4. CASE Restart
  BY <1>4, <1>s DEF Restart, Unsold
<1>5. ASSUME NEW p \in Positions, BuyExecutes(p) PROVE SoldOK'
  BY <1>5 DEF BuyExecutes
<1>6. CASE BuyBooked
  BY <1>6 DEF BuyBooked
<1>7. CASE BuyRefreshed
  BY <1>7 DEF BuyRefreshed
<1>8. CASE RestTakeProfit
  <2>1. PICK left \in Nat, qty \in 0 .. Lots : Rests(left, qty)
    BY <1>8, RestsShape
  <2>2. UNCHANGED <<priced, tpExec, sold, pc, cur, done>> /\ tp[buy] = "none"
    BY <2>1 DEF Rests
  <2>3. \A p \in Positions : tp'[p] = "Filled" => tp[p] = "Filled"
    <3> HIDE DEF Phases, Typed, PhaseOK
    <3>1. Typed
      BY DEF Phases
    <3>2. \A p \in Positions : tp'[p] \in {tp[p], "Cancelled", "none", "open"}
      BY <2>1, <2>2, <3>1, RestsOrders
    <3> QED BY <3>2
  <2> QED BY <2>2, <2>3
<1>9. CASE TakeProfitSaved
  BY <1>9 DEF TakeProfitSaved, Live
<1>10. CASE BuyWriteFails
  BY <1>10, <1>s DEF BuyWriteFails, Unsold
<1>11. CASE BeginCycle
  BY <1>11 DEF BeginCycle
<1>12. ASSUME NEW p \in Positions, CheckTakeProfit(p) PROVE SoldOK'
  BY <1>12 DEF CheckTakeProfit, Live
<1>13. ASSUME NEW p \in Positions, CheckFails(p) PROVE SoldOK'
  BY <1>13 DEF CheckFails
<1>13a. ASSUME NEW p \in Positions, AnsweredAsFilled(p) PROVE SoldOK'
  BY <1>13a DEF AnsweredAsFilled
<1>14. CASE BookFill
  BY <1>14 DEF BookFill, Close, Bound, BoundOK, Live
<1>15. CASE MarkFilled
  BY <1>15 DEF MarkFilled
<1>16. CASE FillWriteFails
  BY <1>16, <1>s DEF FillWriteFails, Unsold
<1>17. CASE BeginPositions
  BY <1>17 DEF BeginPositions
<1>18. ASSUME NEW p \in Positions, HoldPosition(p) PROVE SoldOK'
  BY <1>18 DEF HoldPosition
<1>19. ASSUME NEW p \in Positions, TriggerExit(p) PROVE SoldOK'
  BY <1>19 DEF TriggerExit
<1>20. CASE ExitCancel
  BY <1>20 DEF ExitCancel, Cancellable
<1>21. CASE ExitCancelFails
  BY <1>21 DEF ExitCancelFails
<1>22. CASE ExitRefresh
  BY <1>22 DEF ExitRefresh
<1>23. CASE ExitRefused
  BY <1>23 DEF ExitRefused, ExitReturns
<1>24. ASSUME NEW k \in 0 .. Lots, ExitExecutes(k) PROVE SoldOK'
  BY <1>24 DEF ExitExecutes, ExitReturns
<1>25. CASE ExitBooked
  <2>1. /\ pc = "exitBook" /\ pc' \in {"again", "positions"} /\ UNCHANGED <<orders, sold>>
        /\ \/ done < sent /\ priced' = [priced EXCEPT ![cur] = @ + done]
           \/ done = sent /\ Close(cur)
    BY <1>25 DEF ExitBooked, ExitReturns
  <2>2. CASE done < sent
    BY <2>1, <2>2
  <2>3. CASE done = sent
    <3>0. st[cur] = "OPEN" /\ tp[cur] \in {"none", "Cancelled"} /\ free <= 0
      BY <2>1, <2>3 DEF Bound, SaleOK
    <3>a. Own(cur) = 0
      BY <3>0 DEF Own
    <3>b. Lots - tpExec[cur] - sold[cur] <= free
      BY <3>0, <3>a DEF ReachOK
    <3>c. priced[cur] + remaining[cur] <= Lots /\ remaining[cur] >= 1
      BY <3>0 DEF Bound, BoundOK
    <3>1. /\ Lots <= tpExec[cur] + sold[cur] /\ priced[cur] + remaining[cur] <= Lots
          /\ remaining[cur] # 0
      BY <3>0, <3>b, <3>c
    <3>2. priced' = [priced EXCEPT ![cur] = @ + remaining[cur]]
      BY <2>1, <2>3, <3>1 DEF Close
    <3> QED BY <2>1, <3>1, <3>2
  <2> QED BY <2>1, <2>2, <2>3
<1>26. CASE ExitWriteFails
  BY <1>26, <1>s DEF ExitWriteFails, Unsold
<1>27. CASE SecondExit
  BY <1>27 DEF SecondExit
<1>28. CASE Validate
  BY <1>28 DEF Validate
<1>29. CASE SkipValidate
  BY <1>29 DEF SkipValidate
<1>30. CASE EndCycle
  BY <1>30 DEF EndCycle
<1>31. CASE UNCHANGED vars
  BY <1>31
<1> QED
  BY <1>1, <1>2, <1>3, <1>4, <1>5, <1>6, <1>7, <1>8, <1>9, <1>10, <1>11, <1>12, <1>13, <1>13a, <1>14, <1>15, <1>16, <1>17, <1>18, <1>19, <1>20, <1>21, <1>22, <1>23, <1>24, <1>25, <1>26, <1>27, <1>28, <1>29, <1>30, <1>31 DEF Next, Monitor, Buyer, Environment

-----------------------------------------------------------------------------
(* Fills, whatever the constants: until the open-order endpoint answers with a *)
(* filled order, one that is marked filled was booked before.                 *)

\* What is booked and what remains make up the position, once there is one; an
\* order has a row once it was sent, and is booked before its row is marked.
PricedOK ==
    /\ \A p \in Positions :
          /\ \/ priced[p] + remaining[p] >= Lots
             \/ st[p] \in {"none", "bought"} /\ remaining[p] = 0
          /\ tp[p] = "none" => row[p] = "none"
    /\ bpc = "resting" => tp[buy] # "none"
    /\ pc \in {"bookFill", "markFilled"} => tp[cur] = "Filled"
    /\ pc = "markFilled" => st[cur] = "CLOSED" /\ priced[cur] >= Lots

Marked == \A p \in Positions : row[p] = "Filled" => st[p] = "CLOSED" /\ priced[p] >= Lots

PricedInv == Typed /\ PricedOK /\ (Spared({"openTerminal"}) => Marked)

\* No order is forgotten, and a filled one stays filled.
LEMMA RestsKeeps ==
    ASSUME Typed, NEW left \in Nat, NEW qty \in 0 .. Lots, Rests(left, qty)
    PROVE  \A p \in Positions : /\ tp'[p] = "none" => tp[p] = "none"
                                /\ tp[p] = "Filled" => tp'[p] = "Filled"
<1>1. tp[buy] = "none"
  BY DEF Rests, Typed, OrdersOK
<1> QED BY <1>1 DEF Rests, Cancellable, Typed, TypeOK

LEMMA PricedInit == Init => PricedInv
  BY TypedInit DEF Init, PricedInv, PricedOK, Marked

LEMMA PricedStep == ASSUME Typed, Typed', PricedOK PROVE [Next]_vars => PricedOK'
<1> SUFFICES ASSUME [Next]_vars PROVE PricedOK'
  OBVIOUS
<1>0. Lots \in Nat \ {0}
  BY ExitAssumption
<1>r. ASSUME RestTakeProfit PROVE PricedOK'
  <2>1. PICK left \in Nat, qty \in 0 .. Lots : Rests(left, qty)
    BY <1>r, RestsShape
  <2>2. \A p \in Positions : /\ tp'[p] = "none" => tp[p] = "none"
                             /\ tp[p] = "Filled" => tp'[p] = "Filled"
    BY <2>1, RestsKeeps
  <2>3. /\ UNCHANGED <<st, remaining, priced, row, buy, pc, cur>>
        /\ bpc' = "resting" => tp'[buy] # "none"
    BY <2>1 DEF Rests, book, exit, Typed, TypeOK
  <2>4. cur \in Positions
    BY DEF Typed, TypeOK
  <2> QED BY <2>2, <2>3, <2>4 DEF PricedOK
<1> USE <1>0 DEF Typed, TypeOK, OrdersOK, PricedOK, vars, orders, cache, book, buyer, exit
<1>1. ASSUME NEW p \in Positions, FillTakeProfit(p) PROVE PricedOK'
  BY <1>1 DEF FillTakeProfit
<1>2. ASSUME NEW p \in Positions, ExternalCancel(p) PROVE PricedOK'
  BY <1>2 DEF ExternalCancel
<1>3. CASE ExternalSale
  BY <1>3 DEF ExternalSale
<1>4. CASE Restart
  BY <1>4 DEF Restart
<1>5. ASSUME NEW p \in Positions, BuyExecutes(p) PROVE PricedOK'
  BY <1>5 DEF BuyExecutes
<1>6. CASE BuyBooked
  BY <1>6 DEF BuyBooked
<1>7. CASE BuyRefreshed
  BY <1>7 DEF BuyRefreshed
<1>8. CASE RestTakeProfit
  BY <1>8, <1>r
<1>9. CASE TakeProfitSaved
  BY <1>9 DEF TakeProfitSaved, Live
<1>10. CASE BuyWriteFails
  BY <1>10 DEF BuyWriteFails
<1>11. CASE BeginCycle
  BY <1>11 DEF BeginCycle
<1>12. ASSUME NEW p \in Positions, CheckTakeProfit(p) PROVE PricedOK'
  BY <1>12 DEF CheckTakeProfit, Live
<1>13. ASSUME NEW p \in Positions, CheckFails(p) PROVE PricedOK'
  BY <1>13 DEF CheckFails
<1>14. ASSUME NEW p \in Positions, AnsweredAsFilled(p) PROVE PricedOK'
  BY <1>14 DEF AnsweredAsFilled
<1>15. CASE BookFill
  BY <1>15 DEF BookFill, Close
<1>16. CASE MarkFilled
  BY <1>16 DEF MarkFilled
<1>17. CASE FillWriteFails
  BY <1>17 DEF FillWriteFails
<1>18. CASE BeginPositions
  BY <1>18 DEF BeginPositions
<1>19. ASSUME NEW p \in Positions, HoldPosition(p) PROVE PricedOK'
  BY <1>19 DEF HoldPosition
<1>20. ASSUME NEW p \in Positions, TriggerExit(p) PROVE PricedOK'
  BY <1>20 DEF TriggerExit
<1>21. CASE ExitCancel
  BY <1>21 DEF ExitCancel, Cancellable
<1>22. CASE ExitCancelFails
  BY <1>22 DEF ExitCancelFails
<1>23. CASE ExitRefresh
  BY <1>23 DEF ExitRefresh
<1>24. CASE ExitRefused
  BY <1>24 DEF ExitRefused, ExitReturns
<1>25. ASSUME NEW k \in 0 .. Lots, ExitExecutes(k) PROVE PricedOK'
  BY <1>25 DEF ExitExecutes, ExitReturns
<1>26. CASE ExitBooked
  BY <1>26 DEF ExitBooked, ExitReturns, Close
<1>27. CASE ExitWriteFails
  BY <1>27 DEF ExitWriteFails, ExitReturns
<1>28. CASE SecondExit
  BY <1>28 DEF SecondExit
<1>29. CASE Validate
  BY <1>29 DEF Validate
<1>30. CASE SkipValidate
  BY <1>30 DEF SkipValidate
<1>31. CASE EndCycle
  BY <1>31 DEF EndCycle
<1>32. CASE UNCHANGED vars
  BY <1>32
<1> QED
  BY <1>1, <1>2, <1>3, <1>4, <1>5, <1>6, <1>7, <1>8, <1>9, <1>10, <1>11, <1>12, <1>13, <1>14, <1>15, <1>16, <1>17, <1>18, <1>19, <1>20, <1>21, <1>22, <1>23, <1>24, <1>25, <1>26, <1>27, <1>28, <1>29, <1>30, <1>31, <1>32 DEF Next, Monitor, Buyer, Environment

LEMMA MarkedStep ==
    ASSUME Typed, Typed', PricedOK, Marked, Spared({"openTerminal"})'
    PROVE  [Next]_vars => Marked'
<1> SUFFICES ASSUME [Next]_vars PROVE Marked'
  OBVIOUS
<1>0. Lots \in Nat \ {0}
  BY ExitAssumption
<1>s. ASSUME NEW f, Strike(f) PROVE f # "openTerminal"
  BY <1>s, StrikeTyped DEF Spared, Typed, TypeOK
<1> USE <1>0 DEF Typed, TypeOK, OrdersOK, PricedOK, Marked,
                 vars, orders, cache, book, buyer, exit
<1>1. ASSUME NEW p \in Positions, FillTakeProfit(p) PROVE Marked'
  BY <1>1 DEF FillTakeProfit
<1>2. ASSUME NEW p \in Positions, ExternalCancel(p) PROVE Marked'
  BY <1>2 DEF ExternalCancel
<1>3. CASE ExternalSale
  BY <1>3 DEF ExternalSale
<1>4. CASE Restart
  BY <1>4 DEF Restart
<1>5. ASSUME NEW p \in Positions, BuyExecutes(p) PROVE Marked'
  BY <1>5 DEF BuyExecutes
<1>6. CASE BuyBooked
  BY <1>6 DEF BuyBooked
<1>7. CASE BuyRefreshed
  BY <1>7 DEF BuyRefreshed
<1>8. CASE RestTakeProfit
  BY <1>8 DEF RestTakeProfit
<1>9. CASE TakeProfitSaved
  BY <1>9 DEF TakeProfitSaved, Live
<1>10. CASE BuyWriteFails
  BY <1>10 DEF BuyWriteFails
<1>11. CASE BeginCycle
  BY <1>11 DEF BeginCycle
<1>12. ASSUME NEW p \in Positions, CheckTakeProfit(p) PROVE Marked'
  BY <1>12 DEF CheckTakeProfit, Live
<1>13. ASSUME NEW p \in Positions, CheckFails(p) PROVE Marked'
  BY <1>13 DEF CheckFails
<1>14. ASSUME NEW p \in Positions, AnsweredAsFilled(p) PROVE Marked'
  BY <1>14, <1>s DEF AnsweredAsFilled
<1>15. CASE BookFill
  BY <1>15 DEF BookFill, Close
<1>16. CASE MarkFilled
  BY <1>16 DEF MarkFilled
<1>17. CASE FillWriteFails
  BY <1>17 DEF FillWriteFails
<1>18. CASE BeginPositions
  BY <1>18 DEF BeginPositions
<1>19. ASSUME NEW p \in Positions, HoldPosition(p) PROVE Marked'
  BY <1>19 DEF HoldPosition
<1>20. ASSUME NEW p \in Positions, TriggerExit(p) PROVE Marked'
  BY <1>20 DEF TriggerExit
<1>21. CASE ExitCancel
  BY <1>21 DEF ExitCancel, Cancellable
<1>22. CASE ExitCancelFails
  BY <1>22 DEF ExitCancelFails
<1>23. CASE ExitRefresh
  BY <1>23 DEF ExitRefresh
<1>24. CASE ExitRefused
  BY <1>24 DEF ExitRefused, ExitReturns
<1>25. ASSUME NEW k \in 0 .. Lots, ExitExecutes(k) PROVE Marked'
  BY <1>25 DEF ExitExecutes, ExitReturns
<1>26. CASE ExitBooked
  BY <1>26 DEF ExitBooked, ExitReturns, Close
<1>27. CASE ExitWriteFails
  BY <1>27 DEF ExitWriteFails, ExitReturns
<1>28. CASE SecondExit
  BY <1>28 DEF SecondExit
<1>29. CASE Validate
  BY <1>29 DEF Validate
<1>30. CASE SkipValidate
  BY <1>30 DEF SkipValidate
<1>31. CASE EndCycle
  BY <1>31 DEF EndCycle
<1>32. CASE UNCHANGED vars
  BY <1>32
<1> QED
  BY <1>1, <1>2, <1>3, <1>4, <1>5, <1>6, <1>7, <1>8, <1>9, <1>10, <1>11, <1>12, <1>13, <1>14, <1>15, <1>16, <1>17, <1>18, <1>19, <1>20, <1>21, <1>22, <1>23, <1>24, <1>25, <1>26, <1>27, <1>28, <1>29, <1>30, <1>31, <1>32 DEF Next, Monitor, Buyer, Environment

\* A TAKE_PROFIT order that is marked filled was booked, for every value of the
\* constants and under every fault, until the open-order endpoint has answered
\* with a filled order.
THEOREM FillsPricedAlways == Spec => []FillsPriced
<1>1. PricedInv /\ [Next]_vars => PricedInv'
  <2> SUFFICES ASSUME PricedInv, [Next]_vars PROVE PricedInv'
    OBVIOUS
  <2>1. Typed' /\ PricedOK'
    BY TypedStep, PricedStep DEF PricedInv
  <2>2. ASSUME Spared({"openTerminal"})' PROVE Marked'
    <3>1. Spared({"openTerminal"})
      BY <2>2, SparedBefore DEF PricedInv
    <3> QED BY <2>1, <2>2, <3>1, MarkedStep DEF PricedInv
  <2> QED BY <2>1, <2>2 DEF PricedInv
<1>2. PricedInv => FillsPriced
  <2>1. Lots \in Nat
    BY ExitAssumption
  <2> QED BY <2>1 DEF PricedInv, Typed, TypeOK, FillsPriced, FilledIsBooked, Booked, Marked
<1> QED BY PricedInit, <1>1, <1>2, PTL DEF Spec

-----------------------------------------------------------------------------
(* Validation, whatever the constants: until a balance request or a write    *)
(* fails, the cached total is no less than what the account holds, but while *)
(* a purchase is being booked.                                               *)

LockSum(t, Q, E, S) == LET R == {p \in S : t[p] = "open"} IN Total(Q, E, R)[R]

LEMMA LockedIsSum == \A S : Locked(S) = LockSum(tp, tpQty, tpExec, S)
  BY DEF Locked, MapThenSumSet, MapThenFoldSet, Total, Sums, Pick, LockSum

LEMMA LockSumOne ==
    ASSUME NEW t, NEW Q, NEW E, NEW y, Q[y] - E[y] \in Int
    PROVE  LockSum(t, Q, E, {y}) = IF t[y] = "open" THEN Q[y] - E[y] ELSE 0
<1>1. CASE t[y] = "open"
  <2>1. {p \in {y} : t[p] = "open"} = {y}
    BY <1>1
  <2>2. Total(Q, E, {y})[{y}] = Q[y] - E[y]
    BY TotalOfOne
  <2> QED BY <1>1, <2>1, <2>2 DEF LockSum
<1>2. CASE t[y] # "open"
  <2>1. {p \in {y} : t[p] = "open"} = {}
    BY <1>2
  <2> QED BY <1>2, <2>1, TotalOfNone DEF LockSum
<1> QED BY <1>1, <1>2

\* Orders outside A that stay as they are lock what they locked.
LEMMA LockShift ==
    ASSUME NEW t, NEW Q, NEW E, NEW t2, NEW Q2, NEW E2, NEW A \in SUBSET Positions,
           \A p \in Positions : Q[p] - E[p] \in Int /\ Q2[p] - E2[p] \in Int,
           \A p \in Positions \ A :
              /\ t2[p] = "open" <=> t[p] = "open"
              /\ t[p] = "open" => Q2[p] - E2[p] = Q[p] - E[p]
    PROVE  \E rest \in Int :
              /\ LockSum(t, Q, E, Positions) = LockSum(t, Q, E, A) + rest
              /\ LockSum(t2, Q2, E2, Positions) = LockSum(t2, Q2, E2, A) + rest
              /\ LockSum(t, Q, E, A) \in Int /\ LockSum(t2, Q2, E2, A) \in Int
<1> DEFINE R  == {p \in Positions : t[p] = "open"}
           R2 == {p \in Positions : t2[p] = "open"}
           B  == {p \in A : t[p] = "open"}
           B2 == {p \in A : t2[p] = "open"}
           N  == R \ B
<1>1. IsFiniteSet(Positions)
  BY ExitAssumption, FS_Interval DEF Positions
<1>2. /\ R \in SUBSET Positions /\ R2 \in SUBSET Positions
      /\ B \in SUBSET R /\ B2 \in SUBSET R2
      /\ R2 \ B2 = N /\ N \in SUBSET R /\ N \in SUBSET R2
      /\ \A p \in N : Q2[p] - E2[p] = Q[p] - E[p]
  OBVIOUS
<1>3. /\ LockSum(t, Q, E, Positions) = Total(Q, E, R)[R]
      /\ LockSum(t2, Q2, E2, Positions) = Total(Q2, E2, R2)[R2]
      /\ LockSum(t, Q, E, A) = Total(Q, E, B)[B]
      /\ LockSum(t2, Q2, E2, A) = Total(Q2, E2, B2)[B2]
  BY DEF LockSum
<1> HIDE DEF R, R2, B, B2, N
<1>4. /\ IsFiniteSet(R) /\ IsFiniteSet(R2) /\ IsFiniteSet(B) /\ IsFiniteSet(B2) /\ IsFiniteSet(N)
      /\ \A p \in R : Q[p] - E[p] \in Int
      /\ \A p \in R2 : Q2[p] - E2[p] \in Int
  <2>1. \A X \in SUBSET Positions : IsFiniteSet(X)
    BY <1>1, FS_Subset
  <2> QED BY <1>2, <2>1
<1>5. Total(Q, E, R)[R] = Total(Q, E, B)[B] + Total(Q, E, N)[N]
  BY <1>2, <1>4, TotalSplit DEF N
<1>6. Total(Q2, E2, R2)[R2] = Total(Q2, E2, B2)[B2] + Total(Q2, E2, N)[N]
  <2>1. Total(Q2, E2, R2)[R2] = Total(Q2, E2, B2)[B2] + Total(Q2, E2, R2 \ B2)[R2 \ B2]
    BY <1>2, <1>4, TotalSplit
  <2> QED BY <1>2, <2>1
<1>7. Total(Q2, E2, N)[N] = Total(Q, E, N)[N]
  <2>1. N \in SUBSET N
    OBVIOUS
  <2> QED BY <1>2, <1>4, <2>1, TotalAgree
<1>8. Total(Q, E, N)[N] \in Int
  <2>1. N \in SUBSET N /\ \A p \in N : Q[p] - E[p] \in Int
    BY <1>2, <1>4
  <2> QED BY <1>4, <2>1, TotalRemove
<1>9. Total(Q, E, B)[B] \in Int
  <2>1. B \in SUBSET B /\ \A p \in B : Q[p] - E[p] \in Int
    BY <1>2, <1>4
  <2> QED BY <1>4, <2>1, TotalRemove
<1>10. Total(Q2, E2, B2)[B2] \in Int
  <2>1. B2 \in SUBSET B2 /\ \A p \in B2 : Q2[p] - E2[p] \in Int
    BY <1>2, <1>4
  <2> QED BY <1>4, <2>1, TotalRemove
<1> QED BY <1>3, <1>5, <1>6, <1>7, <1>8, <1>9, <1>10

\* What the account holds of the symbol.
Wealth == free + LockSum(tp, tpQty, tpExec, Positions)

Kept ==
    bpc \notin {"bought", "booked"} => cacheTotal = NoData \/ Wealth <= cacheTotal

KeptInv == Spared({"balance", "db"}) => Kept

LEMMA KeptInit == Init => KeptInv
  BY DEF Init, KeptInv, Kept

\* But for a purchase, no step makes the account hold more.
LEMMA WealthShrinks ==
    ASSUME Typed, Typed', [Next]_vars, \A p \in Positions : ~BuyExecutes(p)
    PROVE  Wealth' <= Wealth /\ Wealth \in Int /\ Wealth' \in Int
<1>0. /\ \A p \in Positions : tpQty[p] - tpExec[p] \in Int /\ tpQty'[p] - tpExec'[p] \in Int
      /\ free \in Int /\ free' \in Int
  BY ExitAssumption DEF Typed, TypeOK
<1> DEFINE L(A)  == LockSum(tp, tpQty, tpExec, A)
           L2(A) == LockSum(tp', tpQty', tpExec', A)
           Shift(A) == \E rest \in Int :
                          /\ L(Positions) = L(A) + rest /\ L2(Positions) = L2(A) + rest
                          /\ L(A) \in Int /\ L2(A) \in Int
<1>w. Wealth = free + L(Positions) /\ Wealth' = free' + L2(Positions)
  BY DEF Wealth
<1>a. ASSUME NEW A \in SUBSET Positions,
             \A p \in Positions \ A :
                /\ tp'[p] = "open" <=> tp[p] = "open"
                /\ tp[p] = "open" => tpQty'[p] - tpExec'[p] = tpQty[p] - tpExec[p]
      PROVE  Shift(A)
  BY <1>0, <1>a, LockShift
<1>b. \A y \in Positions :
         /\ L({y}) = IF tp[y] = "open" THEN tpQty[y] - tpExec[y] ELSE 0
         /\ L2({y}) = IF tp'[y] = "open" THEN tpQty'[y] - tpExec'[y] ELSE 0
  BY <1>0, LockSumOne
<1>c. L({}) = 0 /\ L2({}) = 0
  <2>1. {p \in {} : tp[p] = "open"} = {} /\ {p \in {} : tp'[p] = "open"} = {}
    OBVIOUS
  <2> QED BY <2>1, TotalOfNone DEF LockSum
<1> HIDE DEF L, L2
<1>d. Shift({}) => L2(Positions) = L(Positions) /\ L(Positions) \in Int
  BY <1>c
<1>e. ASSUME UNCHANGED orders, free' <= free
      PROVE  Wealth' <= Wealth /\ Wealth \in Int /\ Wealth' \in Int
  <2>1. Shift({})
    BY <1>a, <1>e DEF orders
  <2> QED BY <1>0, <1>d, <1>e, <1>w, <2>1
<1>f. ASSUME NEW A \in SUBSET Positions, Shift(A), free' + L2(A) <= free + L(A)
      PROVE  Wealth' <= Wealth /\ Wealth \in Int /\ Wealth' \in Int
  BY <1>0, <1>f, <1>w
<1> HIDE DEF Shift
<1>1. ASSUME NEW p \in Positions, FillTakeProfit(p) PROVE Wealth' <= Wealth /\ Wealth \in Int /\ Wealth' \in Int
  <2>1. Shift({p})
    BY <1>1, <1>a DEF FillTakeProfit, Typed, TypeOK
  <2>2. free' = free /\ L2({p}) <= L({p})
    BY <1>1, <1>b, ExitAssumption DEF FillTakeProfit, Typed, TypeOK, OrdersOK
  <2>3. L({p}) \in Int /\ L2({p}) \in Int
    BY <1>0, <1>b
  <2> QED BY <1>0, <1>f, <2>1, <2>2, <2>3
<1>2. ASSUME NEW p \in Positions, ExternalCancel(p) PROVE Wealth' <= Wealth /\ Wealth \in Int /\ Wealth' \in Int
  <2>1. Shift({p})
    BY <1>2, <1>a DEF ExternalCancel, Typed, TypeOK
  <2>2. free' = free + tpQty[p] - tpExec[p] /\ L2({p}) = 0 /\ L({p}) = tpQty[p] - tpExec[p]
    BY <1>2, <1>b DEF ExternalCancel, Typed, TypeOK
  <2>3. tpQty[p] \in Int /\ tpExec[p] \in Int
    BY ExitAssumption DEF Typed, TypeOK
  <2> QED BY <1>0, <1>f, <2>1, <2>2, <2>3
<1>3. CASE ExternalSale
  BY <1>3, <1>0, <1>e DEF ExternalSale
<1>4. CASE Restart
  BY <1>4, <1>0, <1>e DEF Restart
<1>5. ASSUME NEW p \in Positions, BuyExecutes(p) PROVE Wealth' <= Wealth /\ Wealth \in Int /\ Wealth' \in Int
  BY <1>5
<1>6. CASE BuyBooked
  BY <1>6, <1>0, <1>e DEF BuyBooked
<1>7. CASE BuyRefreshed
  BY <1>7, <1>0, <1>e DEF BuyRefreshed
<1>8. CASE RestTakeProfit
  <2>1. PICK left \in Nat, qty \in 0 .. Lots : Rests(left, qty)
    BY <1>8, RestsShape
  <2>2. /\ tp[buy] = "none" /\ buy \in Positions /\ UNCHANGED tpExec /\ tpExec[buy] = 0
        /\ qty \in Int /\ Cancellable \in SUBSET Positions /\ buy \notin Cancellable
        /\ \A p \in Cancellable : tp[p] = "open"
    BY <2>1, ExitAssumption DEF Rests, Typed, TypeOK, OrdersOK, Cancellable
  <2>3. /\ free' = (IF Holds(left, qty) THEN left - qty ELSE left)
        /\ Holds(left, qty) => tp'[buy] = "open" /\ tpQty'[buy] = qty
        /\ ~Holds(left, qty) => tp'[buy] = "none"
    BY <2>1, <2>2, RestsOrders DEF Rests
  <2>4. CASE left = free
    <3>1. \A p \in Positions \ {buy} : tp'[p] = tp[p] /\ tpQty'[p] = tpQty[p]
      BY <2>1, <2>2, <2>4, RestsOrders DEF Rests
    <3>2. Shift({buy})
      BY <1>a, <2>2, <3>1
    <3>3. L({buy}) = 0 /\ L2({buy}) = (IF Holds(left, qty) THEN qty ELSE 0)
      BY <1>b, <2>2, <2>3
    <3>4. free' + L2({buy}) <= free + L({buy})
      BY <1>0, <2>2, <2>3, <2>4, <3>3
    <3> QED BY <1>f, <2>2, <3>2, <3>4
  <2>5. CASE left # free
    <3> DEFINE A == Cancellable \cup {buy}
    <3>1. \A p \in Positions : p \in Cancellable => tp'[p] = "Cancelled"
      BY <2>1, <2>2, <2>5 DEF Rests
    <3>2. \A p \in Positions \ A : tp'[p] = tp[p] /\ tpQty'[p] = tpQty[p]
      BY <2>1, <2>2, RestsOrders DEF Rests
    <3>3. A \in SUBSET Positions
      BY <2>2
    <3>4. Shift(A)
      BY <1>a, <2>2, <3>2, <3>3
    <3>5. L(A) = Locked(Cancellable) /\ Locked(Cancellable) \in Int
      <4>1. {p \in A : tp[p] = "open"} = {p \in Cancellable : tp[p] = "open"}
        BY <2>2
      <4>2. L(A) = L(Cancellable)
        BY <4>1 DEF L, LockSum
      <4> QED BY <2>2, <4>2, LockedIsSum, LockedNat DEF L
    <3>6. L2(A) = (IF Holds(left, qty) THEN qty ELSE 0)
      <4>1. {p \in A : tp'[p] = "open"} = {p \in {buy} : tp'[p] = "open"}
        BY <2>2, <3>1
      <4>2. L2(A) = L2({buy})
        BY <4>1 DEF L2, LockSum
      <4>3. L2({buy}) = (IF Holds(left, qty) THEN qty ELSE 0)
        BY <1>b, <2>2, <2>3
      <4> QED BY <4>2, <4>3
    <3>7. left = free + L(A)
      BY <2>1, <2>5, <3>5 DEF Rests
    <3>8. free' + L2(A) <= free + L(A)
      BY <1>0, <2>2, <2>3, <3>5, <3>6, <3>7
    <3> HIDE DEF A
    <3> QED BY <1>f, <3>3, <3>4, <3>8
  <2> QED BY <2>4, <2>5
<1>9. CASE TakeProfitSaved
  BY <1>9, <1>0, <1>e DEF TakeProfitSaved
<1>10. CASE BuyWriteFails
  BY <1>10, <1>0, <1>e DEF BuyWriteFails
<1>11. CASE BeginCycle
  BY <1>11, <1>0, <1>e DEF BeginCycle
<1>12. ASSUME NEW p \in Positions, CheckTakeProfit(p) PROVE Wealth' <= Wealth /\ Wealth \in Int /\ Wealth' \in Int
  BY <1>12, <1>0, <1>e DEF CheckTakeProfit
<1>13. ASSUME NEW p \in Positions, CheckFails(p) PROVE Wealth' <= Wealth /\ Wealth \in Int /\ Wealth' \in Int
  BY <1>13, <1>0, <1>e DEF CheckFails
<1>13a. ASSUME NEW p \in Positions, AnsweredAsFilled(p) PROVE Wealth' <= Wealth /\ Wealth \in Int /\ Wealth' \in Int
  BY <1>13a, <1>0, <1>e DEF AnsweredAsFilled
<1>14. CASE BookFill
  BY <1>14, <1>0, <1>e DEF BookFill
<1>15. CASE MarkFilled
  BY <1>15, <1>0, <1>e DEF MarkFilled
<1>16. CASE FillWriteFails
  BY <1>16, <1>0, <1>e DEF FillWriteFails
<1>17. CASE BeginPositions
  BY <1>17, <1>0, <1>e DEF BeginPositions
<1>18. ASSUME NEW p \in Positions, HoldPosition(p) PROVE Wealth' <= Wealth /\ Wealth \in Int /\ Wealth' \in Int
  BY <1>18, <1>0, <1>e DEF HoldPosition
<1>19. ASSUME NEW p \in Positions, TriggerExit(p) PROVE Wealth' <= Wealth /\ Wealth \in Int /\ Wealth' \in Int
  BY <1>19, <1>0, <1>e DEF TriggerExit
<1>20. CASE ExitCancel
  <2>1. CASE UNCHANGED <<free, tp>>
    BY <1>20, <1>0, <1>e, <2>1 DEF ExitCancel, orders
  <2>2. CASE free' = free + Locked(Cancellable)
             /\ tp' = [p \in Positions |-> IF p \in Cancellable THEN "Cancelled" ELSE tp[p]]
    <3>1. Cancellable \in SUBSET Positions /\ UNCHANGED <<tpQty, tpExec>>
      BY <1>20 DEF ExitCancel, Cancellable
    <3>2. Shift(Cancellable)
      BY <1>a, <2>2, <3>1
    <3>3. L2(Cancellable) = 0
      <4>1. {p \in Cancellable : tp'[p] = "open"} = {}
        BY <2>2, <3>1
      <4> QED BY <4>1, TotalOfNone DEF LockSum, L2
    <3>4. Locked(Cancellable) = L(Cancellable) /\ Locked(Cancellable) \in Nat
      BY <3>1, LockedIsSum, LockedNat DEF L
    <3> QED BY <1>0, <1>f, <2>2, <3>1, <3>2, <3>3, <3>4
  <2> QED BY <1>20, <2>1, <2>2 DEF ExitCancel
<1>21. CASE ExitCancelFails
  BY <1>21, <1>0, <1>e DEF ExitCancelFails
<1>22. CASE ExitRefresh
  BY <1>22, <1>0, <1>e DEF ExitRefresh
<1>23. CASE ExitRefused
  BY <1>23, <1>0, <1>e DEF ExitRefused
<1>24. ASSUME NEW k \in 0 .. Lots, ExitExecutes(k) PROVE Wealth' <= Wealth /\ Wealth \in Int /\ Wealth' \in Int
  BY <1>24, <1>0, <1>e DEF ExitExecutes
<1>25. CASE ExitBooked
  BY <1>25, <1>0, <1>e DEF ExitBooked
<1>26. CASE ExitWriteFails
  BY <1>26, <1>0, <1>e DEF ExitWriteFails
<1>27. CASE SecondExit
  BY <1>27, <1>0, <1>e DEF SecondExit
<1>28. CASE Validate
  BY <1>28, <1>0, <1>e DEF Validate
<1>29. CASE SkipValidate
  BY <1>29, <1>0, <1>e DEF SkipValidate
<1>30. CASE EndCycle
  BY <1>30, <1>0, <1>e DEF EndCycle
<1>31. CASE UNCHANGED vars
  BY <1>31, <1>0, <1>e DEF vars
<1> QED
  BY <1>1, <1>2, <1>3, <1>4, <1>5, <1>6, <1>7, <1>8, <1>9, <1>10, <1>11, <1>12, <1>13, <1>13a, <1>14, <1>15, <1>16, <1>17, <1>18, <1>19, <1>20, <1>21, <1>22, <1>23, <1>24, <1>25, <1>26, <1>27, <1>28, <1>29, <1>30, <1>31 DEF Next, Monitor, Buyer, Environment

LEMMA KeptStep ==
    ASSUME Typed, Typed', Kept, Spared({"balance", "db"})'
    PROVE  [Next]_vars => Kept'
<1> SUFFICES ASSUME [Next]_vars PROVE Kept'
  OBVIOUS
<1>s. ASSUME NEW f, Strike(f) PROVE f \notin {"balance", "db"}
  BY <1>s, StrikeTyped DEF Spared, Typed, TypeOK
<1>r. RefreshBalances => cacheTotal' = Wealth'
  <2>1. Locked(Positions)' = LockSum(tp', tpQty', tpExec', Positions)
    BY DEF Locked, MapThenSumSet, MapThenFoldSet, Total, Sums, Pick, LockSum
  <2> QED BY <1>s, <2>1 DEF RefreshBalances, Wealth
<1>t. cacheTotal \in Int
  BY DEF Typed, TypeOK, NoData
<1>1. CASE \E p \in Positions : BuyExecutes(p)
  BY <1>1 DEF BuyExecutes, Kept
<1>2. CASE \A p \in Positions : ~BuyExecutes(p)
  <2>1. Wealth' <= Wealth /\ Wealth \in Int /\ Wealth' \in Int
    BY <1>2, WealthShrinks
  <2>2. ASSUME bpc \notin {"bought", "booked"}, UNCHANGED cacheTotal PROVE Kept'
    BY <1>t, <2>1, <2>2 DEF Kept
  <2>3. ASSUME RefreshBalances PROVE Kept'
    BY <1>r, <2>1, <2>3 DEF Kept
  <2>4. ASSUME bpc \in {"bought", "booked"}, UNCHANGED bpc PROVE Kept'
    BY <2>4 DEF Kept
  <2>5. ASSUME UNCHANGED <<bpc, cacheTotal>> PROVE Kept'
    BY <2>2, <2>4, <2>5
  <2> HIDE DEF Kept
  <2> USE DEF cache, buyer, vars
  <2>6. ASSUME NEW p \in Positions, FillTakeProfit(p) PROVE Kept'
    BY <2>6, <2>5 DEF FillTakeProfit
  <2>7. ASSUME NEW p \in Positions, ExternalCancel(p) PROVE Kept'
    BY <2>7, <2>5 DEF ExternalCancel
  <2>8. CASE ExternalSale
    BY <2>8, <2>5 DEF ExternalSale
  <2>9. CASE Restart
    BY <2>9 DEF Restart, Kept
  <2>10. CASE BuyBooked
    BY <2>10 DEF BuyBooked, Kept
  <2>11. CASE BuyRefreshed
    BY <2>11, <2>3 DEF BuyRefreshed
  <2>12. CASE RestTakeProfit
    BY <2>12, <2>2, <2>3 DEF RestTakeProfit
  <2>13. CASE TakeProfitSaved
    BY <2>13, <2>3 DEF TakeProfitSaved
  <2>14. CASE BuyWriteFails
    BY <2>14, <1>s DEF BuyWriteFails
  <2>15. CASE BeginCycle
    BY <2>15, <2>3 DEF BeginCycle
  <2>16. ASSUME NEW p \in Positions, CheckTakeProfit(p) PROVE Kept'
    BY <2>16, <2>5 DEF CheckTakeProfit
  <2>17. ASSUME NEW p \in Positions, CheckFails(p) PROVE Kept'
    BY <2>17, <2>5 DEF CheckFails
  <2>17a. ASSUME NEW p \in Positions, AnsweredAsFilled(p) PROVE Kept'
    BY <2>17a, <2>5 DEF AnsweredAsFilled
  <2>18. CASE BookFill
    BY <2>18, <2>5 DEF BookFill
  <2>19. CASE MarkFilled
    BY <2>19, <2>5 DEF MarkFilled
  <2>20. CASE FillWriteFails
    BY <2>20, <2>5 DEF FillWriteFails
  <2>21. CASE BeginPositions
    BY <2>21, <2>5 DEF BeginPositions
  <2>22. ASSUME NEW p \in Positions, HoldPosition(p) PROVE Kept'
    BY <2>22, <2>5 DEF HoldPosition
  <2>23. ASSUME NEW p \in Positions, TriggerExit(p) PROVE Kept'
    BY <2>23, <2>5 DEF TriggerExit
  <2>24. CASE ExitCancel
    BY <2>24, <2>5 DEF ExitCancel
  <2>25. CASE ExitCancelFails
    BY <2>25, <2>5 DEF ExitCancelFails
  <2>26. CASE ExitRefresh
    BY <2>26, <2>3 DEF ExitRefresh
  <2>27. CASE ExitRefused
    BY <2>27, <2>5 DEF ExitRefused
  <2>28. ASSUME NEW k \in 0 .. Lots, ExitExecutes(k) PROVE Kept'
    BY <2>28, <2>5 DEF ExitExecutes
  <2>29. CASE ExitBooked
    BY <2>29, <2>3 DEF ExitBooked
  <2>30. CASE ExitWriteFails
    BY <2>30, <2>5 DEF ExitWriteFails
  <2>31. CASE SecondExit
    BY <2>31, <2>5 DEF SecondExit
  <2>32. CASE Validate
    BY <2>32, <2>5 DEF Validate
  <2>33. CASE SkipValidate
    BY <2>33, <2>5 DEF SkipValidate
  <2>34. CASE EndCycle
    BY <2>34, <2>5 DEF EndCycle
  <2>35. CASE UNCHANGED vars
    BY <2>35, <2>5
  <2> QED
    BY <1>2, <2>6, <2>7, <2>8, <2>9, <2>10, <2>11, <2>12, <2>13, <2>14, <2>15, <2>16, <2>17, <2>17a, <2>18, <2>19, <2>20, <2>21, <2>22, <2>23, <2>24, <2>25, <2>26, <2>27, <2>28, <2>29, <2>30, <2>31, <2>32, <2>33, <2>34, <2>35 DEF Next, Monitor, Buyer, Environment
<1> QED BY <1>1, <1>2

LEMMA KeptAlways == Spec => [](Typed /\ KeptInv)
<1>1. Init => Typed /\ KeptInv
  BY TypedInit, KeptInit
<1>2. Typed /\ KeptInv /\ [Next]_vars => Typed' /\ KeptInv'
  <2> SUFFICES ASSUME Typed, KeptInv, [Next]_vars PROVE Typed' /\ KeptInv'
    OBVIOUS
  <2>1. Typed'
    BY TypedStep
  <2>2. ASSUME Spared({"balance", "db"})' PROVE Kept'
    <3>1. Spared({"balance", "db"})
      BY <2>2, SparedBefore
    <3> QED BY <2>1, <2>2, <3>1, KeptStep DEF KeptInv
  <2> QED BY <2>1, <2>2 DEF KeptInv
<1> QED BY <1>1, <1>2, PTL DEF Spec

LEMMA Validated == ASSUME Typed, KeptInv PROVE [Next]_vars => [ValidationKeeps]_vars
<1> SUFFICES ASSUME NEW p \in Positions, Validate, st[p] = "OPEN", st'[p] = "CLOSED",
                    Spared({"balance", "db"}), bpc \notin {"bought", "booked"}
             PROVE  100 * (free + Locked(Positions)) < remaining[p]
  BY DEF ValidationKeeps
<1>1. Gone(p)
  BY DEF Validate
<1>2. Locked(Positions) = LockSum(tp, tpQty, tpExec, Positions) /\ Locked(Positions) \in Nat
  BY LockedIsSum, LockedNat
<1>3. free + Locked(Positions) <= cacheTotal
  BY <1>1, <1>2 DEF Gone, KeptInv, Kept, Wealth
<1>4. cacheTotal \in Int /\ remaining[p] \in Int /\ free \in Int
  BY ExitAssumption DEF Typed, TypeOK, NoData
<1> QED BY <1>1, <1>2, <1>3, <1>4 DEF Gone

-----------------------------------------------------------------------------
(* The theorems.                                                             *)

IInv == Phases /\ ReachInv /\ BoundInv /\ SoldInv

LEMMA IInvInit == Init => IInv
  BY PhasesInit, ReachInit, BoundInit, SoldInit DEF IInv

LEMMA IInvStep == ASSUME Alone PROVE IInv /\ [Next]_vars => IInv'
<1> SUFFICES ASSUME IInv, [Next]_vars PROVE IInv'
  OBVIOUS
<1>1. Typed /\ Phases /\ Phases'
  BY PhasesStep DEF IInv, Phases
<1>2. ReachInv'
  <2> SUFFICES ASSUME Spared(Unreached)' PROVE RowOK' /\ ReachOK'
    BY DEF ReachInv
  <2>1. Spared(Unreached)
    BY <1>1, SparedBefore
  <2> QED BY <1>1, <2>1, ReachStep DEF IInv, ReachInv
<1>3. BoundInv'
  <2> SUFFICES ASSUME Spared(Unbounded)' PROVE Bound'
    BY DEF BoundInv
  <2>1. Spared(Unbounded)
    BY <1>1, SparedBefore
  <2> QED BY <1>1, <2>1, BoundStep DEF IInv, BoundInv
<1>4. SoldInv'
  <2> SUFFICES ASSUME Spared(Unsold)' PROVE SoldOK'
    BY DEF SoldInv
  <2>1. Spared(Unsold)
    BY <1>1, SparedBefore
  <2>2. Spared(Unreached) /\ Spared(Unbounded)
    BY <2>1 DEF Spared, Unsold, Unreached, Unbounded
  <2> QED BY <1>1, <2>1, <2>2, SoldStep DEF IInv, ReachInv, BoundInv, SoldInv
<1> QED BY <1>1, <1>2, <1>3, <1>4 DEF IInv

\* The sum over the open positions, of which there is at most one.
Left(p) == Lots - tpExec[p] - sold[p]

LEMMA LeftSum ==
    ASSUME NEW S
    PROVE  /\ S = {} => MapThenSumSet(LAMBDA p : Lots - tpExec[p] - sold[p], S) = 0
           /\ \A y : S = {y} /\ Left(y) \in Int =>
                 MapThenSumSet(LAMBDA p : Lots - tpExec[p] - sold[p], S) = Left(y)
<1> DEFINE Sum(g) == g = [s \in SUBSET S |-> IF s = {} THEN 0
                                             ELSE Left(Pick(s)) + g[s \ {Pick(s)}]]
           c == CHOOSE g : Sum(g)
<1>1. MapThenSumSet(LAMBDA p : Lots - tpExec[p] - sold[p], S) = c[S]
  BY DEF MapThenSumSet, MapThenFoldSet, Left, Pick
<1>2. ASSUME S = {} PROVE c[S] = 0
  <2> DEFINE h == [s \in SUBSET S |-> 0]
  <2>1. Sum(h)
    BY <1>2
  <2>2. Sum(c)
    <3> HIDE DEF h, Sum
    <3> QED BY <2>1
  <2> HIDE DEF c
  <2>3. c = [s \in SUBSET S |-> IF s = {} THEN 0 ELSE Left(Pick(s)) + c[s \ {Pick(s)}]]
    BY <2>2
  <2> QED BY <1>2, <2>3
<1>3. ASSUME NEW y, S = {y}, Left(y) \in Int PROVE c[S] = Left(y)
  <2> DEFINE h == [s \in SUBSET S |-> IF s = {} THEN 0 ELSE Left(y)]
  <2>0. /\ \A s \in SUBSET S : s = {} \/ (s = S /\ Pick(s) = y /\ s \ {Pick(s)} = {})
        /\ {} \in SUBSET S /\ S # {}
    BY <1>3 DEF Pick
  <2>1. Sum(h)
    <3>1. \A s \in SUBSET S : h[s] = IF s = {} THEN 0 ELSE Left(Pick(s)) + h[s \ {Pick(s)}]
      BY <1>3, <2>0
    <3> QED BY <3>1
  <2>2. Sum(c)
    <3> HIDE DEF h, Sum
    <3> QED BY <2>1
  <2> HIDE DEF c
  <2>3. \A s \in SUBSET S : c[s] = IF s = {} THEN 0 ELSE Left(Pick(s)) + c[s \ {Pick(s)}]
    BY <2>2
  <2>4. c[S] = Left(y) + c[{}] /\ c[{}] = 0
    BY <2>0, <2>3
  <2> QED BY <1>3, <2>4
<1> HIDE DEF c
<1> QED BY <1>1, <1>2, <1>3

LEMMA Implied == ASSUME IInv PROVE PricedOnce /\ PricedIsSold /\ NoPoach /\ InReach
<1>0. Lots \in Nat
  BY ExitAssumption
<1>t. /\ \A p \in Positions : /\ tpExec[p] \in 0 .. Lots /\ tpQty[p] \in 0 .. Lots
                              /\ sold[p] \in Nat /\ priced[p] \in Nat /\ remaining[p] \in 0 .. Lots
      /\ free \in Nat
  BY DEF IInv, Phases, Typed, TypeOK
<1>1. PricedOnce
  BY <1>0, <1>t DEF IInv, BoundInv, Unbounded, PricedOnce, ProfitOnce, Bound, BoundOK
<1>2. PricedIsSold
  BY DEF IInv, SoldInv, Unsold, PricedIsSold, SoldOK
<1>3. NoPoach
  BY DEF IInv, BoundInv, Unbounded, NoPoach, Bound, BoundOK
<1>4. NoOrphanSale
  BY DEF IInv, BoundInv, Unbounded, NoOrphanSale, Bound, BoundOK
<1>5. Covered
  <2> DEFINE O == {p \in Positions : st[p] = "OPEN"}
             Sum == MapThenSumSet(LAMBDA p : Lots - tpExec[p] - sold[p], O)
  <2> SUFFICES ASSUME bpc = "idle", Spared({"db", "crash", "external"})
               PROVE  Sum <= free + Locked(Cancellable)
    BY DEF Covered
  <2>1. RowOK /\ ReachOK /\ Phases
    BY DEF IInv, ReachInv, Unreached
  <2>2. Cancellable \in SUBSET Positions
    BY DEF Cancellable
  <2>3. Locked(Cancellable) \in Nat
        /\ \A p \in Cancellable : tp[p] = "open" => Locked(Cancellable) >= Own(p)
    BY <2>1, <2>2, LockedNat DEF Phases
  <2>4. CASE O = {}
    <3>1. Sum = 0
      BY <2>4, LeftSum
    <3> HIDE DEF Sum
    <3> QED BY <1>t, <2>3, <3>1
  <2>5. CASE O # {}
    <3>1. PICK p \in Positions : st[p] = "OPEN"
      BY <2>5
    <3>2. O = {p}
      BY <2>1, <3>1 DEF Phases, PhaseOK
    <3>3. Left(p) \in Int /\ Left(p) <= free + Own(p)
      BY <1>0, <1>t, <2>1, <3>1 DEF Left, ReachOK
    <3>4. Sum = Left(p)
      BY <3>2, <3>3, LeftSum
    <3>5. tp[p] = "open" => p \in Cancellable
      BY <2>1, <3>1 DEF RowOK, Cancellable
    <3>6. Own(p) \in Int /\ Own(p) <= Locked(Cancellable)
      BY <1>t, <2>3, <3>1, <3>5 DEF Own
    <3> HIDE DEF Sum
    <3> QED BY <1>t, <2>3, <3>3, <3>4, <3>6
  <2> QED BY <2>4, <2>5
<1> QED BY <1>1, <1>2, <1>3, <1>4, <1>5 DEF InReach

\* Every variable keeps its type: in particular no order executes more than
\* its quantity, and neither the wallet nor a remaining quantity is negative.
THEOREM TypeCorrect == Spec => []TypeOK
<1>1. Typed => TypeOK
  BY DEF Typed
<1> QED BY TypedInit, TypedStep, <1>1, PTL DEF Spec

\* Until a balance request or a write fails, and but while a purchase is being
\* booked, validation closes no position whose lots the account still holds:
\* for every number of positions open at once, with purchases by the API's
\* thread, and whatever else fails.
THEOREM ValidationSoundAlways == Spec => ValidationSound
<1>1. [](Typed /\ KeptInv) /\ [][Next]_vars => [][ValidationKeeps]_vars
  BY Validated, PTL
<1> QED BY KeptAlways, <1>1, PTL DEF Spec, ValidationSound

LEMMA IInvAlways == ASSUME Alone PROVE Spec => []IInv
  BY IInvInit, IInvStep, PTL DEF Spec

\* Until a balance request or a write fails or the process crashes, a position
\* is not booked for more lots than it bought, and, while the owner does not
\* trade by hand, only for lots that were sold.
THEOREM BookedOnceAlways == ASSUME Alone PROVE Spec => []BookedOnce
<1>1. IInv /\ FillsPriced => BookedOnce
  BY Implied DEF BookedOnce
<1> QED BY IInvAlways, FillsPricedAlways, <1>1, PTL

\* Under the same conditions, the exits and the TAKE_PROFIT order of a
\* position together never sell more than it bought.
THEOREM NoPoachAlways == ASSUME Alone PROVE Spec => []NoPoach
<1>1. IInv => NoPoach
  BY Implied
<1> QED BY IInvAlways, <1>1, PTL

\* What an open position has left is free or locked by an order that the loop
\* may cancel, and a closed position leaves no sale resting.
THEOREM InReachAlways == ASSUME Alone PROVE Spec => []InReach
<1>1. IInv => InReach
  BY Implied
<1> QED BY IInvAlways, <1>1, PTL

=============================================================================
