-------------------------- MODULE CandleFeed_proofs --------------------------
(***************************************************************************)
(* The log of the candle feed heals itself, the cache replays it in order  *)
(* and does not let it grow stale, for every set of series, every length   *)
(* of bar and every limit.  Of the cache itself: a rule for short          *)
(* positions judges as its long twin does, upside down.                    *)
(***************************************************************************)
EXTENDS CandleFeed, IndicatorRules, FiniteSetTheorems, FunctionTheorems, WellFoundedInduction, TLAPS

-----------------------------------------------------------------------------
(* Bars.                                                                   *)

\* The k-th bar of a series closes after k lengths.
Bar(s, k) == k * Length[s]

LEMMA Multiples ==
    ASSUME NEW L \in Nat \ {0}, NEW j \in Nat, NEW k \in Nat
    PROVE  /\ k * L \in Nat /\ (k + 1) * L = k * L + L
           /\ j < k => j * L + L <= k * L
<1>1. k * L \in Nat /\ j * L \in Nat
  OBVIOUS
<1>2. (k + 1) * L = k * L + L
  OBVIOUS
<1>3. ASSUME j < k PROVE j * L + L <= k * L
  <2>1. PICK d \in Nat : k = j + 1 + d
    <3>1. k - j - 1 \in Nat /\ k = j + 1 + (k - j - 1)
      BY <1>3
    <3> QED BY <3>1
  <2>2. k * L = j * L + L + d * L
    BY <2>1
  <2>3. d * L \in Nat
    OBVIOUS
  <2> QED BY <1>1, <2>2, <2>3
<1> QED BY <1>1, <1>2, <1>3

LEMMA LastMultiple ==
    ASSUME NEW L \in Nat \ {0}, NEW n \in Nat
    PROVE  \E k \in Nat : k * L <= n /\ n < k * L + L
<1>1. n \div L \in Nat /\ n = L * (n \div L) + (n % L) /\ n % L \in 0 .. L - 1
  OBVIOUS
<1>2. (n \div L) * L = L * (n \div L)
  BY <1>1
<1>3. (n \div L) * L <= n /\ n < (n \div L) * L + L
  BY <1>1, <1>2
<1> QED BY <1>1, <1>3

LEMMA MultipleIs ==
    ASSUME NEW L \in Nat \ {0}, NEW c \in Nat
    PROVE  c % L = 0 <=> \E k \in Nat : c = k * L
<1>1. c \div L \in Nat /\ c = L * (c \div L) + (c % L) /\ c % L \in 0 .. L - 1
  OBVIOUS
<1>2. ASSUME c % L = 0 PROVE \E k \in Nat : c = k * L
  <2>1. c = (c \div L) * L
    BY <1>1, <1>2
  <2> QED BY <1>1, <2>1
<1>3. ASSUME NEW k \in Nat, c = k * L PROVE c % L = 0
  BY <1>3
<1> QED BY <1>2, <1>3

\* The bars are in the order of their numbers, a length apart.
LEMMA BarFacts ==
    ASSUME NEW s \in Series, NEW j \in Nat, NEW k \in Nat
    PROVE  /\ Length[s] \in Nat \ {0} /\ Bar(s, k) \in Nat
           /\ Bar(s, k + 1) = Bar(s, k) + Length[s] /\ Bar(s, 0) = 0
           /\ j < k => Bar(s, j) + Length[s] <= Bar(s, k)
           /\ j < k <=> Bar(s, j) < Bar(s, k)
           /\ j = k <=> Bar(s, j) = Bar(s, k)
<1>1. Length[s] \in Nat \ {0}
  BY FeedAssumption
<1>2. /\ Bar(s, k) \in Nat /\ Bar(s, j) \in Nat
      /\ Bar(s, k + 1) = Bar(s, k) + Length[s]
      /\ j < k => Bar(s, j) + Length[s] <= Bar(s, k)
      /\ k < j => Bar(s, k) + Length[s] <= Bar(s, j)
  BY <1>1, Multiples DEF Bar
<1>3. Bar(s, 0) = 0
  BY <1>1 DEF Bar
<1> HIDE DEF Bar
<1>4. /\ j < k \/ j = k \/ k < j
      /\ j = k => Bar(s, j) = Bar(s, k)
  OBVIOUS
<1> QED BY <1>1, <1>2, <1>3, <1>4

-----------------------------------------------------------------------------
(* Rows of consecutive bars.                                               *)

Row == [close : Nat, whole : BOOLEAN]

\* R holds the bars of s from lo to hi, each once.
Holds(R, s, lo, hi) ==
    /\ R \subseteq Row
    /\ \A r, q \in R : r.close = q.close => r = q
    /\ \A r \in R : \E k \in lo .. hi : r.close = Bar(s, k)
    /\ \A k \in lo .. hi : \E r \in R : r.close = Bar(s, k)

\* There are as many rows as bars.
LEMMA CountRows ==
    ASSUME NEW s \in Series, NEW lo \in Nat \ {0}, NEW hi \in Nat, NEW R,
           Holds(R, s, lo, hi)
    PROVE  /\ IsFiniteSet(R)
           /\ Cardinality(R) = IF lo > hi THEN 0 ELSE hi - lo + 1
<1> DEFINE f == [k \in lo .. hi |-> CHOOSE r \in R : r.close = Bar(s, k)]
<1>1. \A k \in lo .. hi : f[k] \in R /\ f[k].close = Bar(s, k)
  BY DEF Holds
<1> HIDE DEF f
<1>2. f \in [lo .. hi -> R]
  BY <1>1 DEF f
<1>3. f \in Injection(lo .. hi, R)
  <2>1. ASSUME NEW j \in lo .. hi, NEW k \in lo .. hi, f[j] = f[k] PROVE j = k
    <3>1. j \in Nat /\ k \in Nat /\ Bar(s, j) = Bar(s, k)
      BY <1>1, <2>1
    <3> QED BY <3>1, BarFacts
  <2> QED BY <1>2, <2>1, Fun_IsInj
<1>4. \A r \in R : \E k \in lo .. hi : f[k] = r
  BY <1>1 DEF Holds
<1>5. f \in Surjection(lo .. hi, R)
  BY <1>2, <1>4, Fun_IsSurj
<1>6. ExistsBijection(lo .. hi, R)
  BY <1>3, <1>5 DEF ExistsBijection, Bijection
<1>7. /\ IsFiniteSet(lo .. hi)
      /\ Cardinality(lo .. hi) = IF lo > hi THEN 0 ELSE hi - lo + 1
  BY FS_Interval
<1> QED BY <1>6, <1>7, FS_Bijection

\* seq lists the rows of the bars from lo to hi.
Lists(seq, s, lo, hi) ==
    /\ seq \in Seq(Row) /\ Len(seq) = IF lo > hi THEN 0 ELSE hi - lo + 1
    /\ \A i \in 1 .. Len(seq) : seq[i].close = Bar(s, lo + i - 1)

\* The i-th row in order is that of the i-th bar.
LEMMA InOrder ==
    ASSUME NEW s \in Series, NEW lo \in Nat \ {0}, NEW hi \in Nat, NEW R,
           Holds(R, s, lo, hi)
    PROVE  Lists(ByClose(R), s, lo, hi)
<1> DEFINE n == IF lo > hi THEN 0 ELSE hi - lo + 1
           Before(r) == {q \in R : q.close < r.close}
<1>1. n \in Nat /\ Cardinality(R) = n
  BY CountRows
<1>2. ASSUME NEW r \in R, NEW k \in lo .. hi, r.close = Bar(s, k)
      PROVE  Cardinality(Before(r)) = k - lo
  <2>1. k \in Nat \ {0} /\ k - 1 \in Nat
    OBVIOUS
  <2>2. Holds(Before(r), s, lo, k - 1)
    <3>1. \A q \in Before(r) : \E j \in lo .. k - 1 : q.close = Bar(s, j)
      <4>1. TAKE q \in Before(r)
      <4>2. PICK j \in lo .. hi : q.close = Bar(s, j)
        BY DEF Holds
      <4>3. j \in Nat /\ j < k
        BY <1>2, <2>1, <4>2, BarFacts
      <4> QED BY <4>2, <4>3
    <3>2. \A j \in lo .. k - 1 : \E q \in Before(r) : q.close = Bar(s, j)
      <4>1. TAKE j \in lo .. k - 1
      <4>2. j \in lo .. hi /\ j \in Nat /\ j < k
        OBVIOUS
      <4>3. PICK q \in R : q.close = Bar(s, j)
        BY <4>2 DEF Holds
      <4>4. q.close < r.close
        BY <1>2, <2>1, <4>2, <4>3, BarFacts
      <4> QED BY <4>3, <4>4
    <3> QED BY <3>1, <3>2 DEF Holds
  <2>3. Cardinality(Before(r)) = IF lo > k - 1 THEN 0 ELSE (k - 1) - lo + 1
    BY <2>1, <2>2, CountRows
  <2> QED BY <2>3
<1>3. ASSUME NEW i \in 1 .. n
      PROVE  ByClose(R)[i] \in R /\ ByClose(R)[i].close = Bar(s, lo + i - 1)
  <2>1. lo + i - 1 \in lo .. hi
    BY <1>1
  <2>2. PICK r \in R : r.close = Bar(s, lo + i - 1)
    BY <2>1 DEF Holds
  <2>3. Cardinality(Before(r)) = i - 1
    BY <1>2, <2>1, <2>2
  <2>4. ByClose(R)[i] = CHOOSE q \in R : Cardinality(Before(q)) = i - 1
    BY <1>1 DEF ByClose
  <2>5. \E q \in R : Cardinality(Before(q)) = i - 1
    BY <2>3
  <2>6. ByClose(R)[i] \in R /\ Cardinality(Before(ByClose(R)[i])) = i - 1
    <3> HIDE DEF Before
    <3> QED BY <2>4, <2>5
  <2>7. PICK k \in lo .. hi : ByClose(R)[i].close = Bar(s, k)
    BY <2>6 DEF Holds
  <2>8. Cardinality(Before(ByClose(R)[i])) = k - lo
    BY <1>2, <2>6, <2>7
  <2>9. k = lo + i - 1
    BY <2>6, <2>8
  <2> QED BY <2>6, <2>7, <2>9
<1>4. ByClose(R) \in [1 .. n -> Row]
  <2> DEFINE th(i) == CHOOSE r \in R : Cardinality({q \in R : q.close < r.close}) = i - 1
  <2>1. ByClose(R) = [i \in 1 .. n |-> th(i)]
    BY <1>1 DEF ByClose
  <2> HIDE DEF th
  <2>2. \A i \in 1 .. n : th(i) \in Row
    BY <1>3, <2>1 DEF Holds
  <2> QED BY <2>1, <2>2
<1>5. ByClose(R) \in Seq(Row) /\ Len(ByClose(R)) = n
  BY <1>1, <1>4
<1> QED BY <1>3, <1>5 DEF Lists

-----------------------------------------------------------------------------
(* Sequences of consecutive bars.                                          *)

\* Bar follows bar.
Consecutive(seq, s) ==
    \A i \in 1 .. Len(seq) :
        i + 1 \in 1 .. Len(seq) => seq[i + 1].close = seq[i].close + Length[s]
End(seq) == seq[Len(seq)].close

LEMMA OfTwo ==
    ASSUME NEW a \in Int, NEW b \in Int
    PROVE  /\ SetMax({a, b}) = IF a >= b THEN a ELSE b
           /\ SetMin({a, b}) = IF a <= b THEN a ELSE b
<1>1. SetMax({a, b}) = IF a >= b THEN a ELSE b
  <2>1. \E x \in {a, b} : \A y \in {a, b} : y <= x
    BY DEF SetMax
  <2>2. SetMax({a, b}) \in {a, b} /\ \A y \in {a, b} : y <= SetMax({a, b})
    BY <2>1 DEF SetMax
  <2> QED BY <2>2
<1>2. SetMin({a, b}) = IF a <= b THEN a ELSE b
  <2>1. \E x \in {a, b} : \A y \in {a, b} : x <= y
    OBVIOUS
  <2>2. SetMin({a, b}) \in {a, b} /\ \A y \in {a, b} : SetMin({a, b}) <= y
    BY <2>1 DEF SetMin
  <2> QED BY <2>2
<1> QED BY <1>1, <1>2

LEMMA LargestIs ==
    ASSUME NEW S, S \subseteq Int, NEW m \in S, \A y \in S : y <= m
    PROVE  SetMax(S) = m
<1>1. \E x \in S : \A y \in S : y <= x
  OBVIOUS
<1>2. SetMax(S) \in S /\ \A y \in S : y <= SetMax(S)
  BY <1>1 DEF SetMax
<1>3. SetMax(S) <= m /\ m <= SetMax(S) /\ SetMax(S) \in Int
  BY <1>2
<1> QED BY <1>3

\* Part of a sequence of consecutive bars is one.
LEMMA PartIsConsecutive ==
    ASSUME NEW s \in Series, NEW seq \in Seq(Row), Consecutive(seq, s),
           NEW m \in 1 .. Len(seq), NEW n \in m .. Len(seq)
    PROVE  /\ SubSeq(seq, m, n) \in Seq(Row) /\ Len(SubSeq(seq, m, n)) = n - m + 1
           /\ SubSeq(seq, m, n) # <<>>
           /\ \A i \in 1 .. n - m + 1 : SubSeq(seq, m, n)[i] = seq[m + i - 1]
           /\ Consecutive(SubSeq(seq, m, n), s)
           /\ End(SubSeq(seq, m, n)) = seq[n].close
<1>1. /\ SubSeq(seq, m, n) \in Seq(Row) /\ Len(SubSeq(seq, m, n)) = n - m + 1
      /\ \A i \in 1 .. n - m + 1 : SubSeq(seq, m, n)[i] = seq[m + i - 1]
  OBVIOUS
<1>2. SubSeq(seq, m, n) # <<>>
  BY <1>1
<1> DEFINE t == SubSeq(seq, m, n)
<1>3. ASSUME NEW i \in 1 .. Len(t), i + 1 \in 1 .. Len(t)
      PROVE  t[i + 1].close = t[i].close + Length[s]
  <2>1. t[i] = seq[m + i - 1] /\ t[i + 1] = seq[(m + i - 1) + 1]
    BY <1>1, <1>3
  <2>2. m + i - 1 \in 1 .. Len(seq) /\ (m + i - 1) + 1 \in 1 .. Len(seq)
    BY <1>1, <1>3
  <2> QED BY <2>1, <2>2 DEF Consecutive
<1>4. Consecutive(t, s)
  <2> HIDE DEF t
  <2> QED BY <1>3 DEF Consecutive
<1>5. End(t) = seq[n].close
  <2>1. Len(t) = n - m + 1 /\ t[n - m + 1] = seq[m + (n - m + 1) - 1]
    BY <1>1
  <2> QED BY <2>1 DEF End
<1> QED BY <1>1, <1>2, <1>4, <1>5

LEMMA LastsFacts ==
    ASSUME NEW s \in Series, NEW seq \in Seq(Row), Consecutive(seq, s),
           NEW n \in Nat \ {0}
    PROVE  /\ Lasts(seq, n) \in Seq(Row) /\ Consecutive(Lasts(seq, n), s)
           /\ seq # <<>> => Lasts(seq, n) # <<>> /\ End(Lasts(seq, n)) = End(seq)
           /\ seq = <<>> => Lasts(seq, n) = <<>>
<1> DEFINE m == SetMax({1, Len(seq) - n + 1})
<1>1. m \in Nat \ {0} /\ (Len(seq) >= 1 => m <= Len(seq)) /\ (Len(seq) = 0 => m = 1)
  <2>1. m = IF 1 >= Len(seq) - n + 1 THEN 1 ELSE Len(seq) - n + 1
    BY OfTwo
  <2> QED BY <2>1
<1>2. Lasts(seq, n) = SubSeq(seq, m, Len(seq))
  BY DEF Lasts
<1> HIDE DEF m
<1>3. CASE seq = <<>>
  <2>1. m = 1 /\ Len(seq) = 0
    BY <1>1, <1>3
  <2>2. Lasts(seq, n) = <<>>
    BY <1>2, <1>3, <2>1
  <2> QED BY <1>3, <2>2
<1>4. CASE seq # <<>>
  <2>1. m \in 1 .. Len(seq) /\ Len(seq) \in m .. Len(seq)
    BY <1>1, <1>4
  <2>2. /\ Lasts(seq, n) \in Seq(Row) /\ Lasts(seq, n) # <<>>
        /\ Consecutive(Lasts(seq, n), s) /\ End(Lasts(seq, n)) = seq[Len(seq)].close
    <3> DEFINE n2 == Len(seq)
    <3>1. m \in 1 .. Len(seq) /\ n2 \in m .. Len(seq)
      BY <2>1
    <3> HIDE DEF n2
    <3>2. /\ SubSeq(seq, m, n2) \in Seq(Row) /\ SubSeq(seq, m, n2) # <<>>
          /\ Consecutive(SubSeq(seq, m, n2), s)
          /\ End(SubSeq(seq, m, n2)) = seq[n2].close
      BY <3>1, PartIsConsecutive
    <3>3. Lasts(seq, n) = SubSeq(seq, m, n2)
      BY <1>2 DEF n2
    <3> QED BY <3>2, <3>3, Zenon DEF n2
  <2> QED BY <1>4, <2>2 DEF End
<1> QED BY <1>3, <1>4

LEMMA AppendedFacts ==
    ASSUME NEW s \in Series, NEW h \in Seq(Row), Consecutive(h, s), NEW row \in Row,
           h = <<>> \/ row.close = End(h) + Length[s]
    PROVE  /\ Appended(h, row) \in Seq(Row) /\ Consecutive(Appended(h, row), s)
           /\ Appended(h, row) # <<>> /\ End(Appended(h, row)) = row.close
<1> DEFINE t == Append(h, row)
<1>1. /\ t \in Seq(Row) /\ Len(t) = Len(h) + 1 /\ t[Len(h) + 1] = row
      /\ \A i \in 1 .. Len(h) : t[i] = h[i]
  OBVIOUS
<1> HIDE DEF t
<1>2. t # <<>> /\ End(t) = row.close
  BY <1>1 DEF End
<1>3. ASSUME NEW i \in 1 .. Len(t), i + 1 \in 1 .. Len(t)
      PROVE  t[i + 1].close = t[i].close + Length[s]
  <2>1. i \in 1 .. Len(h)
    BY <1>1, <1>3
  <2>2. t[i] = h[i] /\ h # <<>>
    BY <1>1, <2>1
  <2>3. CASE i = Len(h)
    BY <1>1, <2>2, <2>3 DEF End
  <2>4. CASE i # Len(h)
    <3>1. i + 1 \in 1 .. Len(h)
      BY <2>1, <2>4
    <3> QED BY <1>1, <2>1, <2>2, <3>1 DEF Consecutive
  <2> QED BY <2>3, <2>4
<1>4. Consecutive(t, s)
  BY <1>3 DEF Consecutive
<1>5. Appended(h, row) = Lasts(t, Keep)
  BY DEF Appended, Lasts, t
<1>6. Keep \in Nat \ {0}
  BY FeedAssumption
<1> QED BY <1>1, <1>2, <1>4, <1>5, <1>6, LastsFacts

LEMMA TailFacts ==
    ASSUME NEW s \in Series, NEW q \in Seq(Row), Consecutive(q, s), q # <<>>
    PROVE  /\ Head(q) \in Row /\ Tail(q) \in Seq(Row) /\ Consecutive(Tail(q), s)
           /\ Tail(q) = <<>> => End(q) = Head(q).close
           /\ Tail(q) # <<>> =>
                 End(Tail(q)) = End(q) /\ Head(Tail(q)).close = Head(q).close + Length[s]
<1> DEFINE t == Tail(q)
<1>1. /\ Head(q) = q[1] /\ q[1] \in Row /\ Len(q) \in Nat \ {0}
      /\ t \in Seq(Row) /\ Len(t) = Len(q) - 1
      /\ \A i \in 1 .. Len(t) : t[i] = q[i + 1]
  OBVIOUS
<1> HIDE DEF t
<1>2. ASSUME NEW i \in 1 .. Len(t), i + 1 \in 1 .. Len(t)
      PROVE  t[i + 1].close = t[i].close + Length[s]
  <2>1. i + 1 \in 1 .. Len(q) /\ (i + 1) + 1 \in 1 .. Len(q)
    BY <1>1, <1>2
  <2>2. q[(i + 1) + 1].close = q[i + 1].close + Length[s]
    BY <2>1 DEF Consecutive
  <2> QED BY <1>1, <1>2, <2>2
<1>3. Consecutive(t, s)
  BY <1>2 DEF Consecutive
<1>4. ASSUME t = <<>> PROVE End(q) = Head(q).close
  <2>1. Len(q) = 1
    BY <1>1, <1>4
  <2> QED BY <1>1, <2>1 DEF End
<1>5. ASSUME t # <<>>
      PROVE  End(t) = End(q) /\ Head(t).close = Head(q).close + Length[s]
  <2>1. Len(t) \in 1 .. Len(t) /\ 1 \in 1 .. Len(t) /\ Head(t) = t[1]
    BY <1>1, <1>5
  <2>2. t[Len(t)] = q[Len(q)] /\ t[1] = q[1 + 1]
    <3>1. t[Len(t)] = q[Len(t) + 1] /\ Len(t) + 1 = Len(q) /\ t[1] = q[1 + 1]
      BY <1>1, <2>1
    <3> QED BY <3>1
  <2>3. q[1 + 1].close = q[1].close + Length[s]
    <3>1. 1 \in 1 .. Len(q) /\ 1 + 1 \in 1 .. Len(q)
      BY <1>1, <2>1
    <3> QED BY <3>1 DEF Consecutive
  <2> QED BY <1>1, <2>1, <2>2, <2>3 DEF End
<1> QED BY <1>1, <1>3, <1>4, <1>5 DEF t

\* The first of consecutive bars is no later than the last.
LEMMA HeadIsFirst ==
    ASSUME NEW s \in Series, NEW q \in Seq(Row), Consecutive(q, s), q # <<>>
    PROVE  Head(q).close <= End(q)
<1> DEFINE Later == {n \in Nat : n < Len(q) /\ q[Len(q) - n].close > End(q)}
           Below == OpToRel(<, Nat)
<1>1. /\ Len(q) \in Nat \ {0} /\ Head(q) = q[1] /\ Length[s] \in Nat \ {0}
      /\ \A i \in 1 .. Len(q) : q[i].close \in Nat
  <2>1. \A i \in 1 .. Len(q) : q[i] \in Row
    OBVIOUS
  <2> QED BY <2>1, FeedAssumption DEF Row
<1>2. Later = {}
  <2>1. SUFFICES ASSUME Later # {} PROVE FALSE
    OBVIOUS
  <2>2. PICK n \in Later : \A m \in Later : <<m, n>> \notin Below
    <3> HIDE DEF Below
    <3>1. IsWellFoundedOn(Below, Nat)
      BY NatLessThanWellFounded DEF Below
    <3>2. Later \subseteq Nat
      OBVIOUS
    <3> HIDE DEF Later
    <3> QED BY <2>1, <3>1, <3>2, WFMin
  <2>3. n \in Nat /\ n < Len(q) /\ q[Len(q) - n].close > End(q)
    BY <2>2
  <2>4. n # 0
    BY <1>1, <2>3 DEF End
  <2>5. n - 1 \notin Later
    <3>1. n - 1 \in Nat /\ n - 1 < n
      BY <2>3, <2>4
    <3>2. <<n - 1, n>> \in Below
      BY <2>3, <3>1 DEF OpToRel
    <3> QED BY <2>2, <3>2
  <2>6. Len(q) - n \in 1 .. Len(q) /\ (Len(q) - n) + 1 \in 1 .. Len(q)
        /\ Len(q) - (n - 1) = (Len(q) - n) + 1
    BY <1>1, <2>3, <2>4
  <2>7. q[(Len(q) - n) + 1].close = q[Len(q) - n].close + Length[s]
    BY <2>6 DEF Consecutive
  <2>8. q[(Len(q) - n) + 1].close <= End(q)
    BY <1>1, <2>3, <2>4, <2>5, <2>6 DEF End
  <2> QED BY <1>1, <2>3, <2>6, <2>7, <2>8 DEF End
<1>3. Len(q) - 1 \notin Later /\ Len(q) - (Len(q) - 1) = 1
  BY <1>1, <1>2
<1> QED BY <1>1, <1>3 DEF End

-----------------------------------------------------------------------------
(* The operators of the feed on rows of consecutive bars.                  *)

\* No rows are no bars.
LEMMA NoRows ==
    ASSUME NEW s \in Series
    PROVE  Holds({}, s, 1, 0)
BY DEF Holds

LEMMA NewestRow ==
    ASSUME NEW s \in Series, NEW lo \in Nat \ {0}, NEW hi \in Nat, NEW R,
           Holds(R, s, lo, hi), R # {}
    PROVE  lo <= hi /\ Bar(s, hi) \in Closes(R) /\ SetMax(Closes(R)) = Bar(s, hi)
<1>1. lo <= hi
  BY DEF Holds
<1>2. Bar(s, hi) \in Closes(R)
  <2>1. PICK r \in R : r.close = Bar(s, hi)
    BY <1>1 DEF Holds
  <2> QED BY <2>1 DEF Closes
<1>3. \A y \in Closes(R) : y \in Int /\ y <= Bar(s, hi)
  <2>1. TAKE y \in Closes(R)
  <2>2. PICK r \in R : y = r.close
    BY DEF Closes
  <2>3. PICK k \in lo .. hi : r.close = Bar(s, k)
    BY DEF Holds
  <2>4. k \in Nat /\ (k = hi \/ k < hi)
    OBVIOUS
  <2> QED BY <2>2, <2>3, <2>4, BarFacts
<1>4. SetMax(Closes(R)) = Bar(s, hi)
  BY <1>2, <1>3, LargestIs
<1> QED BY <1>1, <1>2, <1>4

\* In order, bar follows bar.
LEMMA InOrderConsecutive ==
    ASSUME NEW s \in Series, NEW lo \in Nat \ {0}, NEW hi \in Nat, NEW R,
           Holds(R, s, lo, hi)
    PROVE  /\ Consecutive(ByClose(R), s)
           /\ lo <= hi => /\ ByClose(R) # <<>> /\ End(ByClose(R)) = Bar(s, hi)
                          /\ ByClose(R)[1].close = Bar(s, lo)
           /\ lo > hi => ByClose(R) = <<>>
<1> DEFINE t == ByClose(R)
<1>1. /\ t \in Seq(Row) /\ Len(t) = IF lo > hi THEN 0 ELSE hi - lo + 1
      /\ \A i \in 1 .. Len(t) : t[i].close = Bar(s, lo + i - 1)
  BY InOrder DEF Lists
<1> HIDE DEF t
<1>2. ASSUME NEW i \in 1 .. Len(t), i + 1 \in 1 .. Len(t)
      PROVE  t[i + 1].close = t[i].close + Length[s]
  <2>1. lo + i - 1 \in Nat /\ lo + (i + 1) - 1 = (lo + i - 1) + 1
    OBVIOUS
  <2>2. Bar(s, (lo + i - 1) + 1) = Bar(s, lo + i - 1) + Length[s]
    BY <2>1, BarFacts
  <2>3. t[i].close = Bar(s, lo + i - 1) /\ t[i + 1].close = Bar(s, lo + (i + 1) - 1)
    BY <1>1, <1>2
  <2> QED BY <2>1, <2>2, <2>3
<1>3. Consecutive(t, s)
  BY <1>2 DEF Consecutive
<1>4. ASSUME lo <= hi
      PROVE  t # <<>> /\ End(t) = Bar(s, hi) /\ t[1].close = Bar(s, lo)
  <2>1. Len(t) = hi - lo + 1 /\ Len(t) \in 1 .. Len(t) /\ 1 \in 1 .. Len(t)
    BY <1>1, <1>4
  <2>2. lo + Len(t) - 1 = hi /\ lo + 1 - 1 = lo
    BY <2>1
  <2>3. t[Len(t)].close = Bar(s, lo + Len(t) - 1) /\ t[1].close = Bar(s, lo + 1 - 1)
    BY <1>1, <2>1
  <2>4. t # <<>>
    BY <1>1, <2>1
  <2> QED BY <2>2, <2>3, <2>4 DEF End
<1>5. ASSUME lo > hi PROVE t = <<>>
  BY <1>1, <1>5
<1> QED BY <1>3, <1>4, <1>5 DEF t

\* What the warmup and the first replay read ends with the newest row.
LEMMA HistoryFacts ==
    ASSUME NEW s \in Series, NEW lo \in Nat \ {0}, NEW hi \in Nat,
           Holds(rows[s], s, lo, hi)
    PROVE  /\ History(s) \in Seq(Row) /\ Consecutive(History(s), s)
           /\ rows[s] # {} => History(s) # <<>> /\ End(History(s)) = Bar(s, hi)
           /\ rows[s] = {} => History(s) = <<>>
<1> DEFINE t == ByClose(rows[s])
<1>1. t \in Seq(Row) /\ Consecutive(t, s)
  BY InOrder, InOrderConsecutive DEF Lists
<1>2. rows[s] # {} => t # <<>> /\ End(t) = Bar(s, hi)
  <2>1. rows[s] # {} => lo <= hi
    BY NewestRow
  <2>2. lo <= hi => t # <<>> /\ End(t) = Bar(s, hi)
    BY InOrderConsecutive
  <2> QED BY <2>1, <2>2
<1>3. rows[s] = {} => t = <<>>
  <2>1. HAVE rows[s] = {}
  <2>2. lo > hi
    BY <2>1 DEF Holds
  <2> QED BY <2>2, InOrderConsecutive
<1>4. History(s) = Lasts(t, WarmupRows)
  BY DEF History
<1>5. WarmupRows \in Nat \ {0}
  BY FeedAssumption
<1> HIDE DEF t
<1>6. /\ Lasts(t, WarmupRows) \in Seq(Row) /\ Consecutive(Lasts(t, WarmupRows), s)
      /\ t # <<>> => Lasts(t, WarmupRows) # <<>> /\ End(Lasts(t, WarmupRows)) = End(t)
      /\ t = <<>> => Lasts(t, WarmupRows) = <<>>
  BY <1>1, <1>5, LastsFacts
<1> QED BY <1>2, <1>3, <1>4, <1>6

\* What a later replay reads begins with the bar that follows the one done.
LEMMA LaterFacts ==
    ASSUME NEW s \in Series, NEW lo \in Nat \ {0}, NEW hi \in Nat,
           Holds(rows[s], s, lo, hi), NEW k \in lo .. hi
    PROVE  LET q == RowsAfter(s, Bar(s, k)) IN
           /\ q \in Seq(Row) /\ Consecutive(q, s)
           /\ k < hi => /\ q # <<>> /\ Head(q).close = Bar(s, k) + Length[s]
                        /\ \E j \in lo .. hi : End(q) = Bar(s, j)
           /\ k = hi => q = <<>>
<1> DEFINE L == {r \in rows[s] : r.close > Bar(s, k)}
           t == ByClose(L)
           m == k + 1
           n == SetMin({Len(t), ReplayLimit})
           q == RowsAfter(s, Bar(s, k))
<1>1. k \in Nat \ {0} /\ k + 1 \in Nat \ {0} /\ Bar(s, k) \in Nat /\ k <= hi
  BY BarFacts
<1>2. q = SubSeq(t, 1, n)
  <2>1. Bar(s, k) # None
    BY <1>1 DEF None
  <2> QED BY <2>1, Zenon DEF RowsAfter
<1>3. Holds(L, s, k + 1, hi)
  <2>1. ASSUME NEW r \in L PROVE \E j \in k + 1 .. hi : r.close = Bar(s, j)
    <3>1. PICK j \in lo .. hi : r.close = Bar(s, j)
      BY DEF Holds
    <3>2. j \in Nat /\ k < j
      BY <1>1, <3>1, BarFacts
    <3> QED BY <1>1, <3>1, <3>2
  <2>2. ASSUME NEW j \in k + 1 .. hi PROVE \E r \in L : r.close = Bar(s, j)
    <3>1. j \in lo .. hi /\ j \in Nat /\ k < j
      BY <1>1
    <3>2. PICK r \in rows[s] : r.close = Bar(s, j)
      BY <3>1 DEF Holds
    <3>3. r.close > Bar(s, k)
      BY <1>1, <3>1, <3>2, BarFacts
    <3> QED BY <3>2, <3>3
  <2> QED BY <2>1, <2>2 DEF Holds
<1> HIDE DEF L
<1>4. m \in Nat \ {0} /\ Holds(L, s, m, hi)
  BY <1>1, <1>3
<1> HIDE DEF m
<1>5. /\ t \in Seq(Row) /\ Len(t) = IF m > hi THEN 0 ELSE hi - m + 1
      /\ \A i \in 1 .. Len(t) : t[i].close = Bar(s, m + i - 1)
  <2>1. Lists(t, s, m, hi)
    BY <1>4, InOrder
  <2> QED BY <2>1 DEF Lists
<1>6. /\ Consecutive(t, s)
      /\ m <= hi => t # <<>> /\ t[1].close = Bar(s, m)
      /\ m > hi => t = <<>>
  BY <1>4, InOrderConsecutive
<1>7. ReplayLimit \in Nat \ {0}
  BY FeedAssumption
<1> HIDE DEF t
<1>8. n = IF Len(t) <= ReplayLimit THEN Len(t) ELSE ReplayLimit
  <2>1. Len(t) \in Int /\ ReplayLimit \in Int
    BY <1>5, <1>7
  <2> QED BY <2>1, OfTwo
<1> HIDE DEF n, q
<1>9. CASE k < hi
  <2>1. Len(t) = hi - k /\ n \in 1 .. Len(t) /\ 1 \in 1 .. Len(t)
    <3>1. m = k + 1 /\ m <= hi /\ Len(t) = hi - m + 1
      BY <1>1, <1>5, <1>9 DEF m
    <3>2. Len(t) = hi - k /\ Len(t) \in Nat \ {0}
      BY <1>1, <1>9, <3>1
    <3> QED BY <1>8, <1>7, <3>2
  <2>2. /\ q \in Seq(Row) /\ Len(q) = n - 1 + 1 /\ q # <<>> /\ Consecutive(q, s)
        /\ \A i \in 1 .. n - 1 + 1 : q[i] = t[1 + i - 1]
        /\ End(q) = t[n].close
    <3>1. n \in 1 .. Len(t) /\ 1 \in 1 .. Len(t)
      BY <2>1
    <3>2. /\ SubSeq(t, 1, n) \in Seq(Row) /\ Len(SubSeq(t, 1, n)) = n - 1 + 1
          /\ SubSeq(t, 1, n) # <<>> /\ Consecutive(SubSeq(t, 1, n), s)
          /\ \A i \in 1 .. n - 1 + 1 : SubSeq(t, 1, n)[i] = t[1 + i - 1]
          /\ End(SubSeq(t, 1, n)) = t[n].close
      BY <1>5, <1>6, <3>1, PartIsConsecutive, ZenonT(30)
    <3> QED BY <1>2, <3>2, Zenon
  <2>3. Head(q) = t[1]
    BY <2>1, <2>2
  <2>4. t[1].close = Bar(s, k) + Length[s]
    <3>1. m <= hi /\ Bar(s, m) = Bar(s, k) + Length[s]
      BY <1>1, <1>9, BarFacts DEF m
    <3> QED BY <1>6, <3>1
  <2>5. k + n \in lo .. hi /\ m + n - 1 = k + n
    BY <1>1, <2>1 DEF m
  <2>6. t[n].close = Bar(s, k + n)
    BY <1>5, <2>1, <2>5
  <2> QED BY <1>9, <2>2, <2>3, <2>4, <2>5, <2>6 DEF q
<1>10. CASE k = hi
  <2>1. t = <<>> /\ n = 0
    <3>1. m > hi
      BY <1>1, <1>10 DEF m
    <3> QED BY <1>5, <1>6, <1>8, <1>7, <3>1
  <2>2. q = <<>>
    BY <1>2, <2>1
  <2> QED BY <1>10, <2>2 DEF q, Consecutive
<1> QED BY <1>1, <1>9, <1>10

\* A fetch begins no later than the bar it goes on from, so it rewrites it, as
\* long as the bars missed are no more than MaxCatchup.
LEMMA CutoffFacts ==
    ASSUME RepairBars # 0, NEW s \in Series, NEW from \in Nat \cup {None}, end \in Nat,
           from # None => end - from <= MaxCatchup * Length[s]
    PROVE  Cutoff(s, from) \in Int /\ (from # None => Cutoff(s, from) <= from)
<1> DEFINE L == Length[s]
           floor == end - L * MinCatchup
           oldest == end - L * MaxCatchup
           wanted == SetMin({from - L * RepairBars, floor})
<1>1. L \in Nat \ {0} /\ MinCatchup \in Nat /\ MaxCatchup \in Nat /\ Lookback \in Nat
      /\ RepairBars \in Nat \ {0}
  BY FeedAssumption
<1>2. /\ L * MinCatchup \in Nat /\ L * MaxCatchup \in Nat
      /\ from # None => end - from <= L * MaxCatchup
  <2>1. L * MaxCatchup = MaxCatchup * L
    BY <1>1
  <2> QED BY <1>1, <2>1
<1>3. L * RepairBars \in Nat /\ L * RepairBars >= 1
  <2>1. L * RepairBars = RepairBars * L /\ 0 * L = 0 /\ 0 < RepairBars
    BY <1>1
  <2>2. 0 * L + L <= RepairBars * L
    BY <1>1, <2>1, Multiples
  <2> QED BY <1>1, <2>1, <2>2
<1>4. floor \in Int /\ oldest \in Int /\ (from # None => oldest <= from)
  BY <1>1, <1>2
<1>5. CASE from = None
  <2>1. FetchStart(s, from) = SetMin({end - Lookback, floor})
    BY <1>5, Zenon DEF FetchStart
  <2> DEFINE back == end - Lookback
  <2>2. back \in Int
    BY <1>1
  <2> HIDE DEF back, floor
  <2>3. FetchStart(s, from) \in Int
    BY <1>4, <2>1, <2>2, OfTwo DEF back
  <2> QED BY <1>5, <2>3 DEF Cutoff
<1>6. CASE from # None
  <2>1. from \in Nat /\ from - L * RepairBars \in Int /\ from - L * RepairBars + 1 \in Int
        /\ from - L * RepairBars + 1 <= from
    BY <1>3, <1>6
  <2>7. oldest <= from
    BY <1>4, <1>6
  <2> HIDE DEF floor, oldest, L
  <2>2. wanted \in Int /\ wanted <= from
    <3> DEFINE back == from - L * RepairBars
    <3>1. back \in Int /\ back <= from
      BY <1>3, <2>1 DEF L
    <3> HIDE DEF back
    <3>2. wanted = SetMin({back, floor})
      BY DEF back
    <3>3. SetMin({back, floor}) = IF back <= floor THEN back ELSE floor
      BY <1>4, <3>1, OfTwo
    <3> QED BY <1>4, <2>1, <3>1, <3>2, <3>3
  <2>3. SetMax({wanted, oldest}) \in Int /\ SetMax({wanted, oldest}) <= from
    <3> HIDE DEF wanted
    <3> QED BY <1>4, <2>1, <2>2, <2>7, OfTwo
  <2>4. FetchStart(s, from) = SetMax({wanted, oldest})
    BY <1>6, Zenon DEF FetchStart, floor, oldest, L
  <2>5. Cutoff(s, from) = SetMax({FetchStart(s, from), from - L * RepairBars + 1})
    BY <1>6, Zenon DEF Cutoff, L
  <2>6. FetchStart(s, from) \in Int /\ FetchStart(s, from) <= from
    BY <2>3, <2>4
  <2> QED BY <1>6, <2>1, <2>5, <2>6, OfTwo
<1> QED BY <1>5, <1>6

\* The bars a fetch writes: all that closed since the cutoff.
LEMMA ComputedFacts ==
    ASSUME NEW s \in Series, NEW from, Cutoff(s, from) \in Int, now \in Nat, asOf \in Nat
    PROVE  \E a \in Nat \ {0}, b \in Nat :
              /\ Holds(Computed(s, from), s, a, b)
              /\ Bar(s, b) <= now /\ now < Bar(s, b) + Length[s]
              /\ \A k \in Nat \ {0} : Bar(s, k) >= Cutoff(s, from) => a <= k
<1> DEFINE L == Length[s]
           c == Cutoff(s, from)
           N == Computed(s, from)
<1>1. L \in Nat \ {0}
  BY FeedAssumption
<1>2. PICK b \in Nat : Bar(s, b) <= now /\ now < Bar(s, b) + L
  BY <1>1, LastMultiple DEF Bar
<1>3. PICK a \in Nat \ {0} : \A k \in Nat \ {0} : Bar(s, k) >= c <=> a <= k
  <2>1. CASE c <= 0
    <3>1. \A k \in Nat \ {0} : Bar(s, k) >= c <=> 1 <= k
      BY <2>1, BarFacts
    <3> QED BY <3>1
  <2>2. CASE c > 0
    <3>1. c - 1 \in Nat
      BY <2>2
    <3>2. PICK j \in Nat : Bar(s, j) <= c - 1 /\ c - 1 < Bar(s, j) + L
      BY <1>1, <3>1, LastMultiple DEF Bar
    <3>3. ASSUME NEW k \in Nat \ {0} PROVE Bar(s, k) >= c <=> j + 1 <= k
      <4>1. CASE j < k
        <5>1. Bar(s, j) + L <= Bar(s, k) /\ Bar(s, k) \in Nat /\ Bar(s, j) \in Nat
          BY <4>1, BarFacts
        <5> QED BY <1>1, <3>1, <3>2, <4>1, <5>1
      <4>2. CASE ~ (j < k)
        <5>1. k = j \/ k < j
          BY <4>2
        <5>2. Bar(s, k) <= Bar(s, j) /\ Bar(s, k) \in Nat /\ Bar(s, j) \in Nat
          BY <5>1, BarFacts
        <5> QED BY <3>1, <3>2, <4>2, <5>2
      <4> QED BY <4>1, <4>2
    <3>4. j + 1 \in Nat \ {0}
      OBVIOUS
    <3> QED BY <3>3, <3>4
  <2> QED BY <2>1, <2>2
<1>4. \A x : x \in N <=>
          \E k \in 1 .. now : k % L = 0 /\ k >= c /\ x = [close |-> k, whole |-> k <= asOf]
  BY DEF Computed
<1> HIDE DEF N, c
<1>5. N \subseteq Row /\ \A r, q \in N : r.close = q.close => r = q
  <2>1. N \subseteq Row
    <3>1. ASSUME NEW x \in N PROVE x \in Row
      <4>1. PICK k \in 1 .. now : x = [close |-> k, whole |-> k <= asOf]
        BY <1>4
      <4>2. k \in Nat /\ (k <= asOf) \in BOOLEAN
        OBVIOUS
      <4> QED BY <4>1, <4>2 DEF Row
    <3> QED BY <3>1
  <2>2. ASSUME NEW r \in N, NEW q \in N, r.close = q.close PROVE r = q
    <3>1. PICK k \in 1 .. now : r = [close |-> k, whole |-> k <= asOf]
      BY <1>4
    <3>2. PICK j \in 1 .. now : q = [close |-> j, whole |-> j <= asOf]
      BY <1>4
    <3>3. k = j
      BY <2>2, <3>1, <3>2
    <3> QED BY <3>1, <3>2, <3>3
  <2> QED BY <2>1, <2>2
<1>6. ASSUME NEW r \in N PROVE \E k \in a .. b : r.close = Bar(s, k)
  <2>1. PICK n \in 1 .. now :
            n % L = 0 /\ n >= c /\ r = [close |-> n, whole |-> n <= asOf]
    BY <1>4
  <2>2. PICK k \in Nat : n = k * L
    <3>1. n \in Nat
      OBVIOUS
    <3> QED BY <1>1, <2>1, <3>1, MultipleIs
  <2>3. n = Bar(s, k)
    BY <2>2 DEF Bar
  <2>4. k # 0
    BY <2>3, BarFacts
  <2>5. a <= k
    BY <1>3, <2>1, <2>3, <2>4
  <2>6. k <= b
    <3>1. ASSUME b < k PROVE FALSE
      <4>1. Bar(s, b) + L <= Bar(s, k) /\ Bar(s, b) \in Nat
        BY <3>1, BarFacts
      <4> QED BY <1>1, <1>2, <2>3, <4>1
    <3> QED BY <3>1
  <2>7. k \in a .. b /\ r.close = Bar(s, k)
    BY <2>1, <2>3, <2>5, <2>6
  <2> QED BY <2>7
<1>7. ASSUME NEW k \in a .. b PROVE \E r \in N : r.close = Bar(s, k)
  <2>1. k \in Nat \ {0} /\ a <= k /\ k <= b
    OBVIOUS
  <2>2. Bar(s, k) >= c /\ Bar(s, k) \in Nat /\ Bar(s, b) \in Nat
    BY <1>3, <2>1, BarFacts
  <2>3. Bar(s, k) % L = 0
    BY <1>1, <2>1, <2>2, MultipleIs DEF Bar
  <2>4. Bar(s, k) <= Bar(s, b)
    <3>1. k = b \/ k < b
      BY <2>1
    <3> QED BY <2>1, <2>2, <3>1, BarFacts
  <2>5. 0 < Bar(s, k)
    <3>1. 0 < k
      BY <2>1
    <3> QED BY <2>1, <3>1, BarFacts
  <2>6. Bar(s, k) \in 1 .. now
    BY <1>2, <2>2, <2>4, <2>5
  <2>7. [close |-> Bar(s, k), whole |-> Bar(s, k) <= asOf] \in N
    BY <1>4, <2>2, <2>3, <2>6
  <2> QED BY <2>7
<1>8. Holds(N, s, a, b)
  BY <1>5, <1>6, <1>7 DEF Holds
<1> QED BY <1>2, <1>3, <1>8 DEF N, c

\* Rows written over rows: the bars of both.
LEMMA UpsertFacts ==
    ASSUME NEW s \in Series, NEW R, NEW N,
           NEW lo \in Nat \ {0}, NEW hi \in Nat, Holds(R, s, lo, hi),
           NEW a \in Nat \ {0}, NEW b \in Nat, Holds(N, s, a, b),
           R = {} \/ (lo <= hi /\ hi <= b /\ a <= hi)
    PROVE  \E l \in Nat \ {0} : Holds(Upsert(R, N), s, l, b)
<1>1. CASE R = {}
  <2>1. Upsert(R, N) = N
    BY <1>1 DEF Upsert
  <2> QED BY <2>1
<1>2. CASE lo <= hi /\ hi <= b /\ a <= hi
  <2> DEFINE l == IF lo < a THEN lo ELSE a
             U == Upsert(R, N)
  <2>1. U \subseteq Row
    BY DEF Upsert, Holds
  <2>2. \A r, q \in U : r.close = q.close => r = q
    BY DEF Upsert, Holds, Closes
  <2>3. ASSUME NEW r \in U PROVE \E k \in l .. b : r.close = Bar(s, k)
    <3>1. CASE r \in R
      <4>1. PICK k \in lo .. hi : r.close = Bar(s, k)
        BY <3>1 DEF Holds
      <4>2. k \in l .. b
        BY <1>2
      <4> QED BY <4>1, <4>2
    <3>2. CASE r \in N
      <4>1. PICK k \in a .. b : r.close = Bar(s, k)
        BY <3>2 DEF Holds
      <4>2. k \in l .. b
        OBVIOUS
      <4> QED BY <4>1, <4>2
    <3> QED BY <3>1, <3>2 DEF Upsert
  <2>4. ASSUME NEW k \in l .. b PROVE \E r \in U : r.close = Bar(s, k)
    <3>1. CASE k \in a .. b
      <4>1. PICK r \in N : r.close = Bar(s, k)
        BY <3>1 DEF Holds
      <4> QED BY <4>1 DEF Upsert
    <3>2. CASE k \notin a .. b
      <4>1. k \in lo .. hi
        BY <1>2, <3>2
      <4>2. PICK r \in R : r.close = Bar(s, k)
        BY <4>1 DEF Holds
      <4>3. r.close \notin Closes(N)
        <5>1. ASSUME NEW q \in N, q.close = Bar(s, k) PROVE FALSE
          <6>1. PICK j \in a .. b : q.close = Bar(s, j)
            BY DEF Holds
          <6>2. j \in Nat /\ k \in Nat /\ Bar(s, j) = Bar(s, k)
            BY <4>1, <5>1, <6>1
          <6>3. j = k
            BY <6>2, BarFacts
          <6> QED BY <3>2, <6>3
        <5> QED BY <4>2, <5>1 DEF Closes
      <4> QED BY <4>2, <4>3 DEF Upsert
    <3> QED BY <3>1, <3>2
  <2>5. Holds(U, s, l, b)
    BY <2>1, <2>2, <2>3, <2>4 DEF Holds
  <2> QED BY <2>5
<1> QED BY <1>1, <1>2

-----------------------------------------------------------------------------
(* The inductive invariant.                                                *)

FeedTyped ==
    /\ now \in Nat /\ now <= MaxNow /\ end \in Nat /\ end <= now
    /\ rows \in [Series -> SUBSET Row] /\ hist \in [Series -> Seq(Row)]
    /\ since \in [Series -> Nat \cup {None}]
    /\ up \in BOOLEAN /\ pc \in {"wait", "series", "fetched", "read", "replay"}
    /\ pc \in {"fetched", "read", "replay"} => cur \in Series
    /\ queue \in Seq(Row) /\ late \in Nat /\ late <= MaxDelay

\* c is the close of a bar of s.
IsBar(s, c) == \E k \in Nat \ {0} : c = Bar(s, k) /\ Bar(s, k) <= now

\* The log of a series holds the bars from one to another, each once.
RowsOK(s) ==
    \E lo \in Nat \ {0}, hi \in Nat : Bar(s, hi) <= now /\ Holds(rows[s], s, lo, hi)

\* What is done is stored, unless the series was deleted since.
SinceOK(s) ==
    since[s] # None => /\ IsBar(s, since[s])
                       /\ rows[s] = {} \/ since[s] \in Closes(rows[s])

\* The history ends with what is done, unless its replay goes on.  After a
\* warmup nothing is taken as done yet, and it ends with the newest row.
Replaying(s) == pc = "replay" /\ cur = s /\ queue # <<>>
HistOK(s) ==
    /\ Consecutive(hist[s], s)
    /\ hist[s] # <<>> /\ ~ Replaying(s) =>
          IF since[s] = None THEN rows[s] # {} /\ End(hist[s]) = Latest(s)
          ELSE End(hist[s]) = since[s]

FetchedOK ==
    pc = "fetched" =>
        /\ asOf \in Nat /\ asOf <= now /\ now <= asOf + late
        /\ since[cur] = None => rows[cur] = {} /\ hist[cur] = <<>>

ReadOK ==
    pc = "read" =>
        /\ IsBar(cur, newest)
        /\ (rows[cur] = {} /\ hist[cur] = <<>>) \/ newest \in Closes(rows[cur])
        /\ since[cur] = None \/ newest > since[cur]
        /\ since[cur] = None => hist[cur] = <<>>

QueueOK ==
    /\ pc = "replay" => since[cur] # None
    /\ pc = "replay" /\ queue # <<>> =>
          /\ Consecutive(queue, cur) /\ End(queue) = since[cur]
          /\ hist[cur] = <<>> \/ Head(queue).close = End(hist[cur]) + Length[cur]

\* With the process the cache is gone, and what was done.
DownOK ==
    ~ up => pc = "wait" /\ \A s \in Series : since[s] = None /\ hist[s] = <<>>

SeriesOK == \A s \in Series : RowsOK(s) /\ SinceOK(s) /\ HistOK(s)

FeedInv ==
    /\ FeedTyped /\ SeriesOK /\ FetchedOK /\ ReadOK /\ QueueOK /\ DownOK
    /\ StoredHealed

\* The newest row, when there is one, is the last bar stored.
LEMMA LatestFacts ==
    ASSUME FeedTyped, NEW s \in Series, RowsOK(s)
    PROVE  /\ Latest(s) \in Nat \cup {None} /\ (Latest(s) = None <=> rows[s] = {})
           /\ Latest(s) # None =>
                 IsBar(s, Latest(s)) /\ Latest(s) \in Closes(rows[s])
<1>1. PICK lo \in Nat \ {0}, hi \in Nat : Bar(s, hi) <= now /\ Holds(rows[s], s, lo, hi)
  BY DEF RowsOK
<1>2. CASE rows[s] = {}
  BY <1>2 DEF Latest, None
<1>3. CASE rows[s] # {}
  <2>1. /\ lo <= hi /\ Bar(s, hi) \in Closes(rows[s])
        /\ SetMax(Closes(rows[s])) = Bar(s, hi)
    BY <1>1, <1>3, NewestRow
  <2>2. Latest(s) = Bar(s, hi) /\ Bar(s, hi) \in Nat /\ Bar(s, hi) # None
    BY <1>3, <2>1, BarFacts DEF Latest, None
  <2>3. hi \in Nat \ {0}
    BY <2>1
  <2> QED BY <1>1, <1>3, <2>1, <2>2, <2>3 DEF IsBar
<1> QED BY <1>2, <1>3

\* A fetch and the write that follows last no longer than a bar, and the bars
\* missed before it are no more than MaxCatchup.
WithinReach ==
    pc = "fetched" =>
        /\ now <= asOf + Length[cur]
        /\ since[cur] # None => end - since[cur] <= MaxCatchup * Length[cur]

-----------------------------------------------------------------------------
(* The steps.                                                              *)

LEMMA FeedStarts == Init => FeedInv
<1> SUFFICES ASSUME Init PROVE FeedInv
  OBVIOUS
<1>1. FeedTyped
  <2>1. MaxNow \in Nat /\ MaxDelay \in Nat
    BY FeedAssumption
  <2> QED BY <2>1 DEF Init, Idle, FeedTyped, None
<1>2. ASSUME NEW s \in Series PROVE RowsOK(s) /\ SinceOK(s) /\ HistOK(s)
  <2>1. RowsOK(s)
    <3>1. Holds(rows[s], s, 1, 0) /\ Bar(s, 0) <= now
      BY NoRows, BarFacts DEF Init
    <3> QED BY <3>1 DEF RowsOK
  <2>2. SinceOK(s)
    BY DEF Init, SinceOK
  <2>3. HistOK(s)
    BY DEF Init, HistOK, Consecutive
  <2> QED BY <2>1, <2>2, <2>3
<1>3. FetchedOK /\ ReadOK /\ QueueOK /\ DownOK /\ StoredHealed
  BY DEF Init, FetchedOK, ReadOK, QueueOK, DownOK, StoredHealed
<1> QED BY <1>1, <1>2, <1>3 DEF FeedInv, SeriesOK

\* A bar stays one as time goes on.
LEMMA BarsStay ==
    ASSUME NEW s \in Series, NEW c, IsBar(s, c), now \in Nat, now' \in Nat, now <= now'
    PROVE  IsBar(s, c)'
<1>1. PICK k \in Nat \ {0} : c = Bar(s, k) /\ Bar(s, k) <= now
  BY DEF IsBar
<1>2. Bar(s, k) \in Nat
  BY BarFacts
<1> QED BY <1>1, <1>2 DEF IsBar

\* Steps that touch neither the log, nor the cache, nor what is done.
Still ==
    /\ UNCHANGED <<rows, hist, since, up>> /\ now <= now'
    /\ \/ /\ pc' \in {"wait", "series"} /\ ~ (pc = "replay" /\ queue # <<>>)
          /\ up \/ pc' = "wait"
       \/ /\ UNCHANGED <<pc, cur, asOf, newest, queue>>
          /\ pc = "fetched" => now' <= asOf + late'

LEMMA StillKeeps ==
    ASSUME FeedInv, FeedTyped', Still
    PROVE  FeedInv'
<1>1. /\ now \in Nat /\ now' \in Nat /\ now <= now'
      /\ rows' = rows /\ hist' = hist /\ since' = since /\ up' = up
  BY DEF FeedInv, FeedTyped, Still
<1>2. ASSUME NEW s \in Series PROVE RowsOK(s)' /\ SinceOK(s)' /\ HistOK(s)'
  <2>1. RowsOK(s) /\ SinceOK(s) /\ HistOK(s)
    BY DEF FeedInv, SeriesOK
  <2>2. RowsOK(s)'
    <3>1. PICK lo \in Nat \ {0}, hi \in Nat :
              Bar(s, hi) <= now /\ Holds(rows[s], s, lo, hi)
      BY <2>1 DEF RowsOK
    <3>2. Bar(s, hi) <= now' /\ Holds(rows'[s], s, lo, hi)
      BY <1>1, <3>1, BarFacts
    <3> QED BY <3>2 DEF RowsOK
  <2>3. SinceOK(s)'
    BY <1>1, <2>1, BarsStay DEF SinceOK
  <2>4. HistOK(s)'
    <3>1. Replaying(s) => Replaying(s)'
      BY DEF Still, Replaying
    <3>2. Latest(s)' = Latest(s)
      BY <1>1 DEF Latest
    <3> QED BY <1>1, <2>1, <3>1, <3>2 DEF HistOK
  <2> QED BY <2>2, <2>3, <2>4
<1>3. FetchedOK' /\ QueueOK'
  <2>1. CASE pc' \in {"wait", "series"}
    BY <2>1 DEF FetchedOK, QueueOK
  <2>2. CASE /\ UNCHANGED <<pc, cur, asOf, newest, queue>>
             /\ pc = "fetched" => now' <= asOf + late'
    BY <1>1, <2>2 DEF FeedInv, FetchedOK, QueueOK
  <2> QED BY <2>1, <2>2 DEF Still
<1>4. ReadOK'
  <2>1. CASE pc' \in {"wait", "series"}
    BY <2>1 DEF ReadOK
  <2>2. CASE UNCHANGED <<pc, cur, asOf, newest, queue>>
    <3>1. SUFFICES ASSUME pc = "read" PROVE ReadOK'
      BY <2>2 DEF ReadOK
    <3>2. cur \in Series /\ IsBar(cur, newest)
      BY <3>1 DEF FeedInv, FeedTyped, ReadOK
    <3>3. cur' = cur /\ newest' = newest /\ IsBar(cur, newest)'
      BY <1>1, <2>2, <3>2, BarsStay
    <3> QED BY <1>1, <2>2, <3>1, <3>3 DEF FeedInv, ReadOK
  <2> QED BY <2>1, <2>2 DEF Still
<1>5. DownOK'
  BY <1>1 DEF FeedInv, DownOK, Still
<1>6. StoredHealed'
  BY <1>1 DEF FeedInv, StoredHealed, Latest
<1> QED BY <1>2, <1>3, <1>4, <1>5, <1>6 DEF FeedInv, SeriesOK

LEMMA StillSteps ==
    ASSUME FeedInv,
           \/ Begin \/ CycleLost \/ StoreFails \/ ReplayDone \/ EndCycle \/ Tick
           \/ \E s \in Series : Add(s)
    PROVE  FeedInv'
<1>1. FeedTyped /\ MaxNow \in Nat /\ MaxDelay \in Nat
  BY FeedAssumption DEF FeedInv
<1>2. CASE Begin
  <2>1. FeedTyped'
    BY <1>1, <1>2 DEF Begin, FeedTyped, cacheVars
  <2>2. Still
    BY <1>1, <1>2 DEF Begin, Still, FeedTyped, cacheVars
  <2> QED BY <2>1, <2>2, StillKeeps
<1>3. CASE CycleLost
  <2>1. FeedTyped'
    BY <1>1, <1>3 DEF CycleLost, FeedTyped, cacheVars, cycleVars
  <2>2. Still
    BY <1>1, <1>3 DEF CycleLost, Still, FeedTyped, cacheVars, cycleVars
  <2> QED BY <2>1, <2>2, StillKeeps
<1>4. CASE StoreFails
  <2>1. FeedTyped'
    BY <1>1, <1>4 DEF StoreFails, FeedTyped, cacheVars
  <2>2. Still
    BY <1>1, <1>4 DEF StoreFails, Still, FeedTyped, cacheVars
  <2> QED BY <2>1, <2>2, StillKeeps
<1>5. CASE ReplayDone
  <2>1. FeedTyped'
    BY <1>1, <1>5 DEF ReplayDone, FeedTyped, cacheVars
  <2>2. Still
    BY <1>1, <1>5 DEF ReplayDone, Still, FeedTyped, cacheVars
  <2> QED BY <2>1, <2>2, StillKeeps
<1>6. CASE EndCycle
  <2>1. FeedTyped'
    BY <1>1, <1>6 DEF EndCycle, FeedTyped, cacheVars
  <2>2. Still
    BY <1>1, <1>6 DEF EndCycle, Still, FeedTyped, cacheVars
  <2> QED BY <2>1, <2>2, StillKeeps
<1>7. CASE Tick
  <2>1. FeedTyped' /\ now' = now + 1
    BY <1>1, <1>7 DEF Tick, FeedTyped, cacheVars, cycleVars
  <2>2. ASSUME pc = "fetched" PROVE now' <= asOf + late'
    <3>1. up /\ late' = late + 1
      BY <1>7, <2>2 DEF Tick, FeedInv, DownOK
    <3>2. asOf \in Nat /\ now <= asOf + late
      BY <2>2 DEF FeedInv, FetchedOK
    <3> QED BY <1>1, <2>1, <3>1, <3>2 DEF FeedTyped
  <2>3. Still
    BY <1>1, <1>7, <2>1, <2>2 DEF Tick, Still, FeedTyped, cacheVars, cycleVars
  <2> QED BY <2>1, <2>3, StillKeeps
<1>8. ASSUME NEW s \in Series, Add(s) PROVE FeedInv'
  <2>1. FeedTyped'
    BY <1>1, <1>8 DEF Add, FeedTyped, cacheVars, cycleVars
  <2>2. ASSUME pc = "fetched" PROVE now' <= asOf + late'
    BY <1>1, <1>8, <2>2 DEF Add, FeedInv, FetchedOK, FeedTyped
  <2>3. Still
    BY <1>1, <1>8, <2>2 DEF Add, Still, FeedTyped, cacheVars, cycleVars
  <2> QED BY <2>1, <2>3, StillKeeps
<1> QED BY <1>2, <1>3, <1>4, <1>5, <1>6, <1>7, <1>8

\* A step that takes the newest row of a series as done.
LEMMA SeededKeeps ==
    ASSUME FeedInv, NEW s \in Series, Seeded(s), up, pc = "series",
           UNCHANGED <<now, rows, hist, up, end, queue, late>>,
           \/ pc' = "series" /\ cur' = cur
           \/ pc' = "fetched" /\ cur' = s /\ asOf' = now
    PROVE  FeedInv'
<1>1. /\ FeedTyped /\ RowsOK(s) /\ SinceOK(s) /\ HistOK(s)
      /\ now' = now /\ rows' = rows /\ hist' = hist /\ up' = up
  BY DEF FeedInv, SeriesOK
<1>2. since'[s] = Since(s) /\ \A t \in Series \ {s} : since'[t] = since[t]
  BY <1>1 DEF Seeded, FeedTyped
<1>3. /\ Latest(s) \in Nat \cup {None} /\ (Latest(s) = None <=> rows[s] = {})
      /\ Latest(s) # None => IsBar(s, Latest(s)) /\ Latest(s) \in Closes(rows[s])
  BY <1>1, LatestFacts
<1>4. FeedTyped'
  BY <1>1, <1>3 DEF FeedTyped, Seeded, Since
<1>5. ~ Replaying(s)' /\ ~ Replaying(s)
  BY DEF Replaying
<1>6. HistOK(s)' /\ SinceOK(s)'
  <2>1. CASE since[s] = None
    <3>1. since'[s] = Latest(s)
      BY <1>2, <2>1 DEF Since
    <3>2. SinceOK(s)'
      BY <1>1, <1>3, <3>1 DEF SinceOK, IsBar
    <3>3. HistOK(s)'
      BY <1>1, <1>3, <1>5, <2>1, <3>1 DEF HistOK
    <3> QED BY <3>2, <3>3
  <2>2. CASE since[s] # None
    <3>1. since'[s] = since[s]
      BY <1>2, <2>2 DEF Since
    <3>2. SinceOK(s)'
      BY <1>1, <3>1 DEF SinceOK, IsBar
    <3>3. HistOK(s)'
      BY <1>1, <1>5, <2>2, <3>1 DEF HistOK
    <3> QED BY <3>2, <3>3
  <2> QED BY <2>1, <2>2
<1>7. ASSUME NEW t \in Series PROVE RowsOK(t)' /\ SinceOK(t)' /\ HistOK(t)'
  <2>1. RowsOK(t) /\ SinceOK(t) /\ HistOK(t)
    BY DEF FeedInv, SeriesOK
  <2>2. RowsOK(t)'
    BY <1>1, <2>1 DEF RowsOK
  <2>3. CASE t = s
    BY <1>6, <2>2, <2>3
  <2>4. CASE t # s
    <3>1. since'[t] = since[t]
      BY <1>2, <2>4
    <3>2. SinceOK(t)'
      BY <1>1, <2>1, <3>1 DEF SinceOK, IsBar
    <3>3. ~ Replaying(t) /\ Latest(t)' = Latest(t)
      BY <1>1 DEF Replaying, Latest
    <3>4. HistOK(t)'
      BY <1>1, <2>1, <3>1, <3>3 DEF HistOK
    <3> QED BY <2>2, <3>2, <3>4
  <2> QED BY <2>3, <2>4
<1>8. FetchedOK'
  <2>1. SUFFICES ASSUME pc' = "fetched" PROVE FetchedOK'
    BY DEF FetchedOK
  <2>2. cur' = s /\ asOf' = now /\ late' = late
    BY <2>1
  <2>3. ASSUME since'[s] = None PROVE rows[s] = {} /\ hist[s] = <<>>
    <3>1. since[s] = None /\ Latest(s) = None
      BY <1>2, <2>3 DEF Since
    <3>2. rows[s] = {}
      BY <1>3, <3>1
    <3> QED BY <1>1, <1>5, <3>1, <3>2 DEF HistOK
  <2> QED BY <1>1, <2>2, <2>3 DEF FetchedOK, FeedTyped
<1>9. ReadOK' /\ QueueOK' /\ DownOK'
  BY <1>1 DEF ReadOK, QueueOK, DownOK
<1>10. StoredHealed'
  BY <1>1 DEF FeedInv, StoredHealed, Latest
<1> QED BY <1>4, <1>7, <1>8, <1>9, <1>10 DEF FeedInv, SeriesOK

LEMMA SeededSteps ==
    ASSUME FeedInv, NEW s \in Series, SkipSeries(s) \/ Fetch(s) \/ FetchFails(s)
    PROVE  FeedInv'
<1>1. CASE SkipSeries(s)
  BY <1>1, SeededKeeps DEF SkipSeries, cacheVars
<1>2. CASE Fetch(s)
  BY <1>2, SeededKeeps DEF Fetch, cacheVars
<1>3. CASE FetchFails(s)
  BY <1>3, SeededKeeps DEF FetchFails, cacheVars
<1> QED BY <1>1, <1>2, <1>3

LEMMA DeleteKeeps ==
    ASSUME FeedInv, NEW s \in Series, Delete(s)
    PROVE  FeedInv'
<1>1. /\ FeedTyped /\ up /\ rows' = [rows EXCEPT ![s] = {}]
      /\ hist' = [hist EXCEPT ![s] = <<>>]
      /\ UNCHANGED <<now, up, pc, end, cur, asOf, newest, queue, since, late>>
  BY DEF FeedInv, Delete, cycleVars
<1>2. /\ rows'[s] = {} /\ hist'[s] = <<>>
      /\ \A t \in Series \ {s} : rows'[t] = rows[t] /\ hist'[t] = hist[t]
  BY <1>1 DEF FeedTyped
<1>3. FeedTyped'
  <2>1. rows' \in [Series -> SUBSET Row] /\ hist' \in [Series -> Seq(Row)]
    BY <1>1 DEF FeedTyped
  <2> QED BY <1>1, <2>1 DEF FeedTyped
<1>4. ASSUME NEW t \in Series PROVE RowsOK(t)' /\ SinceOK(t)' /\ HistOK(t)'
  <2>1. RowsOK(t) /\ SinceOK(t) /\ HistOK(t)
    BY DEF FeedInv, SeriesOK
  <2>2. CASE t = s
    <3>1. RowsOK(t)'
      <4>1. Holds(rows'[t], t, 1, 0) /\ Bar(t, 0) <= now'
        BY <1>1, <1>2, <2>2, NoRows, BarFacts DEF FeedTyped
      <4> QED BY <4>1 DEF RowsOK
    <3>2. SinceOK(t)'
      BY <1>1, <1>2, <2>1, <2>2 DEF SinceOK, IsBar
    <3>3. HistOK(t)'
      BY <1>2, <2>2 DEF HistOK, Consecutive
    <3> QED BY <3>1, <3>2, <3>3
  <2>3. CASE t # s
    <3>1. rows'[t] = rows[t] /\ hist'[t] = hist[t]
      BY <1>2, <2>3
    <3>2. RowsOK(t)' /\ SinceOK(t)'
      BY <1>1, <2>1, <3>1 DEF RowsOK, SinceOK, IsBar
    <3>3. HistOK(t)'
      BY <1>1, <2>1, <3>1 DEF HistOK, Replaying, Latest
    <3> QED BY <3>2, <3>3
  <2> QED BY <2>2, <2>3
<1>5. FetchedOK' /\ ReadOK' /\ QueueOK' /\ DownOK'
  <2>1. FetchedOK'
    BY <1>1, <1>2 DEF FeedInv, FetchedOK, FeedTyped
  <2>2. ReadOK'
    BY <1>1, <1>2 DEF FeedInv, ReadOK, FeedTyped, IsBar
  <2>3. QueueOK'
    BY <1>1, <1>2 DEF FeedInv, QueueOK, FeedTyped
  <2>4. DownOK'
    BY <1>1 DEF DownOK
  <2> QED BY <2>1, <2>2, <2>3, <2>4
<1>6. StoredHealed'
  BY <1>1, <1>2 DEF FeedInv, StoredHealed, Latest
<1> QED BY <1>3, <1>4, <1>5, <1>6 DEF FeedInv, SeriesOK

LEMMA CrashKeeps ==
    ASSUME FeedInv, Crash
    PROVE  FeedInv'
<1>1. /\ FeedTyped /\ rows' = rows /\ now' = now /\ up' = FALSE /\ pc' = "wait"
      /\ late' = 0 /\ end' = 0 /\ queue' = <<>>
      /\ hist' = [s \in Series |-> <<>>] /\ since' = [s \in Series |-> None]
      /\ MaxDelay \in Nat
  BY FeedAssumption DEF FeedInv, Crash
<1>2. FeedTyped'
  <2>1. hist' \in [Series -> Seq(Row)] /\ since' \in [Series -> Nat \cup {None}]
    BY <1>1
  <2>2. late' \in Nat /\ late' <= MaxDelay /\ end' \in Nat /\ queue' \in Seq(Row)
    BY <1>1
  <2>3. now' \in Nat /\ now' <= MaxNow /\ end' <= now' /\ rows' \in [Series -> SUBSET Row]
    BY <1>1 DEF FeedTyped
  <2>4. up' \in BOOLEAN /\ pc' = "wait"
    BY <1>1
  <2> QED BY <2>1, <2>2, <2>3, <2>4 DEF FeedTyped
<1>3. ASSUME NEW t \in Series PROVE RowsOK(t)' /\ SinceOK(t)' /\ HistOK(t)'
  <2>1. RowsOK(t)
    BY DEF FeedInv, SeriesOK
  <2>2. RowsOK(t)' /\ SinceOK(t)'
    BY <1>1, <2>1 DEF RowsOK, SinceOK
  <2>3. HistOK(t)'
    BY <1>1 DEF HistOK, Consecutive
  <2> QED BY <2>2, <2>3
<1>4. FetchedOK' /\ ReadOK' /\ QueueOK' /\ DownOK'
  BY <1>1 DEF FetchedOK, ReadOK, QueueOK, DownOK
<1>5. StoredHealed'
  BY <1>1 DEF FeedInv, StoredHealed, Latest
<1> QED BY <1>2, <1>3, <1>4, <1>5 DEF FeedInv, SeriesOK

LEMMA BootKeeps ==
    ASSUME FeedInv, Boot
    PROVE  FeedInv'
<1>1. /\ FeedTyped /\ ~ up /\ pc = "wait" /\ \A s \in Series : since[s] = None
      /\ up' = TRUE /\ UNCHANGED <<now, rows, pc, end, cur, queue, since, late>>
  BY DEF FeedInv, Boot, DownOK, cycleVars
<1>2. PICK W \in {{s \in Series : Warm(s)}, {}} :
          hist' = [s \in Series |-> IF s \in W THEN Lasts(History(s), Keep) ELSE <<>>]
  BY DEF Boot
<1>3. ASSUME NEW t \in Series
      PROVE  /\ hist'[t] \in Seq(Row) /\ Consecutive(hist'[t], t)
             /\ hist'[t] # <<>> => rows[t] # {} /\ End(hist'[t]) = Latest(t)
  <2>1. CASE t \notin W
    BY <1>2, <2>1 DEF Consecutive
  <2>2. CASE t \in W
    <3>1. hist'[t] = Lasts(History(t), Keep) /\ Keep \in Nat \ {0}
      BY <1>2, <2>2, FeedAssumption
    <3>2. PICK lo \in Nat \ {0}, hi \in Nat : Holds(rows[t], t, lo, hi)
      BY DEF FeedInv, SeriesOK, RowsOK
    <3>3. /\ History(t) \in Seq(Row) /\ Consecutive(History(t), t)
          /\ rows[t] # {} => History(t) # <<>> /\ End(History(t)) = Bar(t, hi)
          /\ rows[t] = {} => History(t) = <<>>
      BY <3>2, HistoryFacts
    <3>4. rows[t] # {} => Latest(t) = Bar(t, hi)
      BY <3>2, NewestRow DEF Latest
    <3> HIDE DEF History, Lasts
    <3>5. /\ Lasts(History(t), Keep) \in Seq(Row)
          /\ Consecutive(Lasts(History(t), Keep), t)
          /\ History(t) # <<>> => End(Lasts(History(t), Keep)) = End(History(t))
          /\ History(t) = <<>> => Lasts(History(t), Keep) = <<>>
      BY <3>1, <3>3, LastsFacts
    <3> QED BY <3>1, <3>3, <3>4, <3>5
  <2> QED BY <2>1, <2>2
<1>4. FeedTyped'
  <2>1. hist' \in [Series -> Seq(Row)]
    BY <1>2, <1>3
  <2> QED BY <1>1, <2>1 DEF FeedTyped
<1>5. ASSUME NEW t \in Series PROVE RowsOK(t)' /\ SinceOK(t)' /\ HistOK(t)'
  <2>1. RowsOK(t)
    BY DEF FeedInv, SeriesOK
  <2>2. RowsOK(t)' /\ SinceOK(t)'
    BY <1>1, <2>1 DEF RowsOK, SinceOK
  <2>3. HistOK(t)'
    BY <1>1, <1>3 DEF HistOK, Latest
  <2> QED BY <2>2, <2>3
<1>6. FetchedOK' /\ ReadOK' /\ QueueOK' /\ DownOK'
  BY <1>1 DEF FetchedOK, ReadOK, QueueOK, DownOK
<1>7. StoredHealed'
  BY <1>1 DEF FeedInv, StoredHealed, Latest
<1> QED BY <1>4, <1>5, <1>6, <1>7 DEF FeedInv, SeriesOK

\* A bar that is stored is one of those held.
LEMMA WhichBar ==
    ASSUME NEW s \in Series, NEW R, NEW lo \in Nat \ {0}, NEW hi \in Nat,
           Holds(R, s, lo, hi), NEW k \in Nat
    PROVE  Bar(s, k) \in Closes(R) <=> k \in lo .. hi
<1>1. ASSUME Bar(s, k) \in Closes(R) PROVE k \in lo .. hi
  <2>1. PICK r \in R : r.close = Bar(s, k)
    BY <1>1 DEF Closes
  <2>2. PICK j \in lo .. hi : r.close = Bar(s, j)
    BY DEF Holds
  <2>3. j \in Nat /\ Bar(s, j) = Bar(s, k)
    BY <2>1, <2>2
  <2>4. j = k
    BY <2>3, BarFacts
  <2> QED BY <2>4
<1>2. ASSUME k \in lo .. hi PROVE Bar(s, k) \in Closes(R)
  <2>1. PICK r \in R : r.close = Bar(s, k)
    BY <1>2 DEF Holds
  <2> QED BY <2>1 DEF Closes
<1> QED BY <1>1, <1>2

\* A fetch rewrites the newest row, and of the bars it writes only the last
\* can be in progress when it was asked for.
LEMMA StoreHeals ==
    ASSUME RepairBars # 0, FeedInv, WithinReach, pc = "fetched"
    PROVE  LET N == Computed(cur, since[cur])
               R == Upsert(rows[cur], N)
           IN  /\ \E l \in Nat \ {0}, b \in Nat :
                     Bar(cur, b) <= now /\ Holds(R, cur, l, b)
               /\ N = {} \/ (IsBar(cur,
                     SetMax(Closes(N))) /\ SetMax(Closes(N)) \in Closes(R))
               /\ since[cur] = None \/ since[cur] \in Closes(R)
               /\ \A r \in R : r.whole \/ r.close = SetMax(Closes(R))
<1> DEFINE s == cur
           N == Computed(s, since[s])
           R == Upsert(rows[s], N)
           L == Length[s]
<1>1. /\ s \in Series /\ now \in Nat /\ asOf \in Nat /\ end \in Nat
      /\ since[s] \in Nat \cup {None} /\ L \in Nat \ {0} /\ now <= asOf + L
      /\ since[s] # None => end - since[s] <= MaxCatchup * L
  BY FeedAssumption DEF FeedInv, FeedTyped, FetchedOK, WithinReach
<1>2. RowsOK(s) /\ SinceOK(s) /\ (since[s] = None => rows[s] = {})
  BY <1>1 DEF FeedInv, SeriesOK, FetchedOK
<1>3. /\ Cutoff(s, since[s]) \in Int
      /\ since[s] # None => Cutoff(s, since[s]) <= since[s]
  BY <1>1, CutoffFacts
<1> HIDE DEF s, L
<1>4. PICK a \in Nat \ {0}, b \in Nat :
          /\ Holds(N, s, a, b) /\ Bar(s, b) <= now /\ now < Bar(s, b) + L
          /\ \A k \in Nat \ {0} : Bar(s, k) >= Cutoff(s, since[s]) => a <= k
  BY <1>1, <1>3, ComputedFacts DEF L
<1>5. ASSUME NEW k \in Nat, Bar(s, k) <= now PROVE k <= b
  <2>1. ASSUME b < k PROVE FALSE
    <3>1. Bar(s, b) + L <= Bar(s, k) /\ Bar(s, b) \in Nat /\ Bar(s, k) \in Nat
      BY <1>1, <2>1, BarFacts DEF L
    <3> QED BY <1>1, <1>4, <1>5, <3>1
  <2> QED BY <2>1
<1> HIDE DEF N
<1>6. PICK lo \in Nat \ {0}, hi \in Nat : Bar(s, hi) <= now /\ Holds(rows[s], s, lo, hi)
  BY <1>2 DEF RowsOK
<1>7. hi <= b
  BY <1>5, <1>6
<1>8. ASSUME since[s] # None
      PROVE  /\ \E k \in a .. b : since[s] = Bar(s, k)
             /\ rows[s] # {} => lo <= hi /\ a <= hi
  <2>1. PICK k \in Nat \ {0} : since[s] = Bar(s, k) /\ Bar(s, k) <= now
    BY <1>2, <1>8 DEF SinceOK, IsBar
  <2>2. a <= k
    BY <1>3, <1>4, <1>8, <2>1
  <2>3. k <= b
    BY <1>5, <2>1
  <2>4. ASSUME rows[s] # {} PROVE k \in lo .. hi
    BY <1>1, <1>2, <1>6, <1>8, <2>1, <2>4, WhichBar DEF SinceOK
  <2> QED BY <2>1, <2>2, <2>3, <2>4
<1>9. rows[s] = {} \/ (lo <= hi /\ hi <= b /\ a <= hi)
  BY <1>2, <1>7, <1>8
<1>10. PICK l \in Nat \ {0} : Holds(R, s, l, b)
  BY <1>1, <1>4, <1>6, <1>9, UpsertFacts
<1>11. Closes(N) \subseteq Closes(R)
  BY DEF Upsert, Closes
<1>12. N = {} \/ (IsBar(s, SetMax(Closes(N))) /\ SetMax(Closes(N)) \in Closes(R))
  <2>1. SUFFICES ASSUME N # {}
                 PROVE  IsBar(s, SetMax(Closes(N))) /\ SetMax(Closes(N)) \in Closes(R)
    OBVIOUS
  <2>2. a <= b /\ Bar(s, b) \in Closes(N) /\ SetMax(Closes(N)) = Bar(s, b)
    BY <1>1, <1>4, <2>1, NewestRow
  <2>3. b \in Nat \ {0}
    BY <2>2
  <2> QED BY <1>4, <1>11, <2>2, <2>3 DEF IsBar
<1>13. since[s] = None \/ since[s] \in Closes(R)
  <2>1. SUFFICES ASSUME since[s] # None PROVE since[s] \in Closes(R)
    OBVIOUS
  <2>2. PICK k \in a .. b : since[s] = Bar(s, k)
    BY <1>8, <2>1
  <2>3. k \in Nat
    OBVIOUS
  <2>4. Bar(s, k) \in Closes(N)
    BY <1>1, <1>4, <2>3, WhichBar
  <2> QED BY <1>11, <2>2, <2>4
<1>14. ASSUME NEW r \in R PROVE r.whole \/ r.close = SetMax(Closes(R))
  <2>1. SetMax(Closes(R)) = Bar(s, b)
    BY <1>1, <1>10, <1>14, NewestRow
  <2>2. CASE r \in N
    <3>1. PICK k \in a .. b : r.close = Bar(s, k)
      BY <1>4, <2>2 DEF Holds
    <3>2. CASE k = b
      BY <2>1, <3>1, <3>2
    <3>3. CASE k # b
      <4>1. k \in Nat /\ k < b
        BY <3>3
      <4>2. Bar(s, k) + L <= Bar(s, b) /\ Bar(s, k) \in Nat /\ Bar(s, b) \in Nat
        BY <1>1, <4>1, BarFacts DEF L
      <4>3. Bar(s, k) <= asOf
        BY <1>1, <1>4, <4>2
      <4>4. PICK c : r = [close |-> c, whole |-> c <= asOf]
        BY <2>2 DEF N, Computed
      <4> QED BY <3>1, <4>3, <4>4
    <3> QED BY <3>2, <3>3
  <2>3. CASE r \notin N
    <3>1. r \in rows[s] /\ r.close \notin Closes(N)
      BY <2>3 DEF Upsert
    <3>2. r.whole \/ r.close = Bar(s, hi)
      <4>1. r.whole \/ r.close = Latest(s)
        BY <1>1, <3>1 DEF FeedInv, StoredHealed
      <4>2. Latest(s) = Bar(s, hi)
        BY <1>1, <1>6, <3>1, NewestRow DEF Latest
      <4> QED BY <4>1, <4>2
    <3>3. since[s] # None
      BY <1>2, <3>1
    <3>4. hi \in a .. b
      BY <1>7, <1>8, <3>1, <3>3
    <3>5. Bar(s, hi) \in Closes(N)
      BY <1>1, <1>4, <3>4, WhichBar
    <3> QED BY <3>1, <3>2, <3>5
  <2> QED BY <2>2, <2>3
<1>15. \E l0 \in Nat \ {0}, b0 \in Nat : Bar(s, b0) <= now /\ Holds(R, s, l0, b0)
  BY <1>4, <1>10
<1> HIDE DEF R
<1> QED BY <1>12, <1>13, <1>14, <1>15 DEF R, N, s

LEMMA StoreKeeps ==
    ASSUME RepairBars # 0, FeedInv, WithinReach, Store
    PROVE  FeedInv'
<1> DEFINE s == cur
           N == Computed(s, since[s])
           R == Upsert(rows[s], N)
           latest == IF N = {} THEN None ELSE SetMax(Closes(N))
<1>1. /\ up /\ pc = "fetched" /\ s \in Series /\ FeedTyped
      /\ UNCHANGED <<now, hist, up, end, cur, asOf, queue, since, late>>
  BY DEF FeedInv, FeedTyped, Store, cacheVars
<1>2. /\ rows' = [rows EXCEPT ![s] = R] /\ newest' = latest
      /\ \/ /\ latest # None /\ (since[s] = None \/ latest > since[s])
            /\ pc' = "read"
         \/ pc' = "series"
  BY DEF Store
<1>3. /\ \E l \in Nat \ {0}, b \in Nat : Bar(s, b) <= now /\ Holds(R, s, l, b)
      /\ N = {} \/ (IsBar(s, SetMax(Closes(N))) /\ SetMax(Closes(N)) \in Closes(R))
      /\ since[s] = None \/ since[s] \in Closes(R)
      /\ \A r \in R : r.whole \/ r.close = SetMax(Closes(R))
  BY <1>1, StoreHeals
<1> HIDE DEF s, R
<1>4. rows'[s] = R /\ \A t \in Series \ {s} : rows'[t] = rows[t]
  BY <1>1, <1>2 DEF FeedTyped
<1>5. ASSUME NEW t \in Series PROVE RowsOK(t)' /\ SinceOK(t)' /\ HistOK(t)'
  <2>1. RowsOK(t) /\ SinceOK(t) /\ HistOK(t)
    BY DEF FeedInv, SeriesOK
  <2>2. CASE t = s
    <3>1. RowsOK(t)'
      BY <1>1, <1>3, <1>4, <2>2 DEF RowsOK
    <3>2. SinceOK(t)'
      BY <1>1, <1>3, <1>4, <2>1, <2>2 DEF SinceOK, IsBar
    <3>3. since[s] = None => hist[s] = <<>>
      BY <1>1 DEF FeedInv, FetchedOK, s
    <3>4. HistOK(t)'
      BY <1>1, <2>1, <2>2, <3>3 DEF HistOK, Replaying
    <3> QED BY <3>1, <3>2, <3>4
  <2>3. CASE t # s
    <3>1. rows'[t] = rows[t]
      BY <1>4, <2>3
    <3>2. RowsOK(t)' /\ SinceOK(t)'
      BY <1>1, <2>1, <3>1 DEF RowsOK, SinceOK, IsBar
    <3>3. HistOK(t)'
      BY <1>1, <2>1, <3>1 DEF HistOK, Replaying, Latest
    <3> QED BY <3>2, <3>3
  <2> QED BY <2>2, <2>3
<1>6. FeedTyped'
  <2>1. R \subseteq Row
    BY <1>3 DEF Holds
  <2>2. rows' \in [Series -> SUBSET Row]
    BY <1>1, <1>2, <2>1 DEF FeedTyped
  <2> QED BY <1>1, <1>2, <2>2 DEF FeedTyped, s
<1>7. ReadOK'
  <2>1. SUFFICES ASSUME pc' = "read" PROVE ReadOK'
    BY DEF ReadOK
  <2>2. latest # None /\ (since[s] = None \/ latest > since[s]) /\ latest = SetMax(Closes(N))
    BY <1>2, <2>1
  <2>3. IsBar(s, latest) /\ latest \in Closes(R)
    BY <1>3, <2>2
  <2>4. since[s] = None => hist[s] = <<>>
    BY <1>1 DEF FeedInv, FetchedOK, s
  <2> HIDE DEF latest
  <2> QED BY <1>1, <1>2, <1>4, <2>2, <2>3, <2>4 DEF ReadOK, IsBar, s
<1>8. FetchedOK' /\ QueueOK' /\ DownOK'
  BY <1>1, <1>2 DEF FetchedOK, QueueOK, DownOK
<1>9. StoredHealed'
  <2>1. ASSUME NEW t \in Series, NEW r \in rows'[t]
        PROVE  r.whole \/ r.close = Latest(t)'
    <3>1. CASE t = s
      <4>1. Latest(t)' = SetMax(Closes(R))
        BY <1>4, <2>1, <3>1 DEF Latest
      <4> QED BY <1>3, <1>4, <2>1, <3>1, <4>1
    <3>2. CASE t # s
      BY <1>4, <2>1, <3>2 DEF FeedInv, StoredHealed, Latest
    <3> QED BY <3>1, <3>2
  <2> QED BY <2>1 DEF StoredHealed
<1> QED BY <1>5, <1>6, <1>7, <1>8, <1>9 DEF FeedInv, SeriesOK

\* What is read for a replay follows the history, and ends with what is done.
LEMMA ReadFacts ==
    ASSUME FeedInv, pc = "read"
    PROVE  LET q == RowsAfter(cur, since[cur])
               done == IF q = <<>> THEN newest ELSE End(q)
           IN  /\ q \in Seq(Row) /\ done \in Nat /\ IsBar(cur, done)
               /\ rows[cur] = {} \/ done \in Closes(rows[cur])
               /\ q = <<>> => hist[cur] = <<>>
               /\ q # <<>> =>
                     /\ Consecutive(q, cur)
                     /\ \/ hist[cur] = <<>>
                        \/ Head(q).close = End(hist[cur]) + Length[cur]
<1> DEFINE s == cur
           q == RowsAfter(s, since[s])
           done == IF q = <<>> THEN newest ELSE End(q)
<1>1. /\ s \in Series /\ IsBar(s, newest)
      /\ (rows[s] = {} /\ hist[s] = <<>>) \/ newest \in Closes(rows[s])
      /\ since[s] = None \/ newest > since[s]
      /\ since[s] = None => hist[s] = <<>>
  BY DEF FeedInv, FeedTyped, ReadOK
<1>2. RowsOK(s) /\ SinceOK(s) /\ HistOK(s) /\ ~ Replaying(s)
  BY <1>1 DEF FeedInv, SeriesOK, Replaying
<1> HIDE DEF s
<1>3. PICK lo \in Nat \ {0}, hi \in Nat : Bar(s, hi) <= now /\ Holds(rows[s], s, lo, hi)
  BY <1>2 DEF RowsOK
<1>4. \A c : IsBar(s, c) => c \in Nat
  BY <1>1, BarFacts DEF IsBar
<1>5. CASE rows[s] = {}
  <2>1. q = <<>>
    <3>1. CASE since[s] = None
      BY <1>1, <1>3, <1>5, <3>1, HistoryFacts DEF RowsAfter
    <3>2. CASE since[s] # None
      <4> DEFINE L == {r \in rows[s] : r.close > since[s]}
                 t == ByClose(L)
      <4>1. L = {}
        BY <1>5
      <4> HIDE DEF L
      <4>2. t \in Seq(Row) /\ t = <<>>
        <5>1. Holds(L, s, 1, 0)
          BY <1>1, <4>1, NoRows
        <5>2. Lists(t, s, 1, 0)
          BY <1>1, <5>1, InOrder
        <5> QED BY <5>2 DEF Lists
      <4>3. q = SubSeq(t, 1, SetMin({Len(t), ReplayLimit}))
        BY <3>2, Zenon DEF RowsAfter, L
      <4> HIDE DEF t
      <4>4. SetMin({Len(t), ReplayLimit}) = 0
        <5>1. Len(t) = 0 /\ ReplayLimit \in Nat \ {0}
          BY <4>2, FeedAssumption
        <5>2. Len(t) \in Int /\ ReplayLimit \in Int
          BY <5>1
        <5>3. SetMin({Len(t), ReplayLimit}) = IF Len(t) <= ReplayLimit THEN Len(t)
                                             ELSE ReplayLimit
          BY <5>2, OfTwo
        <5> QED BY <5>1, <5>3
      <4> QED BY <4>2, <4>3, <4>4
    <3> QED BY <3>1, <3>2
  <2>2. hist[s] = <<>>
    BY <1>1, <1>5 DEF Closes
  <2>3. done = newest
    BY <2>1
  <2> HIDE DEF q
  <2> QED BY <1>1, <1>4, <1>5, <2>1, <2>2, <2>3 DEF q, s
<1>6. CASE rows[s] # {}
  <2>1. lo <= hi /\ newest \in Closes(rows[s])
    BY <1>1, <1>3, <1>6, NewestRow
  <2>2. ASSUME NEW j \in lo .. hi
        PROVE  IsBar(s, Bar(s, j)) /\ Bar(s, j) \in Closes(rows[s])
    <3>1. j \in Nat \ {0} /\ (j = hi \/ j < hi)
      OBVIOUS
    <3>2. Bar(s, j) <= now
      <4>1. Bar(s, j) \in Nat /\ Bar(s, hi) \in Nat
        BY <1>1, <3>1, BarFacts
      <4>2. j < hi => Bar(s, j) < Bar(s, hi)
        BY <1>1, <3>1, BarFacts
      <4>3. Bar(s, j) <= Bar(s, hi)
        BY <3>1, <4>1, <4>2
      <4> QED BY <1>3, <4>1, <4>3 DEF FeedInv, FeedTyped
    <3>3. Bar(s, j) \in Closes(rows[s])
      BY <1>1, <1>3, <3>1, WhichBar
    <3> QED BY <3>1, <3>2, <3>3 DEF IsBar
  <2>3. /\ q \in Seq(Row) /\ q # <<>> /\ Consecutive(q, s)
        /\ \E j \in lo .. hi : End(q) = Bar(s, j)
        /\ hist[s] = <<>> \/ Head(q).close = End(hist[s]) + Length[s]
    <3>1. CASE since[s] = None
      <4>1. q = History(s)
        BY <3>1 DEF RowsAfter
      <4>2. hi \in lo .. hi
        BY <2>1
      <4>3. hist[s] = <<>>
        BY <1>1, <3>1
      <4> HIDE DEF q
      <4> QED BY <1>1, <1>3, <1>6, <4>1, <4>2, <4>3, HistoryFacts
    <3>2. CASE since[s] # None
      <4>1. PICK k \in Nat \ {0} : since[s] = Bar(s, k)
        BY <1>2, <3>2 DEF SinceOK, IsBar
      <4>2. PICK m \in Nat \ {0} : newest = Bar(s, m)
        BY <1>1 DEF IsBar
      <4>3. k \in lo .. hi /\ m \in lo .. hi
        BY <1>1, <1>2, <1>3, <1>6, <2>1, <3>2, <4>1, <4>2, WhichBar DEF SinceOK
      <4>4. Bar(s, k) < Bar(s, m)
        BY <1>1, <3>2, <4>1, <4>2, BarFacts
      <4>5. k < m
        BY <1>1, <4>1, <4>2, <4>4, BarFacts
      <4>6. k < hi
        BY <4>3, <4>5
      <4>7. q = RowsAfter(s, Bar(s, k))
        BY <4>1
      <4> HIDE DEF q
      <4>8. /\ q \in Seq(Row) /\ Consecutive(q, s) /\ q # <<>>
            /\ Head(q).close = Bar(s, k) + Length[s]
            /\ \E j \in lo .. hi : End(q) = Bar(s, j)
        BY <1>1, <1>3, <4>3, <4>6, <4>7, LaterFacts
      <4>9. hist[s] = <<>> \/ End(hist[s]) = Bar(s, k)
        BY <1>2, <3>2, <4>1 DEF HistOK
      <4> QED BY <4>8, <4>9
    <3> QED BY <3>1, <3>2
  <2> HIDE DEF q
  <2>4. done = End(q)
    BY <2>3
  <2>5. IsBar(s, done) /\ done \in Closes(rows[s])
    BY <2>2, <2>3, <2>4
  <2> HIDE DEF done
  <2> QED BY <1>4, <2>3, <2>5 DEF q, done, s
<1> QED BY <1>5, <1>6

LEMMA ReadRowsKeeps ==
    ASSUME FeedInv, ReadRows
    PROVE  FeedInv'
<1> DEFINE s == cur
           q == RowsAfter(s, since[s])
           done == IF q = <<>> THEN newest ELSE End(q)
<1>1. /\ FeedTyped /\ up /\ pc = "read" /\ s \in Series /\ pc' = "replay" /\ queue' = q
      /\ UNCHANGED <<now, rows, hist, up, end, cur, late>>
  BY DEF FeedInv, FeedTyped, ReadRows, cacheVars
<1>2. since' = [since EXCEPT ![s] = done]
  BY DEF ReadRows, End
<1>3. /\ q \in Seq(Row) /\ done \in Nat /\ IsBar(s, done)
      /\ rows[s] = {} \/ done \in Closes(rows[s])
      /\ q = <<>> => hist[s] = <<>>
      /\ q # <<>> =>
            /\ Consecutive(q, s)
            /\ hist[s] = <<>> \/ Head(q).close = End(hist[s]) + Length[s]
  BY <1>1, ReadFacts
<1>4. q # <<>> => done = End(q)
  OBVIOUS
<1> HIDE DEF s, q, done
<1>5. since'[s] = done /\ \A t \in Series \ {s} : since'[t] = since[t]
  BY <1>1, <1>2 DEF FeedTyped
<1>6. done # None
  BY <1>3 DEF None
<1>7. ASSUME NEW t \in Series PROVE RowsOK(t)' /\ SinceOK(t)' /\ HistOK(t)'
  <2>1. RowsOK(t) /\ SinceOK(t) /\ HistOK(t)
    BY DEF FeedInv, SeriesOK
  <2>2. RowsOK(t)'
    BY <1>1, <2>1 DEF RowsOK
  <2>3. CASE t = s
    <3>1. SinceOK(t)'
      BY <1>1, <1>3, <1>5, <2>3 DEF SinceOK, IsBar
    <3>2. HistOK(t)'
      BY <1>1, <1>3, <2>1, <2>3 DEF HistOK, Replaying, s
    <3> QED BY <2>2, <3>1, <3>2
  <2>4. CASE t # s
    <3>1. since'[t] = since[t]
      BY <1>5, <2>4
    <3>2. SinceOK(t)'
      BY <1>1, <2>1, <3>1 DEF SinceOK, IsBar
    <3>3. HistOK(t)'
      BY <1>1, <2>1, <2>4, <3>1 DEF HistOK, Replaying, Latest, s
    <3> QED BY <2>2, <3>2, <3>3
  <2> QED BY <2>3, <2>4
<1>8. FeedTyped'
  <2>1. since' \in [Series -> Nat \cup {None}]
    BY <1>1, <1>2, <1>3 DEF FeedTyped
  <2> QED BY <1>1, <1>3, <2>1 DEF FeedTyped, s
<1>9. QueueOK'
  BY <1>1, <1>3, <1>4, <1>5, <1>6 DEF QueueOK, s
<1>10. FetchedOK' /\ ReadOK' /\ DownOK'
  BY <1>1 DEF FetchedOK, ReadOK, DownOK
<1>11. StoredHealed'
  BY <1>1 DEF FeedInv, StoredHealed, Latest
<1> QED BY <1>7, <1>8, <1>9, <1>10, <1>11 DEF FeedInv, SeriesOK

LEMMA ReplayKeeps ==
    ASSUME FeedInv, Replay
    PROVE  FeedInv'
<1> DEFINE s == cur
           A == Appended(hist[s], Head(queue))
<1>1. /\ FeedTyped /\ up /\ pc = "replay" /\ queue # <<>> /\ s \in Series
      /\ hist' = [hist EXCEPT ![s] = A] /\ queue' = Tail(queue)
      /\ UNCHANGED <<now, rows, up, pc, end, cur, asOf, newest, since, late>>
  BY DEF FeedInv, FeedTyped, Replay
<1>2. /\ hist[s] \in Seq(Row) /\ Consecutive(hist[s], s)
      /\ queue \in Seq(Row) /\ Consecutive(queue, s) /\ End(queue) = since[s]
      /\ hist[s] = <<>> \/ Head(queue).close = End(hist[s]) + Length[s]
      /\ since[s] # None
  BY <1>1 DEF FeedInv, FeedTyped, SeriesOK, HistOK, QueueOK
<1>3. /\ Head(queue) \in Row /\ Tail(queue) \in Seq(Row) /\ Consecutive(Tail(queue), s)
      /\ Tail(queue) = <<>> => End(queue) = Head(queue).close
      /\ Tail(queue) # <<>> =>
            /\ End(Tail(queue)) = End(queue)
            /\ Head(Tail(queue)).close = Head(queue).close + Length[s]
  BY <1>1, <1>2, TailFacts
<1>4. /\ A \in Seq(Row) /\ Consecutive(A, s) /\ A # <<>>
      /\ End(A) = Head(queue).close
  BY <1>1, <1>2, <1>3, AppendedFacts
<1> HIDE DEF s, A
<1>5. hist'[s] = A /\ \A t \in Series \ {s} : hist'[t] = hist[t]
  BY <1>1 DEF FeedTyped
<1>6. ASSUME NEW t \in Series PROVE RowsOK(t)' /\ SinceOK(t)' /\ HistOK(t)'
  <2>1. RowsOK(t) /\ SinceOK(t) /\ HistOK(t)
    BY DEF FeedInv, SeriesOK
  <2>2. RowsOK(t)' /\ SinceOK(t)'
    BY <1>1, <2>1 DEF RowsOK, SinceOK, IsBar
  <2>3. CASE t = s
    BY <1>1, <1>2, <1>3, <1>4, <1>5, <2>2, <2>3 DEF HistOK, Replaying, s
  <2>4. CASE t # s
    <3>1. hist'[t] = hist[t]
      BY <1>5, <2>4
    <3>2. HistOK(t)'
      BY <1>1, <2>1, <2>4, <3>1 DEF HistOK, Replaying, Latest, s
    <3> QED BY <2>2, <3>2
  <2> QED BY <2>3, <2>4
<1>7. FeedTyped'
  <2>1. hist' \in [Series -> Seq(Row)]
    BY <1>1, <1>4 DEF FeedTyped
  <2> QED BY <1>1, <1>3, <2>1 DEF FeedTyped, s
<1>8. QueueOK'
  BY <1>1, <1>2, <1>3, <1>4, <1>5 DEF QueueOK, s
<1>9. FetchedOK' /\ ReadOK' /\ DownOK'
  BY <1>1 DEF FetchedOK, ReadOK, DownOK
<1>10. StoredHealed'
  BY <1>1 DEF FeedInv, StoredHealed, Latest
<1> QED BY <1>6, <1>7, <1>8, <1>9, <1>10 DEF FeedInv, SeriesOK

LEMMA FeedStep ==
    ASSUME RepairBars # 0, FeedInv, WithinReach, [Next]_vars
    PROVE  FeedInv'
<1>1. CASE Store
  BY <1>1, StoreKeeps
<1>2. CASE ReadRows
  BY <1>2, ReadRowsKeeps
<1>3. CASE Replay
  BY <1>3, ReplayKeeps
<1>4. CASE \/ Begin \/ CycleLost \/ StoreFails \/ ReplayDone \/ EndCycle \/ Tick
           \/ \E s \in Series : Add(s)
  BY <1>4, StillSteps
<1>5. CASE \E s \in Series : SkipSeries(s) \/ Fetch(s) \/ FetchFails(s)
  BY <1>5, SeededSteps
<1>6. CASE \E s \in Series : Delete(s)
  BY <1>6, DeleteKeeps
<1>7. CASE Crash
  BY <1>7, CrashKeeps
<1>8. CASE Boot
  BY <1>8, BootKeeps
<1>9. CASE UNCHANGED vars
  <2>1. FeedTyped'
    BY <1>9 DEF FeedInv, FeedTyped, vars, cacheVars, cycleVars
  <2>2. ASSUME pc = "fetched" PROVE now' <= asOf + late'
    BY <1>9, <2>2 DEF FeedInv, FetchedOK, vars
  <2>3. Still
    BY <1>9, <2>2 DEF FeedInv, FeedTyped, Still, vars, cacheVars, cycleVars
  <2> QED BY <2>1, <2>3, StillKeeps
<1> QED
  BY <1>1, <1>2, <1>3, <1>4, <1>5, <1>6, <1>7, <1>8, <1>9
  DEF Next, FeedNext, ServiceStep, FaultStep, EnvStep

\* The histories hold consecutive bars.
LEMMA OrderFollows == FeedInv => ReplayedInOrder
<1> SUFFICES ASSUME FeedInv, NEW s \in Series, NEW i \in 1 .. Len(hist[s]) - 1
             PROVE  hist[s][i + 1].close = hist[s][i].close + Length[s]
  BY DEF ReplayedInOrder
<1>1. hist[s] \in Seq(Row) /\ Consecutive(hist[s], s)
  BY DEF FeedInv, FeedTyped, SeriesOK, HistOK
<1>2. i \in 1 .. Len(hist[s]) /\ i + 1 \in 1 .. Len(hist[s])
  BY <1>1
<1> QED BY <1>1, <1>2 DEF Consecutive

\* Cycles no longer than a bar, in a run no longer than what a fetch catches up
\* with, are within reach.
LEMMA ReachFollows ==
    ASSUME FeedInv, \A s \in Series : /\ MaxDelay <= Length[s]
                                      /\ MaxNow <= MaxCatchup * Length[s]
    PROVE  WithinReach
<1>1. SUFFICES ASSUME pc = "fetched" PROVE WithinReach
  BY DEF WithinReach
<1>2. /\ cur \in Series /\ since[cur] \in Nat \cup {None} /\ end \in Nat /\ end <= MaxNow
      /\ asOf \in Nat /\ now \in Nat /\ now <= asOf + late
      /\ late \in Nat /\ late <= MaxDelay
  <2>1. MaxNow \in Nat
    BY FeedAssumption
  <2> QED BY <1>1, <2>1 DEF FeedInv, FeedTyped, FetchedOK
<1>3. /\ MaxDelay \in Nat /\ MaxNow \in Nat /\ Length[cur] \in Nat
      /\ MaxCatchup * Length[cur] \in Nat
  BY <1>2, FeedAssumption
<1>4. MaxDelay <= Length[cur] /\ MaxNow <= MaxCatchup * Length[cur]
  BY <1>2
<1>5. now <= asOf + Length[cur]
  BY <1>2, <1>3, <1>4
<1>6. since[cur] # None => end - since[cur] <= MaxCatchup * Length[cur]
  BY <1>2, <1>3, <1>4
<1> QED BY <1>5, <1>6 DEF WithinReach

\* Whatever fails, restarts or is deleted on the way: of the rows stored only
\* the newest can be of a bar that was in progress, and the cache holds
\* consecutive bars, each once and in order (_fetch_once, _fetch_start,
\* get_trend_rows_after, warmup_trend_cache), as long as each fetch goes on
\* from a bar within its reach and is written before the next bar closes.
THEOREM LogFaithfulWithinReach ==
    ASSUME RepairBars # 0
    PROVE  Spec /\ []WithinReach => []LogFaithful
<1>1. FeedInv => LogFaithful
  BY OrderFollows DEF FeedInv, LogFaithful
<1>2. FeedInv /\ WithinReach /\ [Next]_vars => FeedInv'
  BY FeedStep
<1> QED
  BY <1>1, <1>2, FeedStarts, PTL DEF Spec

\* So it is when no cycle lasts longer than a bar and the whole run is no
\* longer than what a fetch can catch up with.
THEOREM LogFaithfulAlways ==
    ASSUME RepairBars # 0,
           \A s \in Series : MaxDelay <= Length[s] /\ MaxNow <= MaxCatchup * Length[s]
    PROVE  Spec => []LogFaithful
<1>1. FeedInv => LogFaithful
  BY OrderFollows DEF FeedInv, LogFaithful
<1>2. FeedInv => WithinReach
  BY ReachFollows
<1>3. FeedInv /\ [Next]_vars => FeedInv'
  BY <1>2, FeedStep
<1> QED
  BY <1>1, <1>3, FeedStarts, PTL DEF Spec

-----------------------------------------------------------------------------
(* The age of what the cache serves.                                       *)

TimesTyped ==
    /\ stamp \in [Series -> Nat \cup {None}] /\ due \in Nat
    /\ enabled \subseteq Series /\ todo \subseteq Series
    /\ lastFault \in Nat \cup {None} /\ (lastFault # None => lastFault <= now)

\* The service waits an interval at most, and a series is left in the cycle
\* until it is done with.
Clock ==
    /\ pc = "wait" => late = 0
    /\ up /\ pc = "wait" => now <= due /\ due <= now + Interval
    /\ pc # "wait" => now = end + late /\ (pc # "series" => cur \in todo)

\* A series is fetched when a bar may have closed since what is done, and when
\* its replay is over it has been stamped in this cycle.
Begun ==
    /\ pc = "fetched" /\ since[cur] # None => since[cur] + Length[cur] <= end
    /\ pc = "replay" /\ queue = <<>> /\ hist[cur] # <<>> => stamp[cur] >= end

\* A bar is replayed after its close.
StampOK(s) ==
    hist[s] # <<>> => stamp[s] # None /\ End(hist[s]) <= stamp[s] /\ stamp[s] <= now

\* A series that was warmed up is taken as done in the first cycle.
SeedOK(s) ==
    up /\ s \in enabled /\ hist[s] # <<>> /\ since[s] = None =>
        /\ lastFault # None
        /\ pc = "wait" => due <= lastFault + MaxDelay + Interval
        /\ pc # "wait" => /\ end <= lastFault + MaxDelay + Interval
                          /\ s \in todo \/ end <= lastFault

\* What a cycle takes as done at its beginning is an interval old.
DoneBefore(s) ==
    up /\ since[s] # None =>
        /\ pc = "wait" => since[s] + Interval <= due
        /\ pc # "wait" /\ s \in todo /\ (pc = "series" \/ cur # s) =>
              since[s] + Interval <= end \/ end = MaxNow

\* How old the newest bar replayed may be when its series is passed over, and
\* how long after a fault that can be told.
Lag(s) == IF Interval >= Length[s] THEN 0 ELSE Length[s] - 1
Calm(s) == IF Interval >= Length[s] THEN Interval + MaxDelay ELSE 0
NoFaultSince(t) == lastFault = None \/ lastFault < t

\* The stamp of a series after it was gone through in this cycle, before that,
\* and between two cycles: the last one began MaxDelay before it ended at most.
KeptFresh(s) ==
    up /\ s \in enabled /\ hist[s] # <<>> =>
        \/ stamp[s] + EffectiveMaxAge(s) >= MaxNow
        \/ /\ pc # "wait" /\ s \notin todo /\ NoFaultSince(end - Calm(s)) =>
                 stamp[s] >= end - Lag(s)
           /\ pc # "wait" /\ s \in todo
                 /\ NoFaultSince(end - Interval - MaxDelay - Calm(s)) =>
                 stamp[s] >= end - Interval - MaxDelay - Lag(s)
           /\ pc = "wait" /\ NoFaultSince(due - Interval - MaxDelay - Calm(s)) =>
                 stamp[s] >= due - Interval - MaxDelay - Lag(s)

StampsOK == \A s \in Series : StampOK(s)
TimeInv ==
    /\ TimesTyped /\ Clock /\ Begun /\ StampsOK
    /\ \A s \in Series : SeedOK(s) /\ DoneBefore(s) /\ KeptFresh(s)

LEMMA AgeFacts ==
    ASSUME NEW s \in Series
    PROVE  /\ Interval \in Nat \ {0} /\ MaxDelay \in Nat /\ MaxNow \in Nat
           /\ Length[s] \in Nat \ {0}
           /\ EffectiveMaxAge(s) \in Nat /\ Length[s] <= EffectiveMaxAge(s)
           /\ Lag(s) \in Nat /\ Calm(s) \in Nat /\ Calm(s) <= Interval + MaxDelay
           /\ Interval >= Length[s] => Lag(s) = 0 /\ Calm(s) = Interval + MaxDelay
           /\ Interval < Length[s] => Lag(s) = Length[s] - 1
<1>1. /\ Interval \in Nat \ {0} /\ MaxDelay \in Nat /\ MaxNow \in Nat /\ MaxAge \in Nat
      /\ Length[s] \in Nat \ {0}
  BY FeedAssumption
<1>2. EffectiveMaxAge(s) \in Nat /\ Length[s] <= EffectiveMaxAge(s)
  <2> DEFINE e == (3 * Length[s]) \div 2
  <2>1. e \in Nat /\ Length[s] <= e
    BY <1>1
  <2> HIDE DEF e
  <2>2. SetMax({MaxAge, e}) = IF MaxAge >= e THEN MaxAge ELSE e
    BY <1>1, <2>1, OfTwo
  <2> QED BY <1>1, <2>1, <2>2 DEF EffectiveMaxAge, e
<1> QED BY <1>1, <1>2 DEF Lag, Calm

\* The times of a state, and of a series in it.
LEMMA TimeFacts ==
    ASSUME FeedInv, TimeInv
    PROVE  /\ now \in Nat /\ now <= MaxNow /\ end \in Nat /\ end <= now
           /\ late \in Nat /\ late <= MaxDelay /\ due \in Nat
           /\ Interval \in Nat \ {0} /\ MaxDelay \in Nat /\ MaxNow \in Nat
           /\ \A s \in Series :
                 /\ since[s] \in Nat \cup {None} /\ (since[s] # None => since[s] <= now)
                 /\ hist[s] # <<>> => stamp[s] \in Nat /\ stamp[s] <= now
<1>1. Interval \in Nat \ {0} /\ MaxDelay \in Nat /\ MaxNow \in Nat
  BY FeedAssumption
<1>2. ASSUME NEW s \in Series
      PROVE  /\ since[s] \in Nat \cup {None} /\ (since[s] # None => since[s] <= now)
             /\ hist[s] # <<>> => stamp[s] \in Nat /\ stamp[s] <= now
  BY DEF FeedInv, FeedTyped, SeriesOK, SinceOK, IsBar, TimeInv, TimesTyped, StampsOK,
         StampOK
<1> QED BY <1>1, <1>2 DEF FeedInv, FeedTyped, TimeInv, TimesTyped

\* A history that is not being replayed ends with what its series is done with.
LEMMA HistEnd ==
    ASSUME FeedInv, NEW s \in Series, hist[s] # <<>>, ~ Replaying(s)
    PROVE  Since(s) \in Nat /\ Since(s) <= now /\ End(hist[s]) = Since(s)
<1>1. FeedTyped /\ now \in Nat /\ RowsOK(s) /\ SinceOK(s) /\ HistOK(s)
  BY DEF FeedInv, FeedTyped, SeriesOK
<1>2. \A c : IsBar(s, c) => c \in Nat /\ c <= now
  BY BarFacts DEF IsBar
<1>3. CASE since[s] = None
  <2>1. Latest(s) # None /\ End(hist[s]) = Latest(s) /\ Since(s) = Latest(s)
    BY <1>1, <1>3, LatestFacts DEF HistOK, Since
  <2> QED BY <1>1, <1>2, <2>1, LatestFacts
<1>4. CASE since[s] # None
  BY <1>1, <1>2, <1>4 DEF HistOK, SinceOK, Since
<1> QED BY <1>3, <1>4

LEMMA TimeStarts == Init => TimeInv
<1> SUFFICES ASSUME Init PROVE TimeInv
  OBVIOUS
<1>1. TimesTyped /\ Clock /\ Begun
  BY FeedAssumption DEF Init, Idle, TimesTyped, Clock, Begun, None
<1>2. ASSUME NEW s \in Series
      PROVE  StampOK(s) /\ SeedOK(s) /\ DoneBefore(s) /\ KeptFresh(s)
  BY DEF Init, StampOK, SeedOK, DoneBefore, KeptFresh
<1> QED BY <1>1, <1>2 DEF TimeInv, StampsOK

\* Right after a fault nothing is promised of a stamp.
LEMMA FaultExcuses ==
    ASSUME FeedInv', lastFault' = now', TimesTyped', Clock', Begun', StampsOK',
           \A s \in Series : DoneBefore(s)'
    PROVE  TimeInv'
<1>1. PICK n \in Nat, e \in Nat, d \in Nat :
          n = now' /\ n = lastFault' /\ e = end' /\ d = due' /\ e <= n
  BY DEF FeedInv, FeedTyped, TimesTyped
<1>2. /\ lastFault' = n /\ end' = e /\ due' = d /\ n # None
      /\ (up' /\ pc' = "wait") => d <= n + Interval
  <2>1. up' /\ pc' = "wait" => due' <= now' + Interval
    BY DEF Clock
  <2>2. now' = n /\ due' = d /\ n # None
    BY <1>1 DEF None
  <2> QED BY <1>1, <2>1, <2>2
<1> HIDE <1>1
<1>3. ASSUME NEW s \in Series PROVE SeedOK(s)' /\ KeptFresh(s)'
  <2>1. /\ Interval \in Nat /\ MaxDelay \in Nat /\ Calm(s) \in Nat /\ Lag(s) \in Nat
    BY AgeFacts
  <2>2. e <= n
    BY <1>1
  <2>3. SUFFICES ASSUME up' PROVE SeedOK(s)' /\ KeptFresh(s)'
    BY DEF SeedOK, KeptFresh
  <2>4. pc' = "wait" => d <= n + Interval
    BY <1>2, <2>3
  <2>5. SeedOK(s)'
    <3>1. pc' = "wait" => d <= n + MaxDelay + Interval
      BY <2>1, <2>4
    <3>2. e <= n + MaxDelay + Interval /\ e <= n
      BY <2>1, <2>2
    <3> QED BY <1>2, <3>1, <3>2 DEF SeedOK
  <2>6. KeptFresh(s)'
    <3>1. ~ (n < e - Calm(s)) /\ ~ (n < e - Interval - MaxDelay - Calm(s))
      BY <2>1, <2>2
    <3>2. pc' = "wait" => ~ (n < d - Interval - MaxDelay - Calm(s))
      BY <2>1, <2>4
    <3> QED BY <1>2, <3>1, <3>2 DEF KeptFresh, NoFaultSince
  <2> QED BY <2>5, <2>6
<1> QED BY <1>3 DEF TimeInv

LEMMA StampsStay ==
    ASSUME FeedInv, TimeInv, UNCHANGED <<now, hist, stamp>>
    PROVE  StampsOK'
BY DEF TimeInv, StampsOK, StampOK

\* A fault that touches neither the clock nor the cache, and leaves no more of
\* the cycle than there was.
LEMMA FaultInPlace ==
    ASSUME FeedInv, FeedInv', TimeInv, lastFault' = now,
           UNCHANGED <<now, hist, stamp, up, pc, due, end, cur, late, queue>>,
           enabled' \subseteq Series, todo' \subseteq todo, pc = "series" \/ todo' = todo,
           \A s \in Series : since'[s] = since[s] \/ (s \notin todo' /\ pc = "series")
    PROVE  TimeInv'
<1>1. /\ now \in Nat /\ now # None /\ now' = now
      /\ TimesTyped /\ Clock /\ Begun /\ \A s \in Series : DoneBefore(s)
  BY DEF FeedInv, FeedTyped, TimeInv, None
<1>2. TimesTyped'
  BY <1>1 DEF TimesTyped
<1>3. Clock'
  BY <1>1 DEF Clock
<1>4. Begun'
  BY <1>1 DEF FeedInv, FeedTyped, Begun
<1>5. ASSUME NEW s \in Series PROVE DoneBefore(s)'
  BY <1>1 DEF DoneBefore
<1> QED BY <1>1, <1>2, <1>3, <1>4, <1>5, StampsStay, FaultExcuses

LEMMA FaultSteps ==
    ASSUME FeedInv, FeedInv', TimeInv,
           \/ CycleLost \/ StoreFails \/ Crash \/ Boot
           \/ \E s \in Series : FetchFails(s) \/ Delete(s) \/ Add(s)
    PROVE  TimeInv'
<1>1. /\ now \in Nat /\ now # None /\ Interval \in Nat \ {0} /\ late \in Nat
      /\ TimesTyped /\ Clock /\ Begun /\ \A s \in Series : DoneBefore(s)
      /\ \A s \in Series : since[s] # None => since[s] \in Nat /\ since[s] <= now
  <2>1. Interval \in Nat \ {0} /\ now # None
    BY TimeFacts DEF None
  <2> QED BY <2>1, TimeFacts DEF TimeInv
<1>2. CASE CycleLost
  <2>1. /\ up /\ pc = "wait" /\ due' = now + Interval /\ lastFault' = now
        /\ UNCHANGED <<now, enabled, hist, stamp, up, pc, todo, end, cur, queue, since,
                       late>>
    BY <1>2 DEF CycleLost, Fault, cacheVars, cycleVars
  <2>2. TimesTyped' /\ Clock' /\ Begun'
    BY <1>1, <2>1 DEF TimesTyped, Clock, Begun
  <2>3. ASSUME NEW s \in Series PROVE DoneBefore(s)'
    BY <1>1, <2>1 DEF DoneBefore
  <2> QED BY <2>1, <2>2, <2>3, StampsStay, FaultExcuses
<1>3. CASE StoreFails
  <2>1. /\ up /\ pc \in {"fetched", "read"} /\ pc' = "series" /\ todo' = todo \ {cur}
        /\ lastFault' = now
        /\ UNCHANGED <<now, enabled, hist, stamp, up, due, end, cur, queue, since, late>>
    BY <1>3 DEF StoreFails, Fault, cacheVars
  <2>2. TimesTyped' /\ Clock' /\ Begun'
    BY <1>1, <2>1 DEF TimesTyped, Clock, Begun
  <2>3. ASSUME NEW s \in Series PROVE DoneBefore(s)'
    BY <1>1, <2>1 DEF DoneBefore
  <2> QED BY <2>1, <2>2, <2>3, StampsStay, FaultExcuses
<1>4. CASE Crash
  <2>1. /\ up' = FALSE /\ pc' = "wait" /\ late' = 0 /\ todo' = {} /\ lastFault' = now
        /\ hist' = [s \in Series |-> <<>>] /\ stamp' = [s \in Series |-> None]
        /\ UNCHANGED <<now, enabled, due>>
    BY <1>4 DEF Crash, Fault
  <2>2. TimesTyped' /\ Clock' /\ Begun'
    BY <1>1, <2>1 DEF TimesTyped, Clock, Begun
  <2>3. ASSUME NEW s \in Series PROVE DoneBefore(s)' /\ StampOK(s)'
    BY <1>1, <2>1 DEF DoneBefore, StampOK
  <2> QED BY <2>1, <2>2, <2>3, FaultExcuses DEF StampsOK
<1>5. CASE Boot
  <2>1. /\ ~ up /\ up' = TRUE /\ due' = now /\ lastFault' = now
        /\ UNCHANGED <<now, enabled, rows, pc, todo, end, cur, queue, since, late>>
    BY <1>5 DEF Boot, cycleVars
  <2>2. pc = "wait" /\ \A s \in Series : since[s] = None
    BY <2>1 DEF FeedInv, DownOK
  <2>3. PICK W : /\ hist' = [s \in Series |-> IF s \in W THEN Lasts(History(s), Keep)
                                              ELSE <<>>]
                 /\ stamp' = [s \in Series |-> IF s \in W THEN now ELSE None]
    BY <1>5 DEF Boot
  <2>4. TimesTyped' /\ Clock' /\ Begun'
    <3>1. stamp' \in [Series -> Nat \cup {None}]
      BY <1>1, <2>3
    <3> QED BY <1>1, <2>1, <2>2, <3>1 DEF TimesTyped, Clock, Begun
  <2>5. ASSUME NEW s \in Series PROVE DoneBefore(s)'
    BY <2>1, <2>2 DEF DoneBefore
  <2>6. ASSUME NEW s \in Series PROVE StampOK(s)'
    <3>1. SUFFICES ASSUME hist'[s] # <<>> PROVE StampOK(s)'
      BY DEF StampOK
    <3>2. stamp'[s] = now
      BY <2>3, <3>1
    <3>3. RowsOK(s)' /\ rows'[s] # {} /\ End(hist'[s]) = Latest(s)'
      <4>1. HistOK(s)' /\ RowsOK(s)' /\ ~ Replaying(s)' /\ since'[s] = None
        BY <2>1, <2>2 DEF FeedInv, SeriesOK, Replaying
      <4> QED BY <3>1, <4>1 DEF HistOK
    <3>4. RowsOK(s) /\ Latest(s)' = Latest(s) /\ rows[s] # {}
      BY <2>1, <3>3 DEF FeedInv, SeriesOK, Latest
    <3>5. Latest(s) \in Nat /\ Latest(s) <= now
      BY <3>4, LatestFacts, BarFacts DEF FeedInv, IsBar
    <3> QED BY <1>1, <2>1, <3>2, <3>3, <3>4, <3>5 DEF StampOK
  <2> QED BY <2>1, <2>4, <2>5, <2>6, FaultExcuses DEF StampsOK
<1>6. ASSUME NEW s \in Series, FetchFails(s) PROVE TimeInv'
  <2>1. /\ up /\ pc = "series" /\ s \in todo /\ todo' \subseteq todo \ {s}
        /\ lastFault' = now /\ Seeded(s)
        /\ UNCHANGED <<now, enabled, hist, stamp, up, pc, due, end, cur, late, queue>>
    BY <1>6 DEF FetchFails, Fault, cacheVars
  <2>2. \A t \in Series : since'[t] = since[t] \/ (t \notin todo' /\ pc = "series")
    BY <2>1 DEF Seeded, FeedInv, FeedTyped
  <2> QED BY <1>1, <2>1, <2>2, FaultInPlace DEF TimesTyped
<1>7. ASSUME NEW s \in Series, Delete(s) PROVE TimeInv'
  <2>1. /\ up /\ enabled' = enabled \ {s} /\ lastFault' = now
        /\ hist' = [hist EXCEPT ![s] = <<>>] /\ stamp' = [stamp EXCEPT ![s] = None]
        /\ UNCHANGED <<now, up, pc, due, todo, end, cur, queue, since, late>>
    BY <1>7 DEF Delete, Fault, cycleVars
  <2>2. TimesTyped' /\ Clock'
    BY <1>1, <2>1 DEF TimesTyped, Clock
  <2>3. /\ hist'[s] = <<>>
        /\ \A t \in Series \ {s} : hist'[t] = hist[t] /\ stamp'[t] = stamp[t]
    BY <1>1, <2>1 DEF FeedInv, FeedTyped, TimesTyped
  <2>4. ASSUME NEW t \in Series PROVE DoneBefore(t)' /\ StampOK(t)'
    <3>1. DoneBefore(t)'
      BY <1>1, <2>1 DEF DoneBefore
    <3>2. StampOK(t)'
      BY <2>1, <2>3 DEF TimeInv, StampsOK, StampOK
    <3> QED BY <3>1, <3>2
  <2>5. Begun'
    <3>1. pc = "replay" => cur \in Series
      BY DEF FeedInv, FeedTyped
    <3> QED BY <1>1, <2>1, <2>3, <3>1 DEF Begun
  <2> QED BY <2>1, <2>2, <2>4, <2>5, FaultExcuses DEF StampsOK
<1>8. ASSUME NEW s \in Series, Add(s) PROVE TimeInv'
  <2>1. /\ enabled' = enabled \cup {s} /\ lastFault' = now
        /\ UNCHANGED <<now, hist, stamp, up, pc, due, todo, end, cur, queue, since, late>>
    BY <1>8 DEF Add, cacheVars, cycleVars
  <2> QED BY <1>1, <2>1, FaultInPlace DEF TimesTyped
<1> QED BY <1>2, <1>3, <1>4, <1>5, <1>6, <1>7, <1>8

\* What a step of a cycle keeps of a series it is not about.
LEMMA OthersKeep ==
    ASSUME TimeInv, NEW s \in Series,
           UNCHANGED <<enabled, up, due, end, lastFault>>, pc # "wait", pc' # "wait",
           hist'[s] = hist[s], stamp'[s] = stamp[s], since'[s] = since[s],
           s \in todo' <=> s \in todo, pc = "series" \/ cur # s, pc' = "series" \/ cur' # s
    PROVE  SeedOK(s)' /\ DoneBefore(s)' /\ KeptFresh(s)'
<1>1. SeedOK(s) /\ DoneBefore(s) /\ KeptFresh(s)
  BY DEF TimeInv
<1>2. SeedOK(s)' /\ DoneBefore(s)'
  BY <1>1 DEF SeedOK, DoneBefore
<1>3. KeptFresh(s)'
  BY <1>1 DEF KeptFresh, NoFaultSince
<1> QED BY <1>2, <1>3

LEMMA BeginKeeps ==
    ASSUME FeedInv, TimeInv, Begin
    PROVE  TimeInv'
<1>1. /\ up /\ pc = "wait" /\ pc' = "series" /\ todo' = enabled /\ end' = now
      /\ now >= due \/ now = MaxNow
      /\ UNCHANGED <<now, enabled, hist, stamp, up, due, cur, queue, since, late,
                     lastFault>>
  BY DEF Begin, Due, cacheVars, NoFault
<1>2. /\ now \in Nat /\ due \in Nat /\ late = 0 /\ now <= due /\ MaxNow \in Nat
      /\ TimesTyped
  BY <1>1, TimeFacts DEF TimeInv, Clock
<1>3. TimesTyped' /\ Clock' /\ Begun'
  BY <1>1, <1>2 DEF TimesTyped, Clock, Begun
<1>4. StampsOK'
  BY <1>1, StampsStay
<1>5. ASSUME NEW s \in Series PROVE SeedOK(s)' /\ DoneBefore(s)' /\ KeptFresh(s)'
  <2>1. /\ SeedOK(s) /\ DoneBefore(s) /\ KeptFresh(s)
        /\ since[s] # None => since[s] \in Nat
        /\ lastFault # None => lastFault \in Nat
        /\ hist[s] # <<>> => stamp[s] \in Nat
    BY <1>2, TimeFacts DEF TimeInv, TimesTyped
  <2>2. /\ Interval \in Nat /\ MaxDelay \in Nat /\ Calm(s) \in Nat /\ Lag(s) \in Nat
    BY AgeFacts
  <2>3. SeedOK(s)'
    BY <1>1, <1>2, <2>1, <2>2 DEF SeedOK
  <2>4. DoneBefore(s)'
    BY <1>1, <1>2, <2>1, <2>2 DEF DoneBefore
  <2>5. KeptFresh(s)'
    <3>1. SUFFICES ASSUME s \in enabled, hist[s] # <<>>,
                          ~ (stamp[s] + EffectiveMaxAge(s) >= MaxNow),
                          NoFaultSince(now - Interval - MaxDelay - Calm(s))
                   PROVE  stamp[s] >= now - Interval - MaxDelay - Lag(s)
      BY <1>1 DEF KeptFresh, NoFaultSince
    <3>2. NoFaultSince(due - Interval - MaxDelay - Calm(s))
      BY <1>2, <2>1, <2>2, <3>1 DEF NoFaultSince
    <3>3. stamp[s] >= due - Interval - MaxDelay - Lag(s)
      BY <1>1, <2>1, <3>1, <3>2 DEF KeptFresh
    <3> QED BY <1>2, <2>1, <2>2, <3>1, <3>3
  <2> QED BY <2>3, <2>4, <2>5
<1> QED BY <1>3, <1>4, <1>5 DEF TimeInv

LEMMA EndCycleKeeps ==
    ASSUME FeedInv, TimeInv, EndCycle
    PROVE  TimeInv'
<1>1. /\ up /\ pc = "series" /\ todo = {} /\ pc' = "wait" /\ due' = now + Interval
      /\ late' = 0
      /\ UNCHANGED <<now, enabled, hist, stamp, up, todo, since, lastFault>>
  BY DEF EndCycle, cacheVars, NoFault
<1>2. /\ now \in Nat /\ end \in Nat /\ late \in Nat /\ late <= MaxDelay /\ MaxDelay \in Nat
      /\ now = end + late /\ Interval \in Nat \ {0} /\ TimesTyped
  BY <1>1, TimeFacts DEF TimeInv, Clock
<1>3. TimesTyped' /\ Clock' /\ Begun'
  BY <1>1, <1>2 DEF TimesTyped, Clock, Begun
<1>4. StampsOK'
  BY <1>1, StampsStay
<1>5. ASSUME NEW s \in Series PROVE SeedOK(s)' /\ DoneBefore(s)' /\ KeptFresh(s)'
  <2>1. /\ SeedOK(s) /\ DoneBefore(s) /\ KeptFresh(s)
        /\ since[s] # None => since[s] \in Nat /\ since[s] <= now
        /\ lastFault # None => lastFault \in Nat
        /\ hist[s] # <<>> => stamp[s] \in Nat
    BY <1>2, TimeFacts DEF TimeInv, TimesTyped
  <2>2. Calm(s) \in Nat /\ Lag(s) \in Nat
    BY AgeFacts
  <2>3. SeedOK(s)'
    BY <1>1, <1>2, <2>1, <2>2 DEF SeedOK
  <2>4. DoneBefore(s)'
    BY <1>1, <1>2, <2>1, <2>2 DEF DoneBefore
  <2>5. KeptFresh(s)'
    <3> DEFINE d == now + Interval
    <3>1. d \in Nat /\ d - Interval = now
      BY <1>2
    <3> HIDE DEF d
    <3>2. SUFFICES ASSUME s \in enabled, hist[s] # <<>>,
                          ~ (stamp[s] + EffectiveMaxAge(s) >= MaxNow),
                          NoFaultSince(d - Interval - MaxDelay - Calm(s))
                   PROVE  stamp[s] >= d - Interval - MaxDelay - Lag(s)
      BY <1>1 DEF KeptFresh, NoFaultSince, d
    <3>3. NoFaultSince(end - Calm(s))
      BY <1>2, <2>1, <2>2, <3>1, <3>2 DEF NoFaultSince
    <3>4. stamp[s] >= end - Lag(s)
      BY <1>1, <2>1, <3>2, <3>3 DEF KeptFresh
    <3> QED BY <1>2, <2>1, <2>2, <3>1, <3>2, <3>4
  <2> QED BY <2>3, <2>4, <2>5
<1> QED BY <1>3, <1>4, <1>5 DEF TimeInv

\* A series is passed over when the newest bar it has is too young for another
\* to have closed.
LEMMA SkipKeeps ==
    ASSUME FeedInv, TimeInv, NEW s \in Series, SkipSeries(s)
    PROVE  TimeInv'
<1>1. /\ up /\ pc = "series" /\ pc' = "series" /\ s \in todo /\ todo' = todo \ {s}
      /\ end < Since(s) + Length[s] /\ Seeded(s)
      /\ UNCHANGED <<now, enabled, hist, stamp, up, due, end, cur, queue, late, lastFault>>
  BY DEF SkipSeries, UpToDate, cacheVars, NoFault
<1>2. /\ \A t \in Series \ {s} : since'[t] = since[t]
      /\ TimesTyped /\ Clock /\ Begun
  BY <1>1 DEF Seeded, FeedInv, FeedTyped, TimeInv
<1>3. TimesTyped' /\ Clock' /\ Begun'
  BY <1>1, <1>2 DEF TimesTyped, Clock, Begun
<1>4. StampsOK'
  BY <1>1, StampsStay
<1>5. SeedOK(s)' /\ DoneBefore(s)' /\ KeptFresh(s)'
  <2>1. DoneBefore(s)'
    BY <1>1 DEF DoneBefore
  <2>2. SUFFICES ASSUME s \in enabled, hist[s] # <<>> PROVE SeedOK(s)' /\ KeptFresh(s)'
    BY <1>1, <2>1 DEF SeedOK, KeptFresh
  <2>3. /\ Since(s) \in Nat /\ End(hist[s]) = Since(s) /\ Since(s) # None
    <3>1. ~ Replaying(s)
      BY <1>1 DEF Replaying
    <3> QED BY <2>2, <3>1, HistEnd DEF None
  <2>4. since'[s] = Since(s)
    BY <1>1 DEF Seeded, FeedInv, FeedTyped
  <2>5. SeedOK(s)'
    BY <2>3, <2>4 DEF SeedOK
  <2>6. /\ stamp[s] \in Nat /\ stamp[s] >= Since(s) /\ end \in Nat
        /\ lastFault # None => lastFault \in Nat
    BY <1>2, <2>2, <2>3, TimeFacts DEF TimeInv, StampsOK, StampOK, TimesTyped
  <2>7. SUFFICES ASSUME ~ (stamp[s] + EffectiveMaxAge(s) >= MaxNow),
                        NoFaultSince(end - Calm(s))
                 PROVE  stamp[s] >= end - Lag(s)
    BY <1>1, <2>5 DEF KeptFresh, NoFaultSince
  <2>8. /\ Interval \in Nat \ {0} /\ Length[s] \in Nat \ {0} /\ MaxDelay \in Nat
        /\ EffectiveMaxAge(s) \in Nat /\ Length[s] <= EffectiveMaxAge(s) /\ MaxNow \in Nat
        /\ Interval >= Length[s] => Lag(s) = 0 /\ Calm(s) = Interval + MaxDelay
        /\ Interval < Length[s] => Lag(s) = Length[s] - 1
    BY AgeFacts
  <2>9. CASE Interval < Length[s]
    BY <1>1, <2>3, <2>6, <2>8, <2>9
  <2>10. CASE Interval >= Length[s] /\ since[s] # None
    <3>1. since[s] + Interval <= end \/ end = MaxNow
      BY <1>1, <2>10 DEF TimeInv, DoneBefore
    <3>2. Since(s) = since[s]
      BY <2>10 DEF Since
    <3>3. end = MaxNow
      BY <1>1, <2>3, <2>6, <2>8, <2>10, <3>1, <3>2
    <3>4. stamp[s] + EffectiveMaxAge(s) >= MaxNow
      BY <1>1, <2>3, <2>6, <2>8, <3>3
    <3> QED BY <2>7, <3>4
  <2>11. CASE Interval >= Length[s] /\ since[s] = None
    <3>1. lastFault # None /\ end <= lastFault + MaxDelay + Interval
      BY <1>1, <2>2, <2>11 DEF TimeInv, SeedOK
    <3>2. ~ NoFaultSince(end - Calm(s))
      BY <2>6, <2>8, <2>11, <3>1 DEF NoFaultSince
    <3> QED BY <2>7, <3>2
  <2> QED BY <2>8, <2>9, <2>10, <2>11
<1>6. ASSUME NEW t \in Series \ {s} PROVE SeedOK(t)' /\ DoneBefore(t)' /\ KeptFresh(t)'
  BY <1>1, <1>2, OthersKeep
<1> QED BY <1>3, <1>4, <1>5, <1>6 DEF TimeInv

LEMMA FetchKeeps ==
    ASSUME FeedInv, TimeInv, NEW s \in Series, Fetch(s)
    PROVE  TimeInv'
<1>1. /\ up /\ pc = "series" /\ pc' = "fetched" /\ s \in todo /\ cur' = s /\ Seeded(s)
      /\ ~ UpToDate(s)
      /\ UNCHANGED <<now, enabled, hist, stamp, up, due, todo, end, queue, late, lastFault>>
  BY DEF Fetch, cacheVars, NoFault
<1>2. /\ \A t \in Series \ {s} : since'[t] = since[t]
      /\ since'[s] = Since(s) /\ TimesTyped /\ Clock
  BY <1>1 DEF Seeded, FeedInv, FeedTyped, TimeInv
<1>3. TimesTyped' /\ Clock'
  BY <1>1, <1>2 DEF TimesTyped, Clock
<1>4. StampsOK'
  BY <1>1, StampsStay
<1>5. Begun'
  <2>1. SUFFICES ASSUME Since(s) # None PROVE Since(s) + Length[s] <= end
    BY <1>1, <1>2 DEF Begun
  <2>2. ~ (end < Since(s) + Length[s])
    BY <1>1, <2>1 DEF UpToDate
  <2>3. Since(s) \in Nat \cup {None}
    BY LatestFacts DEF FeedInv, FeedTyped, SeriesOK, Since
  <2>4. end \in Nat /\ Since(s) \in Nat /\ Length[s] \in Nat
    BY <2>1, <2>3, TimeFacts, AgeFacts
  <2> QED BY <2>2, <2>4
<1>6. SeedOK(s)' /\ DoneBefore(s)' /\ KeptFresh(s)'
  <2>1. DoneBefore(s)'
    BY <1>1 DEF DoneBefore
  <2>2. SeedOK(s)'
    <3>1. SUFFICES ASSUME hist[s] # <<>> PROVE since'[s] # None
      BY <1>1 DEF SeedOK
    <3>2. ~ Replaying(s)
      BY <1>1 DEF Replaying
    <3> QED BY <1>2, <3>1, <3>2, HistEnd DEF None
  <2>3. KeptFresh(s)'
    BY <1>1 DEF TimeInv, KeptFresh, NoFaultSince
  <2> QED BY <2>1, <2>2, <2>3
<1>7. ASSUME NEW t \in Series \ {s} PROVE SeedOK(t)' /\ DoneBefore(t)' /\ KeptFresh(t)'
  BY <1>1, <1>2, OthersKeep
<1> QED BY <1>3, <1>4, <1>5, <1>6, <1>7 DEF TimeInv

\* What is fetched because a bar may have closed is newer than what is done.
LEMMA StoreIsNewer ==
    ASSUME RepairBars # 0, FeedInv, TimeInv, WithinReach, pc = "fetched",
           since[cur] # None, rows[cur] = {} \/ since[cur] \in Closes(rows[cur])
    PROVE  LET new == Computed(cur, since[cur])
           IN  new # {} /\ SetMax(Closes(new)) > since[cur]
<1> DEFINE s == cur
           from == since[s]
           new == Computed(s, from)
<1>1. /\ s \in Series /\ now \in Nat /\ end \in Nat /\ end <= now /\ asOf \in Nat
      /\ from \in Nat \cup {None} /\ from + Length[s] <= end
      /\ end - from <= MaxCatchup * Length[s]
  BY DEF FeedInv, FeedTyped, FetchedOK, TimeInv, Begun, WithinReach
<1>2. PICK k \in Nat \ {0} : from = Bar(s, k)
  BY <1>1 DEF FeedInv, SeriesOK, SinceOK, IsBar
<1> HIDE DEF s, from, new
<1>3. Cutoff(s, from) \in Int /\ Cutoff(s, from) <= from
  <2>1. from # None
    BY DEF from, s
  <2> QED BY <1>1, <2>1, CutoffFacts
<1>4. PICK a \in Nat \ {0}, b \in Nat :
          /\ Holds(new, s, a, b) /\ now < Bar(s, b) + Length[s]
          /\ \A j \in Nat \ {0} : Bar(s, j) >= Cutoff(s, from) => a <= j
  BY <1>1, <1>3, ComputedFacts DEF new
<1>5. a <= k
  BY <1>2, <1>3, <1>4
<1>6. k < b
  <2>1. Bar(s, k) < Bar(s, b)
    <3>1. Bar(s, k) \in Nat /\ Bar(s, b) \in Nat /\ Length[s] \in Nat
      BY <1>1, BarFacts
    <3> QED BY <1>1, <1>2, <1>4, <3>1
  <2> QED BY <1>1, <2>1, BarFacts
<1>7. new # {} /\ SetMax(Closes(new)) = Bar(s, b)
  <2>1. new # {}
    BY <1>4, <1>5, <1>6 DEF Holds
  <2> QED BY <1>1, <1>4, <2>1, NewestRow
<1>8. Bar(s, b) > from
  BY <1>1, <1>2, <1>6, BarFacts
<1> QED BY <1>7, <1>8 DEF new, from, s

LEMMA StoreKeepsTime ==
    ASSUME RepairBars # 0, FeedInv, TimeInv, WithinReach, Store
    PROVE  TimeInv'
<1> PICK s \in Series : s = cur
  BY DEF Store, FeedInv, FeedTyped
<1>1. /\ up /\ pc = "fetched" /\ s \in Series /\ s = cur
      /\ \/ pc' = "read" /\ todo' = todo
         \/ pc' = "series" /\ todo' = todo \ {s}
      /\ UNCHANGED <<now, enabled, hist, stamp, up, due, end, cur, queue, since, late,
                     lastFault>>
  <2>1. \/ pc' = "read" /\ UNCHANGED todo
        \/ pc' = "series" /\ todo' = todo \ {cur}
    BY Zenon DEF Store
  <2>2. /\ up /\ pc = "fetched"
        /\ UNCHANGED <<now, enabled, hist, stamp, up, due, end, cur, queue, since, late,
                       lastFault>>
    BY DEF Store, NoFault, cacheVars
  <2> QED BY <2>1, <2>2
<1>2. TimesTyped /\ Clock
  BY DEF TimeInv
<1>3. TimesTyped' /\ Clock' /\ Begun'
  BY <1>1, <1>2 DEF TimesTyped, Clock, Begun
<1>4. StampsOK'
  BY <1>1, StampsStay
<1>5. SeedOK(s)' /\ DoneBefore(s)' /\ KeptFresh(s)'
  <2>1. pc' = "read" \/ hist[s] = <<>>
    <3>1. SUFFICES ASSUME hist[s] # <<>> PROVE pc' = "read"
      OBVIOUS
    <3>2. since[s] # None /\ (rows[s] = {} \/ since[s] \in Closes(rows[s]))
      BY <1>1, <3>1 DEF FeedInv, FetchedOK, SeriesOK, SinceOK
    <3>3. LET new == Computed(s, since[s])
          IN  new # {} /\ SetMax(Closes(new)) > since[s]
      BY <1>1, <3>2, StoreIsNewer
    <3>4. SetMax(Closes(Computed(s, since[s]))) # None
      <4> DEFINE m == SetMax(Closes(Computed(s, since[s])))
      <4>1. m > since[s] /\ since[s] \in Nat
        BY <1>1, <3>2, <3>3, TimeFacts
      <4> QED BY <4>1 DEF None
    <3> QED BY <3>2, <3>3, <3>4 DEF Store
  <2>2. SeedOK(s) /\ DoneBefore(s) /\ KeptFresh(s)
    BY <1>1 DEF TimeInv
  <2>3. SeedOK(s)' /\ DoneBefore(s)'
    BY <1>1, <2>1, <2>2 DEF SeedOK, DoneBefore
  <2>4. KeptFresh(s)'
    BY <1>1, <2>1, <2>2 DEF KeptFresh, NoFaultSince
  <2> QED BY <2>3, <2>4
<1>6. ASSUME NEW t \in Series \ {s} PROVE SeedOK(t)' /\ DoneBefore(t)' /\ KeptFresh(t)'
  BY <1>1, OthersKeep
<1> QED BY <1>3, <1>4, <1>5, <1>6 DEF TimeInv

LEMMA ReadRowsKeepsTime ==
    ASSUME FeedInv, FeedInv', TimeInv, ReadRows
    PROVE  TimeInv'
<1> PICK s \in Series : s = cur
  BY DEF ReadRows, FeedInv, FeedTyped
<1>1. /\ up /\ pc = "read" /\ pc' = "replay" /\ s \in Series /\ s = cur
      /\ queue' = RowsAfter(s, since[s])
      /\ UNCHANGED <<now, enabled, hist, stamp, up, due, todo, end, cur, late, lastFault>>
  BY DEF ReadRows, cacheVars, NoFault
<1>2. \A t \in Series \ {s} : since'[t] = since[t]
  BY DEF ReadRows, FeedInv, FeedTyped
<1>3. TimesTyped /\ Clock
  BY DEF TimeInv
<1>4. TimesTyped' /\ Clock'
  BY <1>1, <1>3 DEF TimesTyped, Clock
<1>5. Begun'
  <2>1. queue' = <<>> => hist[s] = <<>>
    BY <1>1, ReadFacts
  <2> QED BY <1>1, <2>1 DEF Begun
<1>6. StampsOK'
  BY <1>1, StampsStay
<1>7. SeedOK(s)' /\ DoneBefore(s)' /\ KeptFresh(s)'
  <2>1. since'[s] # None
    BY <1>1 DEF FeedInv, QueueOK
  <2>2. SeedOK(s)' /\ DoneBefore(s)'
    BY <1>1, <2>1 DEF SeedOK, DoneBefore
  <2>3. KeptFresh(s)'
    BY <1>1 DEF TimeInv, KeptFresh, NoFaultSince
  <2> QED BY <2>2, <2>3
<1>8. ASSUME NEW t \in Series \ {s} PROVE SeedOK(t)' /\ DoneBefore(t)' /\ KeptFresh(t)'
  BY <1>1, <1>2, OthersKeep
<1> QED BY <1>4, <1>5, <1>6, <1>7, <1>8 DEF TimeInv

\* A row replayed is of a bar that closed, and stamps its series in this cycle.
LEMMA ReplayKeepsTime ==
    ASSUME FeedInv, FeedInv', TimeInv, Replay
    PROVE  TimeInv'
<1> PICK s \in Series : s = cur
  BY DEF Replay, FeedInv, FeedTyped
<1>1. /\ up /\ pc = "replay" /\ s \in Series /\ s = cur /\ queue # <<>>
      /\ hist' = [hist EXCEPT ![s] = Appended(@, Head(queue))]
      /\ stamp' = [stamp EXCEPT ![s] = now]
      /\ UNCHANGED <<now, enabled, up, pc, due, todo, end, cur, since, late, lastFault>>
  BY DEF Replay, NoFault
<1>2. /\ now \in Nat /\ end \in Nat /\ end <= now
      /\ TimesTyped /\ Clock /\ s \in todo /\ since[s] # None
  BY <1>1, TimeFacts DEF TimeInv, Clock, FeedInv, QueueOK
<1>3. /\ stamp'[s] = now /\ hist'[s] = Appended(hist[s], Head(queue))
      /\ \A t \in Series \ {s} : hist'[t] = hist[t] /\ stamp'[t] = stamp[t]
  BY <1>1, <1>2 DEF FeedInv, FeedTyped, TimesTyped
<1>4. TimesTyped' /\ Clock' /\ Begun'
  BY <1>1, <1>2, <1>3 DEF TimesTyped, Clock, Begun
<1>5. StampsOK'
  <2>1. End(hist'[s]) <= now /\ now # None
    <3>1. /\ hist[s] \in Seq(Row) /\ Consecutive(hist[s], s)
          /\ queue \in Seq(Row) /\ Consecutive(queue, s) /\ End(queue) = since[s]
          /\ hist[s] = <<>> \/ Head(queue).close = End(hist[s]) + Length[s]
          /\ IsBar(s, since[s])
      BY <1>1, <1>2 DEF FeedInv, FeedTyped, SeriesOK, HistOK, SinceOK, QueueOK
    <3>2. Head(queue) \in Row
      BY <1>1, <3>1, TailFacts
    <3>3. End(hist'[s]) = Head(queue).close
      BY <1>1, <1>3, <3>1, <3>2, AppendedFacts
    <3>4. Head(queue).close <= End(queue)
      BY <1>1, <3>1, HeadIsFirst
    <3>5. since[s] \in Nat /\ since[s] <= now
      BY <1>1, <1>2, TimeFacts
    <3>6. Head(queue).close \in Nat
      BY <3>2 DEF Row
    <3> QED BY <1>2, <3>1, <3>3, <3>4, <3>5, <3>6 DEF None
  <2>2. StampOK(s)'
    BY <1>1, <1>2, <1>3, <2>1 DEF StampOK
  <2>3. ASSUME NEW t \in Series \ {s} PROVE StampOK(t)'
    BY <1>1, <1>3 DEF TimeInv, StampsOK, StampOK
  <2> QED BY <2>2, <2>3 DEF StampsOK
<1>6. SeedOK(s)' /\ DoneBefore(s)' /\ KeptFresh(s)'
  <2>1. SeedOK(s)' /\ DoneBefore(s)'
    BY <1>1, <1>2 DEF SeedOK, DoneBefore
  <2>2. now >= end - Interval - MaxDelay - Lag(s)
    BY <1>1, <1>2, AgeFacts
  <2>3. KeptFresh(s)'
    BY <1>1, <1>2, <1>3, <2>2 DEF KeptFresh
  <2> QED BY <2>1, <2>3
<1>7. ASSUME NEW t \in Series \ {s} PROVE SeedOK(t)' /\ DoneBefore(t)' /\ KeptFresh(t)'
  BY <1>1, <1>3, OthersKeep
<1> QED BY <1>4, <1>5, <1>6, <1>7 DEF TimeInv

LEMMA ReplayDoneKeeps ==
    ASSUME FeedInv, TimeInv, ReplayDone
    PROVE  TimeInv'
<1> PICK s \in Series : s = cur
  BY DEF ReplayDone, FeedInv, FeedTyped
<1>1. /\ up /\ pc = "replay" /\ pc' = "series" /\ todo' = todo \ {s} /\ s \in Series
      /\ s = cur /\ queue = <<>>
      /\ UNCHANGED <<now, enabled, hist, stamp, up, due, end, cur, queue, since, late,
                     lastFault>>
  BY DEF ReplayDone, cacheVars, NoFault
<1>2. TimesTyped /\ Clock /\ since[s] # None
  BY <1>1 DEF TimeInv, FeedInv, QueueOK
<1>3. TimesTyped' /\ Clock' /\ Begun'
  BY <1>1, <1>2 DEF TimesTyped, Clock, Begun
<1>4. StampsOK'
  BY <1>1, StampsStay
<1>5. SeedOK(s)' /\ DoneBefore(s)' /\ KeptFresh(s)'
  <2>1. SeedOK(s)' /\ DoneBefore(s)'
    BY <1>1, <1>2 DEF SeedOK, DoneBefore
  <2>2. hist[s] # <<>> => stamp[s] >= end - Lag(s)
    <3>1. SUFFICES ASSUME hist[s] # <<>> PROVE stamp[s] >= end - Lag(s)
      OBVIOUS
    <3>2. stamp[s] \in Nat /\ end \in Nat /\ stamp[s] >= end /\ Lag(s) \in Nat
      BY <1>1, <3>1, TimeFacts, AgeFacts DEF TimeInv, Begun
    <3> QED BY <3>2
  <2>3. KeptFresh(s)'
    BY <1>1, <2>2 DEF KeptFresh
  <2> QED BY <2>1, <2>3
<1>6. ASSUME NEW t \in Series \ {s} PROVE SeedOK(t)' /\ DoneBefore(t)' /\ KeptFresh(t)'
  BY <1>1, OthersKeep
<1> QED BY <1>3, <1>4, <1>5, <1>6 DEF TimeInv

LEMMA TickKeeps ==
    ASSUME FeedInv, TimeInv, Tick
    PROVE  TimeInv'
<1>1. /\ now < MaxNow /\ now' = now + 1
      /\ UNCHANGED <<enabled, hist, stamp, up, pc, due, todo, end, cur, queue, since,
                     lastFault>>
      /\ up /\ pc = "wait" => now < due /\ late' = late
      /\ up /\ pc # "wait" => late' = late + 1
      /\ ~ up => late' = late
  BY DEF Tick, cacheVars, cycleVars, NoFault
<1>2. /\ now \in Nat /\ due \in Nat /\ end \in Nat /\ late \in Nat /\ Interval \in Nat
      /\ TimesTyped /\ Clock /\ Begun /\ (~ up => pc = "wait")
  BY TimeFacts DEF TimeInv, FeedInv, DownOK
<1>3. Clock'
  <2>1. pc' = "wait" => late' = 0
    BY <1>1, <1>2 DEF Clock
  <2>2. up' /\ pc' = "wait" => now + 1 <= due /\ due <= now + 1 + Interval
    BY <1>1, <1>2 DEF Clock
  <2>3. pc' # "wait" => now + 1 = end + late' /\ (pc' # "series" => cur \in todo)
    <3>1. SUFFICES ASSUME pc # "wait"
                   PROVE  now + 1 = end + late' /\ (pc # "series" => cur \in todo)
      BY <1>1
    <3>2. late' = late + 1 /\ now = end + late
      BY <1>1, <1>2, <3>1 DEF Clock
    <3> QED BY <1>2, <3>1, <3>2 DEF Clock
  <2> QED BY <1>1, <2>1, <2>2, <2>3 DEF Clock
<1>4. TimesTyped'
  BY <1>1, <1>2 DEF TimesTyped
<1>5. Begun'
  BY <1>1, <1>2 DEF Begun
<1>6. ASSUME NEW s \in Series
      PROVE  StampOK(s)' /\ SeedOK(s)' /\ DoneBefore(s)' /\ KeptFresh(s)'
  <2>1. /\ StampOK(s) /\ SeedOK(s) /\ DoneBefore(s) /\ KeptFresh(s)
        /\ hist[s] # <<>> => stamp[s] \in Nat
    BY TimeFacts DEF TimeInv, StampsOK
  <2>2. StampOK(s)'
    BY <1>1, <1>2, <2>1 DEF StampOK
  <2>3. SeedOK(s)' /\ DoneBefore(s)'
    BY <1>1, <2>1 DEF SeedOK, DoneBefore
  <2>4. KeptFresh(s)'
    BY <1>1, <2>1 DEF KeptFresh, NoFaultSince
  <2> QED BY <2>2, <2>3, <2>4
<1> QED BY <1>3, <1>4, <1>5, <1>6 DEF TimeInv, StampsOK

LEMMA TimeStep ==
    ASSUME RepairBars # 0, FeedInv, FeedInv', TimeInv, WithinReach, [Next]_vars
    PROVE  TimeInv'
<1>1. CASE \/ CycleLost \/ StoreFails \/ Crash \/ Boot
           \/ \E s \in Series : FetchFails(s) \/ Delete(s) \/ Add(s)
  BY <1>1, FaultSteps
<1>2. CASE Begin
  BY <1>2, BeginKeeps
<1>3. CASE Store
  BY <1>3, StoreKeepsTime
<1>4. CASE ReadRows
  BY <1>4, ReadRowsKeepsTime
<1>5. CASE Replay
  BY <1>5, ReplayKeepsTime
<1>6. CASE ReplayDone
  BY <1>6, ReplayDoneKeeps
<1>7. CASE EndCycle
  BY <1>7, EndCycleKeeps
<1>8. CASE \E s \in Series : SkipSeries(s) \/ Fetch(s)
  BY <1>8, SkipKeeps, FetchKeeps
<1>9. CASE Tick
  BY <1>9, TickKeeps
<1>10. CASE UNCHANGED vars
  <2>1. UNCHANGED <<now, enabled, hist, stamp, up, pc, due, todo, end, cur, queue, since,
                    late, lastFault>>
    BY <1>10 DEF vars, cacheVars, cycleVars
  <2>2. TimesTyped' /\ Clock' /\ Begun'
    BY <2>1 DEF TimeInv, TimesTyped, Clock, Begun
  <2>3. StampsOK'
    BY <2>1, StampsStay
  <2>4. ASSUME NEW s \in Series PROVE SeedOK(s)' /\ DoneBefore(s)' /\ KeptFresh(s)'
    <3>1. SeedOK(s) /\ DoneBefore(s) /\ KeptFresh(s)
      BY DEF TimeInv
    <3> QED BY <2>1, <3>1 DEF SeedOK, DoneBefore, KeptFresh, NoFaultSince
  <2> QED BY <2>2, <2>3, <2>4 DEF TimeInv
<1> QED
  BY <1>1, <1>2, <1>3, <1>4, <1>5, <1>6, <1>7, <1>8, <1>9, <1>10
  DEF Next, FeedNext, ServiceStep, FaultStep, EnvStep

\* The limit of age leaves room for a wait and the cycles before and after it,
\* and for a bar when the service fetches more often than bars close.
RoomForACycle ==
    \A s \in Series : /\ MaxDelay <= Length[s]
                      /\ Interval + 2 * MaxDelay + Lag(s) <= EffectiveMaxAge(s)

LEMMA FreshFollows ==
    ASSUME FeedInv, TimeInv, RoomForACycle
    PROVE  NeverStale
<1> SUFFICES ASSUME NEW s \in Series, Settled(s) PROVE Fresh(s)
  BY DEF NeverStale
<1> DEFINE E == EffectiveMaxAge(s)
           L == Length[s]
<1>1. /\ up /\ s \in enabled /\ hist[s] # <<>>
      /\ NoFaultSince(now - 2 * Interval - L - 2 * MaxDelay)
  <2>1. lastFault \in Nat \cup {None} /\ now \in Nat /\ Interval \in Nat /\ MaxDelay \in Nat
        /\ L \in Nat
    BY AgeFacts, TimeFacts DEF TimeInv, TimesTyped
  <2> QED BY <2>1 DEF Settled, NoFaultSince
<1>2. /\ KeptFresh(s) /\ Clock /\ lastFault \in Nat \cup {None}
      /\ now \in Nat /\ now <= MaxNow /\ end \in Nat /\ due \in Nat /\ late \in Nat
      /\ late <= MaxDelay /\ stamp[s] \in Nat
  BY <1>1, TimeFacts DEF TimeInv, TimesTyped
<1>3. /\ Interval \in Nat \ {0} /\ MaxDelay \in Nat /\ MaxNow \in Nat /\ L \in Nat \ {0}
      /\ E \in Nat /\ Lag(s) \in Nat /\ Calm(s) \in Nat /\ Calm(s) <= Interval + MaxDelay
      /\ MaxDelay <= L /\ Interval + 2 * MaxDelay + Lag(s) <= E
  BY AgeFacts DEF RoomForACycle
<1>4. SUFFICES now <= stamp[s] + E
  <2>1. stamp[s] # None
    BY <1>2 DEF None
  <2> QED BY <1>2, <1>3, <2>1 DEF Fresh
<1>5. CASE stamp[s] + E >= MaxNow
  BY <1>2, <1>3, <1>5
<1>6. CASE ~ (stamp[s] + E >= MaxNow)
  <2> HIDE DEF E, L
  <2>1. CASE pc = "wait"
    <3>1. now <= due
      BY <1>1, <1>2, <2>1 DEF Clock
    <3>2. NoFaultSince(due - Interval - MaxDelay - Calm(s))
      BY <1>1, <1>2, <1>3, <3>1 DEF NoFaultSince
    <3>3. stamp[s] >= due - Interval - MaxDelay - Lag(s)
      BY <1>1, <1>2, <1>6, <2>1, <3>2 DEF KeptFresh, E
    <3> QED BY <1>2, <1>3, <3>1, <3>3
  <2>2. CASE pc # "wait" /\ s \notin todo
    <3>1. now = end + late
      BY <1>2, <2>2 DEF Clock
    <3>2. NoFaultSince(end - Calm(s))
      BY <1>1, <1>2, <1>3, <3>1 DEF NoFaultSince
    <3>3. stamp[s] >= end - Lag(s)
      BY <1>1, <1>2, <1>6, <2>2, <3>2 DEF KeptFresh, E
    <3> QED BY <1>2, <1>3, <3>1, <3>3
  <2>3. CASE pc # "wait" /\ s \in todo
    <3>1. now = end + late
      BY <1>2, <2>3 DEF Clock
    <3>2. NoFaultSince(end - Interval - MaxDelay - Calm(s))
      BY <1>1, <1>2, <1>3, <3>1 DEF NoFaultSince
    <3>3. stamp[s] >= end - Interval - MaxDelay - Lag(s)
      BY <1>1, <1>2, <1>6, <2>3, <3>2 DEF KeptFresh, E
    <3> QED BY <1>2, <1>3, <3>1, <3>3
  <2> QED BY <2>1, <2>2, <2>3
<1> QED BY <1>5, <1>6

\* A series that was fetched is never too old to be read once a bar and a cycle
\* have passed without a fault (TrendCache.get and _effective_max_age, against
\* the wait of _run_loop and what _fetch_once passes over), as long as the
\* limit of age has room for a cycle.
THEOREM NeverStaleWithinReach ==
    ASSUME RepairBars # 0, RoomForACycle
    PROVE  Spec /\ []WithinReach => []NeverStale
<1>1. Init => FeedInv /\ TimeInv
  BY FeedStarts, TimeStarts
<1>2. FeedInv /\ TimeInv /\ WithinReach /\ [Next]_vars => (FeedInv /\ TimeInv)'
  BY FeedStep, TimeStep
<1>3. FeedInv /\ TimeInv => NeverStale
  BY FreshFollows
<1> QED
  BY <1>1, <1>2, <1>3, PTL DEF Spec

\* So it is in a run within what a fetch can catch up with.
THEOREM NeverStaleAlways ==
    ASSUME RepairBars # 0, RoomForACycle,
           \A s \in Series : MaxNow <= MaxCatchup * Length[s]
    PROVE  Spec => []NeverStale
<1>1. Init => FeedInv /\ TimeInv
  BY FeedStarts, TimeStarts
<1>2. FeedInv => WithinReach
  BY ReachFollows DEF RoomForACycle
<1>3. FeedInv /\ TimeInv /\ [Next]_vars => (FeedInv /\ TimeInv)'
  BY <1>2, FeedStep, TimeStep
<1>4. FeedInv /\ TimeInv => NeverStale
  BY FreshFollows
<1> QED
  BY <1>1, <1>3, <1>4, PTL DEF Spec

-----------------------------------------------------------------------------
(* The cache that the feed fills, as module Indicators has it: what its    *)
(* rules read.                                                             *)

CONSTANTS Ungrouped, Slots, GroupIds

Trend == INSTANCE Indicators

\* Induction, as a fact about a set of numbers.
LEMMA Numbers ==
    ASSUME NEW T \in SUBSET Nat, 0 \in T, \A n \in T : n + 1 \in T
    PROVE  T = Nat
<1> DEFINE Bad == Nat \ T
<1>1. ASSUME Bad # {} PROVE FALSE
  <2> DEFINE Less == OpToRel(<, Nat)
  <2>1. \A m, n \in Nat : m < n => <<m, n>> \in Less
    BY DEF OpToRel
  <2>2. IsWellFoundedOn(Less, Nat)
    BY NatLessThanWellFounded
  <2> HIDE DEF Less
  <2>3. PICK n \in Bad : \A m \in Bad : ~(<<m, n>> \in Less)
    BY <1>1, <2>2, WFMin
  <2>4. n # 0 /\ n - 1 \in Nat /\ n - 1 < n
    BY <2>3
  <2>5. n - 1 \notin Bad
    BY <2>1, <2>3, <2>4
  <2> QED BY <2>3, <2>4, <2>5
<1> QED BY <1>1

-----------------------------------------------------------------------------
\* A bar of a market.
Candles == [o : Int, h : Int, l : Int, c : Int]

\* What a pattern asks of one candle, and of two.
LEMMA OneBarIs ==
    ASSUME NEW c, NEW p
    PROVE  /\ p.pattern = "hammer" =>
                (OneBar(c, p) <=> Span(c) # 0 /\ Hammer(c, p))
           /\ p.pattern = "shooting_star" =>
                (OneBar(c, p) <=> Span(c) # 0 /\ ShootingStar(c, p))
           /\ p.pattern = "doji" =>
                (OneBar(c, p) <=>
                   Span(c) # 0 /\ Body(c) * 100 <= p.maxBody * Span(c))
           /\ p.pattern = "bull_close" =>
                (OneBar(c, p) <=>
                   Span(c) # 0 /\ (c.c - c.l) * 100 >= p.minClose * Span(c))
           /\ p.pattern = "bear_close" =>
                (OneBar(c, p) <=>
                   Span(c) # 0 /\ (c.c - c.l) * 100 <= p.maxClose * Span(c))
<1>1. ASSUME p.pattern = "hammer"
      PROVE  OneBar(c, p) <=> Span(c) # 0 /\ Hammer(c, p)
  BY <1>1 DEF OneBar
<1>2. ASSUME p.pattern = "shooting_star"
      PROVE  OneBar(c, p) <=> Span(c) # 0 /\ ShootingStar(c, p)
  BY <1>2, Zenon DEF OneBar
<1>3. ASSUME p.pattern = "doji"
      PROVE  OneBar(c, p) <=>
                   Span(c) # 0 /\ Body(c) * 100 <= p.maxBody * Span(c)
  BY <1>3, SMT DEF OneBar
<1>4. ASSUME p.pattern = "bull_close"
      PROVE  OneBar(c, p) <=>
                   Span(c) # 0 /\ (c.c - c.l) * 100 >= p.minClose * Span(c)
  BY <1>4, Zenon DEF OneBar
<1>5. ASSUME p.pattern = "bear_close"
      PROVE  OneBar(c, p) <=>
                   Span(c) # 0 /\ (c.c - c.l) * 100 <= p.maxClose * Span(c)
  BY <1>5 DEF OneBar
<1> QED BY <1>1, <1>2, <1>3, <1>4, <1>5

\* A candle upside down has the twin of its pattern.
LEMMA OneBarMirrored ==
    ASSUME NEW c \in Candles, NEW p, p.pattern \in DOMAIN Twin,
           {"pattern", "minClose", "maxClose"} \subseteq DOMAIN p,
           p = [x \in DOMAIN p |-> p[x]],
           p.pattern \notin PairPatterns,
           {p.minBody, p.maxBody, p.minClose, p.maxClose} \subseteq Int
    PROVE  OneBar(c, p) <=> OneBar(Flipped(c), TwinOf(p))
<1> DEFINE f == Flipped(c)
           q == TwinOf(p)
<1>1. /\ f.o = 100 - c.o /\ f.c = 100 - c.c /\ f.h = 100 - c.l /\ f.l = 100 - c.h
      /\ {c.o, c.c, c.h, c.l, f.o, f.c, f.h, f.l} \subseteq Int
  BY DEF Flipped, Candles
<1>2. /\ q.pattern = Twin[p.pattern] /\ q.minBody = p.minBody /\ q.maxBody = p.maxBody
      /\ q.minClose = 100 - p.maxClose /\ q.maxClose = 100 - p.minClose
  BY DEF TwinOf
<1>3. p.pattern \in {"hammer", "shooting_star", "doji", "bull_close", "bear_close"}
  BY DEF PairPatterns, Twin
<1> SUFFICES OneBar(c, p) <=> OneBar(f, q)
  OBVIOUS
<1> HIDE DEF f, q
<1>4. /\ Span(f) = Span(c) /\ Body(f) = Body(c)
      /\ UpperWick(f) = LowerWick(c) /\ LowerWick(f) = UpperWick(c)
      /\ {Span(c), Body(c), UpperWick(c), LowerWick(c)} \subseteq Int
  BY <1>1 DEF Span, Body, UpperWick, LowerWick, Top,
       Bottom, Bull
<1>5. ASSUME NEW k \in Int PROVE (100 - k) * Span(c) = 100 * Span(c) - k * Span(c)
                              /\ k * Span(c) \in Int
  BY <1>4
<1>6. RealBody(f, q) <=> RealBody(c, p)
  BY <1>2, <1>4 DEF RealBody
<1>7. CASE p.pattern = "hammer"
  BY <1>2, <1>4, <1>6, <1>7, OneBarIs DEF Twin, Hammer, ShootingStar
<1>8. CASE p.pattern = "shooting_star"
  BY <1>2, <1>4, <1>6, <1>8, OneBarIs DEF Twin, Hammer, ShootingStar
<1>9. CASE p.pattern = "doji"
  BY <1>2, <1>4, <1>9, OneBarIs DEF Twin
<1>10. CASE p.pattern = "bull_close"
  <2>1. (f.c - f.l) * 100 = 100 * Span(c) - (c.c - c.l) * 100
    BY <1>1 DEF Span
  <2>2. q.maxClose * Span(c) = 100 * Span(c) - p.minClose * Span(c)
        /\ p.minClose * Span(c) \in Int
    BY <1>2, <1>5
  <2>3. q.pattern = "bear_close"
    BY <1>2, <1>10 DEF Twin
  <2>4. (c.c - c.l) * 100 >= p.minClose * Span(c)
        <=> (f.c - f.l) * 100 <= q.maxClose * Span(f)
    <3>1. (c.c - c.l) * 100 \in Int /\ 100 * Span(c) \in Int
      BY <1>1, <1>4
    <3> QED BY <1>4, <2>1, <2>2, <3>1
  <2> QED BY <1>4, <1>10, <2>3, <2>4, OneBarIs
<1>11. CASE p.pattern = "bear_close"
  <2>1. (f.c - f.l) * 100 = 100 * Span(c) - (c.c - c.l) * 100
    BY <1>1 DEF Span
  <2>2. q.minClose * Span(c) = 100 * Span(c) - p.maxClose * Span(c)
        /\ p.maxClose * Span(c) \in Int
    BY <1>2, <1>5
  <2>3. q.pattern = "bull_close"
    BY <1>2, <1>11 DEF Twin
  <2>4. (c.c - c.l) * 100 <= p.maxClose * Span(c)
        <=> (f.c - f.l) * 100 >= q.minClose * Span(f)
    <3>1. (c.c - c.l) * 100 \in Int /\ 100 * Span(c) \in Int
      BY <1>1, <1>4
    <3> QED BY <1>4, <2>1, <2>2, <3>1
  <2> QED BY <1>4, <1>11, <2>3, <2>4, OneBarIs
<1> QED BY <1>3, <1>7, <1>8, <1>9, <1>10, <1>11

LEMMA TwoBarsIs ==
    ASSUME NEW c1, NEW c2, NEW p
    PROVE  /\ p.pattern = "higher_low" =>
                (TwoBars(c1, c2, p) <=> c2.l > c1.l /\ (p.strict => Bull(c2)))
           /\ p.pattern = "lower_high" =>
                (TwoBars(c1, c2, p) <=> c2.h < c1.h /\ (p.strict => Bear(c2)))
           /\ p.pattern = "engulfing" =>
                (TwoBars(c1, c2, p) <=>
                   Bull(c2) /\ ~Bull(c1) /\ Engulfs(c1, c2))
           /\ p.pattern = "bear_engulfing" =>
                (TwoBars(c1, c2, p) <=>
                   ~Bull(c2) /\ Bull(c1) /\ Engulfs(c1, c2))
<1>1. ASSUME p.pattern = "higher_low"
      PROVE  TwoBars(c1, c2, p) <=> c2.l > c1.l /\ (p.strict => Bull(c2))
  BY <1>1 DEF TwoBars
<1>2. ASSUME p.pattern = "lower_high"
      PROVE  TwoBars(c1, c2, p) <=> c2.h < c1.h /\ (p.strict => Bear(c2))
  BY <1>2 DEF TwoBars
<1>3. ASSUME p.pattern = "engulfing"
      PROVE  TwoBars(c1, c2, p)
             <=> Bull(c2) /\ ~Bull(c1) /\ Engulfs(c1, c2)
  BY <1>3 DEF TwoBars
<1>4. ASSUME p.pattern = "bear_engulfing"
      PROVE  TwoBars(c1, c2, p)
             <=> ~Bull(c2) /\ Bull(c1) /\ Engulfs(c1, c2)
  BY <1>4 DEF TwoBars
<1> QED BY <1>1, <1>2, <1>3, <1>4

\* So have two candles with bodies.
LEMMA TwoBarsMirrored ==
    ASSUME NEW c1 \in Candles, NEW c2 \in Candles, NEW p, p.pattern \in PairPatterns,
           {"pattern", "minClose", "maxClose"} \subseteq DOMAIN p,
           p = [x \in DOMAIN p |-> p[x]],
           Body(c1) # 0, Body(c2) # 0
    PROVE  TwoBars(c1, c2, p)
           <=> TwoBars(Flipped(c1), Flipped(c2), TwinOf(p))
<1> DEFINE f1 == Flipped(c1)
           f2 == Flipped(c2)
           q == TwinOf(p)
<1>1. /\ f1.o = 100 - c1.o /\ f1.c = 100 - c1.c /\ f1.h = 100 - c1.l /\ f1.l = 100 - c1.h
      /\ f2.o = 100 - c2.o /\ f2.c = 100 - c2.c /\ f2.h = 100 - c2.l /\ f2.l = 100 - c2.h
      /\ {c1.o, c1.c, c1.h, c1.l, c2.o, c2.c, c2.h, c2.l} \subseteq Int
  BY DEF Flipped, Candles
<1>2. q.pattern = Twin[p.pattern] /\ q.strict = p.strict
  BY DEF TwinOf
<1>3. p.pattern \in {"higher_low", "engulfing", "lower_high", "bear_engulfing"}
  BY DEF PairPatterns
<1> SUFFICES TwoBars(c1, c2, p) <=> TwoBars(f1, f2, q)
  OBVIOUS
<1> HIDE DEF f1, f2, q
<1>4. c1.o # c1.c /\ c2.o # c2.c
  BY <1>1 DEF Body, Top, Bottom, Bull
<1>5. /\ Bull(f1) <=> ~Bull(c1)
      /\ Bull(f2) <=> ~Bull(c2)
      /\ Bear(f2) <=> Bull(c2)
      /\ Bear(c2) <=> Bull(f2)
  BY <1>1, <1>4 DEF Bull, Bear
<1>6. Engulfs(f1, f2) <=> Engulfs(c1, c2)
  BY <1>1 DEF Engulfs, Top, Bottom, Bull
<1>7. CASE p.pattern = "higher_low"
  <2>1. q.pattern = "lower_high"
    BY <1>2, <1>7 DEF Twin
  <2> QED BY <1>1, <1>2, <1>5, <1>7, <2>1, TwoBarsIs
<1>8. CASE p.pattern = "lower_high"
  <2>1. q.pattern = "higher_low"
    BY <1>2, <1>8 DEF Twin
  <2> QED BY <1>1, <1>2, <1>5, <1>8, <2>1, TwoBarsIs
<1>9. CASE p.pattern = "engulfing"
  <2>1. q.pattern = "bear_engulfing"
    BY <1>2, <1>9 DEF Twin
  <2> QED BY <1>5, <1>6, <1>9, <2>1, TwoBarsIs
<1>10. CASE p.pattern = "bear_engulfing"
  <2>1. q.pattern = "engulfing"
    BY <1>2, <1>10 DEF Twin
  <2> QED BY <1>5, <1>6, <1>10, <2>1, TwoBarsIs
<1> QED BY <1>3, <1>7, <1>8, <1>9, <1>10

-----------------------------------------------------------------------------
(* The reversal momentum of RSI.                                           *)

\* A history that is not empty has a lowest value.
LEMMA LowestIs ==
    ASSUME NEW w \in Seq(Int), w # <<>>
    PROVE  \E i \in DOMAIN w : \A j \in DOMAIN w : w[i] <= w[j]
<1> DEFINE T == {n \in Nat : n + 1 \in DOMAIN w =>
                   \E i \in 1 .. n + 1 : \A j \in 1 .. n + 1 : w[i] <= w[j]}
<1>0. DOMAIN w = 1 .. Len(w) /\ Len(w) \in Nat \ {0} /\ \A i \in DOMAIN w : w[i] \in Int
  OBVIOUS
<1>1. 0 \in T
  BY <1>0
<1>2. ASSUME NEW n \in T PROVE n + 1 \in T
  <2> SUFFICES ASSUME n + 2 \in DOMAIN w
               PROVE  \E i \in 1 .. n + 2 : \A j \in 1 .. n + 2 : w[i] <= w[j]
    OBVIOUS
  <2>1. PICK i \in 1 .. n + 1 : \A j \in 1 .. n + 1 : w[i] <= w[j]
    BY <1>0
  <2>2. CASE w[i] <= w[n + 2]
    BY <2>1, <2>2
  <2>3. CASE ~(w[i] <= w[n + 2])
    <3>1. ASSUME NEW j \in 1 .. n + 2 PROVE w[n + 2] <= w[j]
      <4>1. j \in DOMAIN w /\ i \in DOMAIN w /\ n \in Nat
        BY <1>0
      <4>2. CASE j = n + 2
        BY <1>0, <4>2
      <4>3. CASE j # n + 2
        <5>1. w[i] <= w[j]
          BY <2>1, <4>1, <4>3
        <5> QED BY <1>0, <2>3, <4>1, <5>1
      <4> QED BY <4>2, <4>3
    <3>2. n + 2 \in 1 .. n + 2
      BY <1>0
    <3> QED BY <3>1, <3>2
  <2> QED BY <2>2, <2>3
<1>3. T = Nat
  <2>1. T \in SUBSET Nat
    OBVIOUS
  <2> HIDE DEF T
  <2> QED BY <1>1, <1>2, <2>1, Numbers
<1>4. Len(w) - 1 \in T
  <2> HIDE DEF T
  <2> QED BY <1>0, <1>3
<1>5. (Len(w) - 1) + 1 = Len(w) /\ Len(w) \in DOMAIN w
  BY <1>0
<1>6. \E i \in 1 .. Len(w) : \A j \in 1 .. Len(w) : w[i] <= w[j]
  BY <1>4, <1>5
<1> QED BY <1>0, <1>6

\* What is seen of a history upside down is what is seen of it, upside down.
LEMMA UpturnedFacts ==
    ASSUME NEW h \in Seq(Int)
    PROVE  /\ Upturned(h) \in Seq(Int) /\ Len(Upturned(h)) = Len(h)
           /\ \A i \in 1 .. Len(h) : Upturned(h)[i] = 100 - h[i]
<1>1. DOMAIN h = 1 .. Len(h) /\ \A i \in 1 .. Len(h) : h[i] \in Int
  OBVIOUS
<1> QED BY <1>1 DEF Upturned

LEMMA LastNFacts ==
    ASSUME NEW S, NEW h \in Seq(S), NEW n \in Nat
    PROVE  /\ LastN(h, n) \in Seq(S)
           /\ Len(LastN(h, n)) = Least(n, Len(h))
           /\ \A i \in 1 .. Least(n, Len(h)) :
                 LastN(h, n)[i] = h[Len(h) - Least(n, Len(h)) + i]
<1>1. Least(n, Len(h)) \in 0 .. Len(h)
  BY DEF Least
<1> HIDE DEF Least
<1> QED BY <1>1 DEF LastN

LEMMA LastNMirrored ==
    ASSUME NEW h \in Seq(Int), NEW n \in Nat
    PROVE  LastN(Upturned(h), n) = Upturned(LastN(h, n))
<1> DEFINE u == Upturned(h)
           a == LastN(u, n)
           b == Upturned(LastN(h, n))
           k == Least(n, Len(h))
<1>0. k \in 0 .. Len(h)
  BY DEF Least
<1>1. u \in Seq(Int) /\ Len(u) = Len(h) /\ \A i \in 1 .. Len(h) : u[i] = 100 - h[i]
  BY UpturnedFacts
<1>2. a \in Seq(Int) /\ Len(a) = k /\ \A i \in 1 .. k : a[i] = u[Len(h) - k + i]
  <2>1. a = LastN(u, n) /\ k = Least(n, Len(u))
    BY <1>1
  <2> HIDE DEF u, a, k
  <2>2. /\ LastN(u, n) \in Seq(Int) /\ Len(LastN(u, n)) = Least(n, Len(u))
        /\ \A i \in 1 .. Least(n, Len(u)) :
              LastN(u, n)[i] = u[Len(u) - Least(n, Len(u)) + i]
    BY <1>1, LastNFacts
  <2> QED BY <1>1, <2>1, <2>2
<1>3. /\ LastN(h, n) \in Seq(Int) /\ Len(LastN(h, n)) = k
      /\ \A i \in 1 .. k : LastN(h, n)[i] = h[Len(h) - k + i]
  BY LastNFacts
<1>4. b \in Seq(Int) /\ Len(b) = k /\ \A i \in 1 .. k : b[i] = 100 - h[Len(h) - k + i]
  BY <1>3, UpturnedFacts
<1> HIDE DEF u, a, b, k
<1>5. ASSUME NEW i \in 1 .. k PROVE a[i] = b[i]
  <2>1. Len(h) - k + i \in 1 .. Len(h)
    BY <1>0
  <2>2. a[i] = 100 - h[Len(h) - k + i]
    BY <1>1, <1>2, <2>1
  <2> QED BY <1>4, <2>2
<1>6. a = b
  BY <1>2, <1>4, <1>5
<1> QED BY <1>6 DEF u, a, b

\* A jump after the low is a drop after the peak, upside down.
LEMMA PeakMirrored ==
    ASSUME NEW w \in Seq(Int), w # <<>>, NEW j \in Int
    PROVE  JumpAfterLow(w, j) <=> DropAfterPeak(Upturned(w), j)
<1> DEFINE u == Upturned(w)
<1>0. DOMAIN w = 1 .. Len(w) /\ Len(w) \in Nat
  OBVIOUS
<1>1. PICK m \in 1 .. Len(w) : \A i \in 1 .. Len(w) : w[m] <= w[i]
  BY <1>0, LowestIs
<1>2. u \in Seq(Int) /\ Len(u) = Len(w) /\ \A i \in 1 .. Len(w) : u[i] = 100 - w[i]
  BY UpturnedFacts
<1>3. /\ \A i \in 1 .. Len(w) : w[i] \in Int
      /\ Values(w) = {w[i] : i \in 1 .. Len(w)}
  BY <1>0 DEF Values
<1> SUFFICES JumpAfterLow(w, j) <=> DropAfterPeak(u, j)
  OBVIOUS
<1> HIDE DEF u
<1>4. Lowest(Values(w)) = w[m]
  <2>1. w[m] \in Values(w) /\ \A y \in Values(w) : w[m] <= y
    BY <1>1, <1>3
  <2>2. \A x \in Values(w) :
           (\A y \in Values(w) : x <= y) => x = w[m]
    <3> SUFFICES ASSUME NEW x \in Values(w), \A y \in Values(w) : x <= y
                 PROVE  x = w[m]
      OBVIOUS
    <3>1. PICK i \in 1 .. Len(w) : x = w[i]
      BY <1>3
    <3>2. x <= w[m]
      BY <2>1
    <3> QED BY <1>1, <1>3, <3>1, <3>2
  <2> QED BY <2>1, <2>2 DEF Lowest
<1>5. Highest(Values(u)) = u[m]
  <2>0. \A i \in 1 .. Len(w) : u[i] <= u[m] /\ u[i] \in Int
    BY <1>1, <1>2, <1>3
  <2>3. Values(u) = {u[i] : i \in 1 .. Len(w)}
    BY <1>2 DEF Values
  <2>1. u[m] \in Values(u) /\ \A y \in Values(u) : u[m] >= y
    BY <2>0, <2>3
  <2>2. \A x \in Values(u) :
           (\A y \in Values(u) : x >= y) => x = u[m]
    <3> SUFFICES ASSUME NEW x \in Values(u), \A y \in Values(u) : x >= y
                 PROVE  x = u[m]
      OBVIOUS
    <3>1. PICK i \in 1 .. Len(w) : x = u[i]
      BY <2>3
    <3>2. x >= u[m]
      BY <2>1
    <3> QED BY <2>0, <3>1, <3>2
  <2> QED BY <2>1, <2>2 DEF Highest
<1>6. \A k \in 1 .. Len(w) : w[k] = w[m] <=> u[k] = u[m]
  BY <1>2, <1>3
<1>7. \A i \in 2 .. Len(w) : w[i] - w[i - 1] = u[i - 1] - u[i]
  <2> SUFFICES ASSUME NEW i \in 2 .. Len(w) PROVE w[i] - w[i - 1] = u[i - 1] - u[i]
    OBVIOUS
  <2>1. i \in 1 .. Len(w) /\ i - 1 \in 1 .. Len(w)
    OBVIOUS
  <2>2. u[i] = 100 - w[i] /\ u[i - 1] = 100 - w[i - 1] /\ w[i] \in Int /\ w[i - 1] \in Int
    BY <1>2, <1>3, <2>1
  <2> QED BY <2>2
<1>8. \A i \in 2 .. Len(w) :
        (\E k \in 1 .. (i - 1) : w[k] = w[m]) <=> (\E k \in 1 .. (i - 1) : u[k] = u[m])
  BY <1>6
<1> QED BY <1>2, <1>4, <1>5, <1>7, <1>8 DEF JumpAfterLow, DropAfterPeak

\* A step of RSI by n bars and its direction, upside down.
LEMMA RiseMirrored ==
    ASSUME NEW h \in Seq(Int), NEW n \in {1, 2}, Len(h) >= n + 1
    PROVE  /\ Rise(h, n) \in Int /\ Rise(h, 1) \in Int
           /\ Rise(Upturned(h), n) = -Rise(h, n)
           /\ Rise(h, n) > 2 * n =>
                (Direction(h, n) = "increasing" <=> Rise(h, 1) > 0)
           /\ Rise(h, n) > 2 * n =>
                Direction(Upturned(h), n) = "decreasing"
<1> DEFINE u == Upturned(h)
<1>1. u \in Seq(Int) /\ Len(u) = Len(h) /\ \A i \in 1 .. Len(h) : u[i] = 100 - h[i]
  BY UpturnedFacts
<1>2. /\ Len(h) \in 1 .. Len(h) /\ Len(h) - n \in 1 .. Len(h) /\ Len(h) - 1 \in 1 .. Len(h)
      /\ \A i \in 1 .. Len(h) : h[i] \in Int
  OBVIOUS
<1> SUFFICES /\ Rise(h, n) \in Int /\ Rise(h, 1) \in Int
             /\ Rise(u, n) = -Rise(h, n)
             /\ Rise(h, n) > 2 * n =>
                  (Direction(h, n) = "increasing" <=> Rise(h, 1) > 0)
             /\ Rise(h, n) > 2 * n => Direction(u, n) = "decreasing"
  OBVIOUS
<1> HIDE DEF u
<1>3. /\ Rise(h, n) \in Int /\ Rise(h, 1) \in Int
      /\ Rise(u, n) = -Rise(h, n)
  <2>1. /\ Rise(h, n) = h[Len(h)] - h[Len(h) - n]
        /\ Rise(h, 1) = h[Len(h)] - h[Len(h) - 1]
        /\ Rise(u, n) = u[Len(h)] - u[Len(h) - n]
    BY <1>1 DEF Rise, LastOf
  <2>2. u[Len(h)] = 100 - h[Len(h)] /\ u[Len(h) - n] = 100 - h[Len(h) - n]
    BY <1>1, <1>2
  <2>3. h[Len(h)] \in Int /\ h[Len(h) - n] \in Int /\ h[Len(h) - 1] \in Int
    BY <1>2
  <2>4. \A a, b \in Int : (100 - a) - (100 - b) = -(a - b)
    OBVIOUS
  <2>5. Rise(u, n) = -(h[Len(h)] - h[Len(h) - n])
    <3>1. Rise(u, n) = (100 - h[Len(h)]) - (100 - h[Len(h) - n])
      BY <2>1, <2>2, Zenon
    <3> QED BY <2>3, <2>4, <3>1
  <2>6. Rise(h, n) \in Int /\ Rise(h, 1) \in Int
    BY <2>1, <2>3
  <2>7. Rise(u, n) = -Rise(h, n)
    BY <2>1, <2>5
  <2> QED BY <2>6, <2>7
<1>4. ASSUME Rise(h, n) > 2 * n
      PROVE  /\ Direction(h, n) = "increasing" <=> Rise(h, 1) > 0
             /\ Direction(u, n) = "decreasing"
  <2>1. Rise(u, n) < -n /\ ~(Rise(u, n) > n) /\ ~(Rise(u, n) > 0)
        /\ Rise(h, n) > n /\ Rise(h, n) > 0
    BY <1>3, <1>4
  <2>2. Direction(u, n) = "decreasing"
    BY <2>1 DEF Direction
  <2>3. Direction(h, n) = IF Rise(h, 1) <= 0 THEN "unstable" ELSE "increasing"
    BY <2>1 DEF Direction
  <2> QED BY <1>3, <2>2, <2>3
<1> QED BY <1>3, <1>4

\* The reversal momentum of a history is the overbought momentum of its reflection.
LEMMA MomentumMirrored ==
    ASSUME NEW h \in Seq(Int), NEW p,
           {"touched", "current"} \subseteq DOMAIN p, p = [x \in DOMAIN p |-> p[x]],
           p.lookback \in Nat \ {0}, {p.touched, p.current} \subseteq Int,
           p.jump # Nil => p.jump \in Int, p.sustained \in BOOLEAN,
           p.sustained => p.mode = "strict",
           p.jump # Nil /\ Len(h) >= p.lookback => HasMomentum(h, Span2(p))
    PROVE  rsi_reversal_momentum(h, p)
           <=> rsi_overbought_momentum(Upturned(h), TwinMomentum(p))
<1> DEFINE u == Upturned(h)
           q == TwinMomentum(p)
           w == LastN(h, p.lookback)
           v == LastN(u, q.lookback)
           n == Span2(p)
<1>1. u \in Seq(Int) /\ Len(u) = Len(h) /\ \A i \in 1 .. Len(h) : u[i] = 100 - h[i]
  BY UpturnedFacts
<1>2. /\ q.lookback = p.lookback /\ q.touched = 100 - p.touched /\ q.current = 100 - p.current
      /\ q.jump = p.jump /\ q.sustained = p.sustained /\ q.mode = p.mode
  BY DEF TwinMomentum
<1>3. n \in {1, 2} /\ Span2(q) = n /\ (p.sustained <=> n = 2)
  BY <1>2 DEF Span2
<1>4. w \in Seq(Int) /\ Len(w) = Least(p.lookback, Len(h))
  BY LastNFacts
<1>5. v = Upturned(w)
  BY <1>2, LastNMirrored
<1> SUFFICES rsi_reversal_momentum(h, p) <=> rsi_overbought_momentum(u, q)
  OBVIOUS
<1>6. /\ rsi_reversal_momentum(h, p) <=>
           /\ Len(h) >= p.lookback
           /\ \E r \in Values(w) : r < p.touched
           /\ LastOf(h) >= p.current
           /\ p.jump # Nil => /\ JumpAfterLow(w, p.jump)
                              /\ Rise(h, n) > 2 * n
                              /\ Direction(h, n) = "increasing"
           /\ p.sustained /\ Len(h) >= 3 => Climbed(h, p.mode)
      /\ rsi_overbought_momentum(u, q) <=>
           /\ Len(u) >= q.lookback
           /\ \E r \in Values(v) : r > q.touched
           /\ LastOf(u) <= q.current
           /\ q.jump # Nil => /\ DropAfterPeak(v, q.jump)
                              /\ HasMomentum(u, n)
                              /\ Rise(u, n) < -2 * n
                              /\ Direction(u, n) = "decreasing"
           /\ q.sustained /\ Len(u) >= 3 => Sank(u, q.mode)
  BY <1>3 DEF rsi_reversal_momentum, rsi_overbought_momentum
<1> HIDE DEF u, q, w, v, n
<1>7. CASE ~(Len(h) >= p.lookback)
  BY <1>1, <1>2, <1>6, <1>7
<1>8. CASE Len(h) >= p.lookback
  <2>1. w # <<>> /\ Len(h) >= 1
    BY <1>4, <1>8 DEF Least
  <2>2. (\E r \in Values(w) : r < p.touched) <=> (\E r \in Values(v) : r > q.touched)
    <3>1. /\ v \in Seq(Int) /\ Len(v) = Len(w) /\ \A i \in 1 .. Len(w) : v[i] = 100 - w[i]
          /\ \A i \in 1 .. Len(w) : w[i] \in Int
      BY <1>4, <1>5, UpturnedFacts
    <3>2. Values(w) = {w[i] : i \in 1 .. Len(w)} /\ Values(v) = {v[i] : i \in 1 .. Len(w)}
      BY <1>4, <3>1 DEF Values
    <3>3. \A i \in 1 .. Len(w) : w[i] < p.touched <=> v[i] > q.touched
      BY <1>2, <3>1
    <3> QED BY <3>2, <3>3
  <2>3. LastOf(h) >= p.current <=> LastOf(u) <= q.current
    BY <1>1, <1>2, <2>1 DEF LastOf
  <2>4. p.sustained /\ Len(h) >= 3 =>
          /\ Climbed(h, p.mode) <=> Sank(u, q.mode)
          /\ Climbed(h, p.mode) => Rise(h, 1) > 0
    <3> SUFFICES ASSUME p.sustained, Len(h) >= 3
                 PROVE  /\ Climbed(h, p.mode) <=> Sank(u, q.mode)
                        /\ Climbed(h, p.mode) => Rise(h, 1) > 0
      OBVIOUS
    <3>1. p.mode = "strict" /\ q.mode = "strict"
      BY <1>2
    <3>2. /\ Len(h) \in 1 .. Len(h) /\ Len(h) - 1 \in 1 .. Len(h) /\ Len(h) - 2 \in 1 .. Len(h)
          /\ \A i \in 1 .. Len(h) : h[i] \in Int
      OBVIOUS
    <3>3. Climbed(h, p.mode) <=>
             h[Len(h) - 1] > h[Len(h) - 2] /\ h[Len(h)] > h[Len(h) - 1]
      BY <3>1 DEF Climbed
    <3>4. Sank(u, q.mode) <=>
             u[Len(h) - 1] < u[Len(h) - 2] /\ u[Len(h)] < u[Len(h) - 1]
      BY <1>1, <3>1 DEF Sank
    <3>5. Rise(h, 1) = h[Len(h)] - h[Len(h) - 1]
      BY DEF Rise, LastOf
    <3>6. /\ u[Len(h)] = 100 - h[Len(h)] /\ u[Len(h) - 1] = 100 - h[Len(h) - 1]
          /\ u[Len(h) - 2] = 100 - h[Len(h) - 2]
          /\ {h[Len(h)], h[Len(h) - 1], h[Len(h) - 2]} \subseteq Int
      BY <1>1, <3>2
    <3> QED BY <3>3, <3>4, <3>5, <3>6
  <2>5. CASE p.jump = Nil
    BY <1>1, <1>2, <1>6, <1>8, <2>2, <2>3, <2>4, <2>5
  <2>6. CASE p.jump # Nil
    <3>1. Len(h) >= n + 1 /\ HasMomentum(u, n)
      BY <1>1, <1>3, <1>8, <2>6 DEF HasMomentum, n
    <3>2. JumpAfterLow(w, p.jump) <=> DropAfterPeak(v, q.jump)
      BY <1>2, <1>4, <1>5, <2>1, <2>6, PeakMirrored
    <3>3. /\ Rise(h, n) \in Int /\ Rise(h, 1) \in Int
          /\ Rise(u, n) = -Rise(h, n)
          /\ Rise(h, n) > 2 * n =>
               (Direction(h, n) = "increasing" <=> Rise(h, 1) > 0)
          /\ Rise(h, n) > 2 * n => Direction(u, n) = "decreasing"
      BY <1>3, <3>1, RiseMirrored DEF u
    <3>4. Rise(u, n) < -2 * n <=> Rise(h, n) > 2 * n
      BY <1>3, <3>3
    <3>5. /\ Rise(h, n) > 2 * n
          /\ p.sustained /\ Len(h) >= 3 => Climbed(h, p.mode)
          => Rise(h, 1) > 0
      <4>1. CASE n = 1
        BY <3>3, <4>1
      <4>2. CASE n = 2
        BY <1>3, <2>4, <3>1, <4>2
      <4> QED BY <1>3, <4>1, <4>2
    <3> QED BY <1>1, <1>2, <1>6, <1>8, <2>2, <2>3, <2>4, <2>6, <3>1, <3>2, <3>3, <3>4, <3>5
  <2> QED BY <2>5, <2>6
<1> QED BY <1>7, <1>8

-----------------------------------------------------------------------------
(* The histories, whatever bars come and whenever they are rebuilt.        *)

HistInv ==
    /\ bars \in Seq(Payloads)
    /\ rsiH \in Seq(Int) /\ candleH \in Seq(Candles)
    /\ rsiH # <<>> => bars # <<>> /\ candleH # <<>>

\* What a cache has of the two histories.
HistoriesOf(c) == c.rsi \in Seq(Int) /\ c.candle \in Seq(Candles)
Filled(c) == c.rsi # <<>> /\ c.candle # <<>>

LEMMA PushedFacts ==
    ASSUME NEW S, NEW h \in Seq(S), NEW x \in S, NEW cap \in Nat \ {0}
    PROVE  Trend!Pushed(h, x, cap) \in Seq(S) /\ Trend!Pushed(h, x, cap) # <<>>
<1> DEFINE s == Append(h, x)
<1>1. s \in Seq(S) /\ Len(s) = Len(h) + 1 /\ Len(h) \in Nat
  OBVIOUS
<1>2. LastN(s, cap) \in Seq(S) /\ Len(LastN(s, cap)) = Least(cap, Len(s))
  <2> HIDE DEF s
  <2> QED BY <1>1, LastNFacts
<1>3. Least(cap, Len(s)) # 0
  BY <1>1 DEF Least
<1> HIDE DEF s
<1>4. LastN(s, cap) # <<>>
  BY <1>2, <1>3
<1>5. Trend!Pushed(h, x, cap) = LastN(s, cap)
  BY DEF Trend!Pushed, Trend!LastN, Trend!Least, LastN, Least, s
<1> QED BY <1>2, <1>4, <1>5

LEMMA UpdatedFacts ==
    ASSUME IndicatorsAssumption, NEW c, HistoriesOf(c), NEW p \in Payloads
    PROVE  HistoriesOf(Trend!Updated(c, p)) /\ Filled(Trend!Updated(c, p))
<1> DEFINE d == Trend!Updated(c, p)
<1>1. p.rsi \in Int /\ p.bar \in Candles /\ RsiCap \in Nat \ {0} /\ CandleCap \in Nat \ {0}
  BY DEF IndicatorsAssumption, Candles
<1>2. d.rsi = Trend!Pushed(c.rsi, p.rsi, RsiCap) /\ d.candle = Trend!PushedCandle(c.candle, p.bar)
  BY DEF Trend!Updated
<1>3. d.rsi \in Seq(Int) /\ d.rsi # <<>>
  BY <1>1, <1>2, PushedFacts DEF HistoriesOf
<1>4. d.candle \in Seq(Candles) /\ d.candle # <<>>
  <2>1. /\ Trend!Pushed(c.candle, p.bar, CandleCap) \in Seq(Candles)
        /\ Trend!Pushed(c.candle, p.bar, CandleCap) # <<>>
    BY <1>1, PushedFacts DEF HistoriesOf
  <2>2. \/ d.candle = c.candle /\ c.candle # <<>>
        \/ d.candle = Trend!Pushed(c.candle, p.bar, CandleCap)
    BY <1>2 DEF Trend!PushedCandle
  <2> QED BY <2>1, <2>2 DEF HistoriesOf
<1> QED BY <1>3, <1>4 DEF HistoriesOf, Filled

\* The replay of the rows, row by row.
Replays(f, w) ==
    f = [i \in 0 .. Len(w) |-> IF i = 0 THEN Trend!Empty ELSE Trend!Updated(f[i - 1], w[i])]

LEMMA ReplaysExists ==
    ASSUME NEW w \in Seq(Payloads)
    PROVE  \E f : Replays(f, w)
<1> DEFINE V(f, i) == IF i = 0 THEN Trend!Empty ELSE Trend!Updated(f[i - 1], w[i])
           T == {n \in Nat : \E f : \A i \in 0 .. n : f[i] = V(f, i)}
<1>1. 0 \in T
  <2> DEFINE f == [i \in 0 .. 0 |-> Trend!Empty]
  <2>1. \A i \in 0 .. 0 : f[i] = V(f, i)
    OBVIOUS
  <2> HIDE DEF V
  <2> QED BY <2>1
<1>2. ASSUME NEW n \in T PROVE n + 1 \in T
  <2>1. PICK f : \A i \in 0 .. n : f[i] = V(f, i)
    OBVIOUS
  <2> DEFINE g == [i \in 0 .. n + 1 |-> IF i <= n THEN f[i] ELSE V(f, i)]
  <2>2. n \in Nat
    OBVIOUS
  <2>3. ASSUME NEW i \in 0 .. n + 1 PROVE g[i] = V(g, i)
    <3>1. g[i] = V(f, i)
      BY <2>1, <2>2
    <3>2. V(g, i) = V(f, i)
      <4>1. CASE i = 0
        BY <4>1
      <4>2. CASE i # 0
        <5>1. i - 1 \in 0 .. n + 1 /\ i - 1 <= n
          BY <2>2, <4>2
        <5>2. g[i - 1] = f[i - 1]
          BY <5>1
        <5> HIDE DEF g
        <5> QED BY <4>2, <5>2
      <4> QED BY <4>1, <4>2
    <3> QED BY <3>1, <3>2
  <2>4. n + 1 \in Nat
    BY <2>2
  <2> HIDE DEF V, g
  <2>5. \A i \in 0 .. n + 1 : g[i] = V(g, i)
    BY <2>3
  <2> QED BY <2>4, <2>5
<1>3. T = Nat
  <2>1. T \in SUBSET Nat
    OBVIOUS
  <2> HIDE DEF T
  <2> QED BY <1>1, <1>2, <2>1, Numbers
<1>4. PICK f : \A i \in 0 .. Len(w) : f[i] = V(f, i)
  <2>1. Len(w) \in T
    BY <1>3
  <2> QED BY <2>1
<1> DEFINE g == [i \in 0 .. Len(w) |-> f[i]]
<1>5. ASSUME NEW i \in 0 .. Len(w) PROVE g[i] = V(g, i)
  <2>1. CASE i = 0
    BY <1>4, <2>1
  <2>2. CASE i # 0
    <3>1. i - 1 \in 0 .. Len(w)
      BY <2>2
    <3>2. g[i - 1] = f[i - 1]
      BY <3>1
    <3>3. g[i] = V(f, i)
      BY <1>4
    <3> HIDE DEF g
    <3> QED BY <2>2, <3>2, <3>3
  <2> QED BY <2>1, <2>2
<1>6. g = [i \in 0 .. Len(w) |-> V(g, i)]
  <2>1. g = [i \in 0 .. Len(w) |-> g[i]]
    OBVIOUS
  <2> HIDE DEF g, V
  <2> QED BY <1>5, <2>1
<1> HIDE DEF g
<1>7. Replays(g, w)
  BY <1>6 DEF Replays
<1> QED BY <1>7

LEMMA WarmedFacts ==
    ASSUME IndicatorsAssumption, bars \in Seq(Payloads), bars # <<>>
    PROVE  HistoriesOf(Trend!Warmed) /\ Filled(Trend!Warmed)
<1> DEFINE w == LastN(bars, WarmRows)
           f == CHOOSE g : Replays(g, w)
<1>1. w \in Seq(Payloads) /\ Len(w) \in Nat \ {0}
  <2>1. WarmRows \in Nat \ {0}
    BY DEF IndicatorsAssumption
  <2>2. w \in Seq(Payloads) /\ Len(w) = Least(WarmRows, Len(bars))
    BY <2>1, LastNFacts
  <2>3. Len(bars) \in Nat \ {0}
    OBVIOUS
  <2> QED BY <2>1, <2>2, <2>3 DEF Least
<1>2. Trend!Warmed = f[Len(w)]
  <2>1. w = Trend!LastN(bars, WarmRows)
    BY DEF Trend!LastN, Trend!Least, LastN, Least
  <2> QED BY <2>1, Zenon DEF Trend!Warmed, Replays
<1> HIDE DEF w
<1>3. Replays(f, w)
  BY <1>1, ReplaysExists
<1> HIDE DEF f
<1>4. f[0] = Trend!Empty /\ \A i \in 1 .. Len(w) : f[i] = Trend!Updated(f[i - 1], w[i])
  BY <1>1, <1>3 DEF Replays
<1> DEFINE T == {n \in Nat : n <= Len(w) => HistoriesOf(f[n]) /\ (n > 0 => Filled(f[n]))}
<1>5. 0 \in T
  <2>1. Trend!Empty.rsi = <<>> /\ Trend!Empty.candle = <<>>
    BY DEF Trend!Empty
  <2>2. HistoriesOf(f[0])
    BY <1>4, <2>1 DEF HistoriesOf
  <2> QED BY <2>2
<1>6. ASSUME NEW n \in T PROVE n + 1 \in T
  <2> SUFFICES ASSUME n + 1 <= Len(w) PROVE HistoriesOf(f[n + 1]) /\ Filled(f[n + 1])
    OBVIOUS
  <2>1. HistoriesOf(f[n]) /\ w[n + 1] \in Payloads
    BY <1>1
  <2>2. f[n + 1] = Trend!Updated(f[n], w[n + 1])
    BY <1>1, <1>4
  <2> QED BY <2>1, <2>2, UpdatedFacts
<1>7. T = Nat
  <2>1. T \in SUBSET Nat
    OBVIOUS
  <2> HIDE DEF T
  <2> QED BY <1>5, <1>6, <2>1, Numbers
<1>8. Len(w) \in T
  BY <1>1, <1>7
<1> QED BY <1>1, <1>2, <1>8

LEMMA HistKept ==
    ASSUME IndicatorsAssumption, HistInv, [Trend!Next]_(Trend!vars)
    PROVE  HistInv'
<1>1. CASE Trend!Update
  <2>1. PICK p \in Payloads :
           /\ bars' = Append(bars, p)
           /\ Trend!SetCache(Trend!Updated(
                 [rsi |-> rsiH, ema |-> emaH, bb |-> bbH, candle |-> candleH], p))
    BY <1>1 DEF Trend!Update
  <2> DEFINE c == [rsi |-> rsiH, ema |-> emaH, bb |-> bbH, candle |-> candleH]
             d == Trend!Updated(c, p)
  <2>2. HistoriesOf(c)
    BY DEF HistInv, HistoriesOf
  <2> HIDE DEF c
  <2>3. HistoriesOf(d) /\ Filled(d)
    BY <2>2, UpdatedFacts
  <2>4. rsiH' = d.rsi /\ candleH' = d.candle
    BY <2>1 DEF Trend!SetCache, c
  <2>5. bars' \in Seq(Payloads) /\ bars' # <<>>
    BY <2>1 DEF HistInv
  <2> QED BY <2>3, <2>4, <2>5 DEF HistInv, HistoriesOf, Filled
<1>2. CASE Trend!Restart
  <2>1. bars # <<>> /\ bars' = bars /\ rsiH' = Trend!Warmed.rsi /\ candleH' = Trend!Warmed.candle
    BY <1>2 DEF Trend!Restart, Trend!SetCache
  <2> QED BY <2>1, WarmedFacts DEF HistInv, HistoriesOf, Filled
<1>3. CASE Trend!Evict
  BY <1>3 DEF Trend!Evict, Trend!SetCache, Trend!Empty, HistInv
<1>4. CASE Trend!Market
  BY <1>4 DEF Trend!Market, Trend!cache, HistInv
<1>5. CASE UNCHANGED Trend!vars
  BY <1>5 DEF Trend!vars, HistInv
<1> QED BY <1>1, <1>2, <1>3, <1>4, <1>5 DEF Trend!Next

LEMMA MirrorFollows ==
    ASSUME IndicatorsAssumption, HistInv
    PROVE  MirrorImage
<1> SUFFICES ASSUME rsiH # <<>>, NEW p \in Configs
             PROVE
      /\ p.type = "reversal_candle" =>
            IF p.pattern \notin PairPatterns
            THEN OneBar(trend.bar, p)
                 <=> OneBar(Flipped(trend.bar), TwinOf(p))
            ELSE Body(Older) # 0 /\ Body(trend.bar) # 0 =>
                     (TwoBars(Older, trend.bar, p)
                      <=> TwoBars(Flipped(Older),
                                        Flipped(trend.bar), TwinOf(p)))
      /\ p.type = "rsi_reversal_momentum" /\ ~ComparesMissing(p)
         /\ (p.sustained => p.mode = "strict") =>
            (rsi_reversal_momentum(rsiH, p)
             <=> rsi_overbought_momentum(Upturned(rsiH), TwinMomentum(p)))
  BY DEF MirrorImage, Cached
<1>1. trend.bar \in Candles
  <2>1. Len(bars) \in 1 .. Len(bars) /\ bars \in Seq(Payloads)
    BY DEF HistInv
  <2>2. bars[Len(bars)] \in Payloads
    BY <2>1
  <2> QED BY <2>2 DEF trend, LastOf, IndicatorsAssumption, Candles
<1>2. Older \in Candles
  <2>1. candleH \in Seq(Candles) /\ Len(candleH) \in Nat \ {0}
    BY DEF HistInv
  <2> QED BY <2>1 DEF Older
<1>3. ASSUME p.type = "reversal_candle"
      PROVE  IF p.pattern \notin PairPatterns
             THEN OneBar(trend.bar, p)
                  <=> OneBar(Flipped(trend.bar), TwinOf(p))
             ELSE Body(Older) # 0 /\ Body(trend.bar) # 0 =>
                      (TwoBars(Older, trend.bar, p)
                       <=> TwoBars(Flipped(Older),
                                         Flipped(trend.bar), TwinOf(p)))
  <2>1. p \in CandleConfig
    BY <1>3 DEF IndicatorsAssumption
  <2>2. /\ p.pattern \in DOMAIN Twin
        /\ {"pattern", "minClose", "maxClose"} \subseteq DOMAIN p
        /\ p = [x \in DOMAIN p |-> p[x]]
        /\ {p.minBody, p.maxBody, p.minClose, p.maxClose} \subseteq Int
    BY <2>1 DEF CandleConfig
  <2>3. CASE p.pattern \notin PairPatterns
    BY <1>1, <2>2, <2>3, OneBarMirrored
  <2>4. CASE p.pattern \in PairPatterns
    BY <1>1, <1>2, <2>2, <2>4, TwoBarsMirrored
  <2> QED BY <2>3, <2>4
<1>4. ASSUME p.type = "rsi_reversal_momentum", ~ComparesMissing(p), p.sustained => p.mode = "strict"
      PROVE  rsi_reversal_momentum(rsiH, p)
             <=> rsi_overbought_momentum(Upturned(rsiH), TwinMomentum(p))
  <2>1. p \in MomentumConfig
    BY <1>4 DEF IndicatorsAssumption
  <2>2. /\ {"touched", "current"} \subseteq DOMAIN p /\ p = [x \in DOMAIN p |-> p[x]]
        /\ p.lookback \in Nat \ {0} /\ {p.touched, p.current} \subseteq Int
        /\ p.sustained \in BOOLEAN /\ (p.jump # Nil => p.jump \in Int)
    BY <2>1 DEF MomentumConfig
  <2>3. p.jump # Nil /\ Len(rsiH) >= p.lookback => HasMomentum(rsiH, Span2(p))
    BY <1>4 DEF ComparesMissing
  <2>4. rsiH \in Seq(Int)
    BY DEF HistInv
  <2> QED BY <1>4, <2>2, <2>3, <2>4, MomentumMirrored
<1> QED BY <1>3, <1>4

\* Whatever bars come, at whatever prices, and whenever the cache is rebuilt or
\* emptied: a short rule judges the market as its long twin judges it upside down
\* (the "Mirror of ..." rules of cache/trend_cache.py).
THEOREM MirrorImageAlways ==
    ASSUME IndicatorsAssumption
    PROVE  Trend!Spec => []MirrorImage
<1>1. Trend!Init => HistInv
  BY DEF Trend!Init, HistInv
<1>2. HistInv /\ [Trend!Next]_(Trend!vars) => HistInv'
  BY HistKept
<1>3. HistInv => MirrorImage
  BY MirrorFollows
<1> QED BY <1>1, <1>2, <1>3, PTL DEF Trend!Spec

=============================================================================
