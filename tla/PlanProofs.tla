----------------------------- MODULE PlanProofs -----------------------------
(***************************************************************************)
(* The plans of the v2 run for any workbook, declared ranges and           *)
(* operations: what one operation, a whole plan and the application of     *)
(* plans keep, and that the application implements PlanPromise; and for    *)
(* any sections and budget, that the context is divided fairly and fits.   *)
(***************************************************************************)
EXTENDS PlanContext, FiniteSetTheorems, WellFoundedInduction, TLAPS

-----------------------------------------------------------------------------
(* Induction.                                                              *)

Below == {p \in Nat \X Nat : p[1] < p[2]}

(* Induction over the natural numbers, from the least number outside a     *)
(* set.                                                                    *)
LEMMA BelowIsWellFounded == IsWellFoundedOn(Below, Nat)
  BY NatLessThanWellFounded, Zenon DEF OpToRel, Below

LEMMA SetInduction ==
  ASSUME NEW S, 0 \in S, \A n \in Nat : n \in S => n + 1 \in S
  PROVE Nat \subseteq S
<1> DEFINE T == Nat \ S
<1>1. SUFFICES ASSUME T # {} PROVE FALSE
  OBVIOUS
<1>2. PICK x \in T : \A y \in T : ~ (<<y, x>> \in Below)
  <2>1. T \subseteq Nat
    OBVIOUS
  <2> HIDE DEF T
  <2> QED BY <1>1, <2>1, WFMin, BelowIsWellFounded, Zenon
<1>3. x \in Nat /\ x # 0 /\ x \notin S
  BY <1>2
<1>4. x - 1 \in Nat /\ <<x - 1, x>> \in Below
  BY <1>3 DEF Below
<1> QED BY <1>2, <1>3, <1>4

(* The largest number of a set of the first ones.                          *)
LEMMA MaxOfPrefix ==
  ASSUME NEW n \in Nat, NEW T \in SUBSET (1 .. n + 1), n + 1 \in T
  PROVE  Max(T) = n + 1
<1>1. \A y \in T : y \in Int /\ n + 1 >= y
  OBVIOUS
<1>2. \A x \in T : (\A y \in T : x >= y) => x = n + 1
  BY <1>1
<1> QED BY <1>1, <1>2 DEF Max

LEMMA MaxIsIn ==
  ASSUME NEW n \in Nat, NEW T \in SUBSET (1 .. n), T # {}
  PROVE  Max(T) \in T
<1> DEFINE S == {k \in Nat : \A U \in SUBSET (1 .. k) : U # {} => \E x \in U : \A y \in U : x >= y}
<1>1. 0 \in S
  <2>1. ASSUME NEW U \in SUBSET (1 .. 0) PROVE U = {}
    BY SMT
  <2> QED BY <2>1
<1>2. ASSUME NEW k \in Nat, k \in S PROVE k + 1 \in S
  <2>1. SUFFICES ASSUME NEW U \in SUBSET (1 .. k + 1), U # {}
                 PROVE \E x \in U : \A y \in U : x >= y
    OBVIOUS
  <2>2. CASE k + 1 \in U
    BY <2>2
  <2>3. CASE k + 1 \notin U
    <3>1. ASSUME NEW x \in U PROVE x \in 1 .. k
      <4>1. x \in 1 .. k + 1 /\ x # k + 1
        BY <2>3
      <4> QED BY <4>1
    <3>2. U \in SUBSET (1 .. k)
      BY <3>1
    <3> QED BY <1>2, <2>1, <3>2
  <2> QED BY <2>2, <2>3
<1> HIDE DEF S
<1>3. n \in S
  BY <1>1, <1>2, SetInduction
<1>4. \E x \in T : \A y \in T : x >= y
  BY <1>3 DEF S
<1> QED BY <1>4 DEF Max

-----------------------------------------------------------------------------
(* What FoldLeft computes, for Advance.                                    *)
Walked(base, s) == FoldLeft(Advance, base, s)

Walks(f, base, s, n) ==
  f = [T \in SUBSET (1 .. n) |->
         IF T = {} THEN base ELSE Advance(f[T \ {Max(T)}], s[Max(T)])]

(* FoldLeft is defined by a function on the subsets of the indices: there  *)
(* is one.                                                                 *)
LEMMA WalkExists ==
  ASSUME NEW base, NEW s, NEW n \in Nat
  PROVE  \E f : Walks(f, base, s, n)
<1> DEFINE S == {k \in Nat : \E f : Walks(f, base, s, k)}
<1>1. 0 \in S
  <2>1. ASSUME NEW U \in SUBSET (1 .. 0) PROVE U = {}
    BY SMT
  <2>2. Walks([T \in SUBSET (1 .. 0) |-> base], base, s, 0)
    BY <2>1 DEF Walks
  <2> QED BY <2>2
<1>2. ASSUME NEW k \in Nat, k \in S PROVE k + 1 \in S
  <2>1. PICK f : Walks(f, base, s, k)
    BY <1>2
  <2> DEFINE g == [T \in SUBSET (1 .. k + 1) |->
                     IF k + 1 \in T THEN Advance(f[T \ {k + 1}], s[k + 1]) ELSE f[T]]
             grown(T) == IF T = {} THEN base ELSE Advance(g[T \ {Max(T)}], s[Max(T)])
  <2>2. ASSUME NEW T \in SUBSET (1 .. k + 1), k + 1 \notin T
        PROVE  T \in SUBSET (1 .. k)
    <3>1. ASSUME NEW x \in T PROVE x \in 1 .. k
      <4>1. x \in 1 .. k + 1 /\ x # k + 1
        BY <2>2
      <4> QED BY <4>1
    <3> QED BY <3>1
  <2>3. ASSUME NEW T \in SUBSET (1 .. k + 1) PROVE g[T] = grown(T)
    <3>1. CASE k + 1 \in T
      <4>1. Max(T) = k + 1
        BY <3>1, MaxOfPrefix
      <4>2. T \ {k + 1} \in SUBSET (1 .. k + 1) /\ k + 1 \notin T \ {k + 1}
        OBVIOUS
      <4>3. g[T \ {k + 1}] = f[T \ {k + 1}]
        BY <4>2
      <4> QED BY <3>1, <4>1, <4>3
    <3>2. CASE k + 1 \notin T /\ T # {}
      <4>1. T \in SUBSET (1 .. k) /\ Max(T) \in T
        BY <3>2, <2>2, MaxIsIn
      <4>2. T \ {Max(T)} \in SUBSET (1 .. k + 1) /\ k + 1 \notin T \ {Max(T)}
        BY <3>2
      <4>3. g[T \ {Max(T)}] = f[T \ {Max(T)}]
        BY <4>2
      <4>4. f[T] = Advance(f[T \ {Max(T)}], s[Max(T)])
        BY <2>1, <3>2, <4>1 DEF Walks
      <4> QED BY <3>2, <4>3, <4>4
    <3>3. CASE T = {}
      <4>1. T \in SUBSET (1 .. k)
        BY <3>3
      <4> QED BY <2>1, <3>3, <4>1 DEF Walks
    <3> QED BY <3>1, <3>2, <3>3
  <2>4. Walks(g, base, s, k + 1)
    BY <2>3 DEF Walks
  <2> QED BY <2>4
<1> HIDE DEF S
<1>3. n \in S
  BY <1>1, <1>2, SetInduction
<1> QED BY <1>3 DEF S

(* The cursor of _rectangle_is_covered before the first interval and after *)
(* each.                                                                   *)
LEMMA FoldOfAdvance ==
  ASSUME NEW base, NEW s, NEW n \in Nat, DOMAIN s = 1 .. n
  PROVE  \E at : /\ at[0] = base
                 /\ \A k \in 1 .. n : at[k] = Advance(at[k - 1], s[k])
                 /\ Walked(base, s) = at[n]
<1> DEFINE f == CHOOSE g : Walks(g, base, s, n)
           at == [k \in 0 .. n |-> f[1 .. k]]
<1>1. Walks(f, base, s, n)
  BY WalkExists
<1>2. Walked(base, s) = f[1 .. n]
  BY DEF Walked, FoldLeft, MapThenFoldSet, Walks
<1> HIDE DEF f
<1>3. at[0] = base
  <2>1. 1 .. 0 = {} /\ 1 .. 0 \in SUBSET (1 .. n)
    BY SMT
  <2> QED BY <1>1, <2>1 DEF Walks
<1>4. ASSUME NEW k \in 1 .. n PROVE at[k] = Advance(at[k - 1], s[k])
  <2>1. /\ k - 1 \in Nat /\ k - 1 \in 0 .. n /\ k \in 0 .. n /\ k - 1 + 1 = k
        /\ 1 .. k \in SUBSET (1 .. n) /\ k \in 1 .. k
    BY SMT
  <2>2. Max(1 .. k) = k
    BY <2>1, MaxOfPrefix
  <2>3. (1 .. k) \ {k} = 1 .. k - 1
    BY SMT
  <2>4. f[1 .. k] = Advance(f[1 .. k - 1], s[k])
    BY <1>1, <2>1, <2>2, <2>3 DEF Walks
  <2> QED BY <2>1, <2>4
<1>5. at[n] = f[1 .. n]
  BY SMT
<1> QED BY <1>2, <1>3, <1>4, <1>5

-----------------------------------------------------------------------------
(* The declared intervals of a row, in their order.                        *)

Pairs == Int \X Int

(* The intervals are sorted by a strict total order.                       *)
LEMMA EarlierIsTotal ==
  /\ \A x, y \in Pairs : x = y \/ Earlier(x, y) \/ Earlier(y, x)
  /\ \A x, y, z \in Pairs : Earlier(x, y) /\ Earlier(y, z) => Earlier(x, z)
  /\ \A x \in Pairs : ~Earlier(x, x)
<1>1. ASSUME NEW x \in Pairs, NEW y \in Pairs PROVE x = y \/ Earlier(x, y) \/ Earlier(y, x)
  <2>1. /\ x = <<x[1], x[2]>> /\ x[1] \in Int /\ x[2] \in Int
        /\ y = <<y[1], y[2]>> /\ y[1] \in Int /\ y[2] \in Int
    BY DEF Pairs
  <2>2. CASE x[1] = y[1] /\ x[2] = y[2]
    BY <2>1, <2>2
  <2>3. CASE ~(x[1] = y[1] /\ x[2] = y[2])
    BY <2>1, <2>3 DEF Earlier
  <2> QED BY <2>2, <2>3
<1>2. ASSUME NEW x \in Pairs, NEW y \in Pairs, NEW z \in Pairs,
             Earlier(x, y), Earlier(y, z)
      PROVE Earlier(x, z)
  <2>1. /\ x[1] \in Int /\ x[2] \in Int /\ y[1] \in Int /\ y[2] \in Int
        /\ z[1] \in Int /\ z[2] \in Int
    BY DEF Pairs
  <2> QED BY <1>2, <2>1 DEF Earlier
<1>3. ASSUME NEW x \in Pairs PROVE ~Earlier(x, x)
  <2>1. x[1] \in Int /\ x[2] \in Int
    BY DEF Pairs
  <2> QED BY <2>1 DEF Earlier
<1> QED BY <1>1, <1>2, <1>3

(* A finite set of intervals that is not empty has a last one.             *)
LEMMA LastExists ==
  ASSUME NEW n \in Nat, NEW S \in SUBSET Pairs, IsFiniteSet(S), Cardinality(S) = n + 1
  PROVE  \E m \in S : \A x \in S \ {m} : Earlier(x, m)
<1> DEFINE Has(U) == \E m \in U : \A x \in U \ {m} : Earlier(x, m)
           C == {k \in Nat : \A U \in SUBSET Pairs :
                    IsFiniteSet(U) /\ Cardinality(U) = k + 1 => Has(U)}
<1>1. 0 \in C
  <2>1. ASSUME NEW U, IsFiniteSet(U), Cardinality(U) = 1 PROVE Has(U)
    <3>1. PICK m : U = {m}
      BY <2>1, FS_Singleton
    <3> QED BY <3>1
  <2> QED BY <2>1
<1>2. ASSUME NEW k \in Nat, k \in C PROVE k + 1 \in C
  <2>1. SUFFICES ASSUME NEW U \in SUBSET Pairs, IsFiniteSet(U), Cardinality(U) = k + 2
                 PROVE  Has(U)
    <3>1. k + 1 + 1 = k + 2 /\ k + 1 \in Nat
      OBVIOUS
    <3> HIDE DEF Has
    <3> QED BY <3>1
  <2>2. U # {}
    BY <2>1, FS_EmptySet
  <2>3. PICK x \in U : TRUE
    BY <2>2
  <2>4. IsFiniteSet(U \ {x}) /\ Cardinality(U \ {x}) = k + 1
    <3>1. IsFiniteSet(U \ {x}) /\ Cardinality(U \ {x}) = Cardinality(U) - 1
      BY <2>1, <2>3, FS_RemoveElement
    <3> QED BY <2>1, <3>1
  <2>5. PICK m \in U \ {x} : \A y \in (U \ {x}) \ {m} : Earlier(y, m)
    <3>1. U \ {x} \in SUBSET Pairs
      OBVIOUS
    <3> QED BY <1>2, <2>4, <3>1
  <2>6. m \in Pairs /\ x \in Pairs /\ m # x
    BY <2>3, <2>5
  <2>7. CASE Earlier(x, m)
    BY <2>5, <2>7
  <2>8. CASE Earlier(m, x)
    <3>1. ASSUME NEW y \in U \ {x} PROVE Earlier(y, x)
      BY <2>5, <2>6, <2>8, EarlierIsTotal
    <3> QED BY <2>3, <3>1
  <2> QED BY <2>6, <2>7, <2>8, EarlierIsTotal
<1> HIDE DEF C
<1>3. n \in C
  BY <1>1, <1>2, SetInduction
<1> QED BY <1>3 DEF C

IsOrder(s, S) ==
  /\ s \in [1 .. Cardinality(S) -> S]
  /\ \A x \in S : \E i \in 1 .. Cardinality(S) : s[i] = x
  /\ \A i, j \in 1 .. Cardinality(S) : i < j => Earlier(s[i], s[j])

(* Every finite set of intervals can be sorted.                            *)
LEMMA OrderExists ==
  ASSUME NEW S \in SUBSET Pairs, IsFiniteSet(S)
  PROVE  \E s : IsOrder(s, S)
<1> DEFINE C == {k \in Nat : \A U \in SUBSET Pairs :
                    IsFiniteSet(U) /\ Cardinality(U) = k => \E s : IsOrder(s, U)}
<1>1. 0 \in C
  <2>1. ASSUME NEW U, IsFiniteSet(U), Cardinality(U) = 0 PROVE IsOrder(<<>>, U)
    <3>1. U = {} /\ 1 .. Cardinality(U) = {}
      BY <2>1, FS_EmptySet
    <3> QED BY <3>1 DEF IsOrder
  <2> QED BY <2>1
<1>2. ASSUME NEW k \in Nat, k \in C PROVE k + 1 \in C
  <2>1. SUFFICES ASSUME NEW U \in SUBSET Pairs, IsFiniteSet(U), Cardinality(U) = k + 1
                 PROVE  \E s : IsOrder(s, U)
    OBVIOUS
  <2>2. PICK m \in U : \A x \in U \ {m} : Earlier(x, m)
    BY <2>1, LastExists
  <2>3. IsFiniteSet(U \ {m}) /\ Cardinality(U \ {m}) = k
    <3>1. IsFiniteSet(U \ {m}) /\ Cardinality(U \ {m}) = Cardinality(U) - 1
      BY <2>1, <2>2, FS_RemoveElement
    <3> QED BY <2>1, <3>1
  <2>4. PICK t : IsOrder(t, U \ {m})
    <3>1. U \ {m} \in SUBSET Pairs
      OBVIOUS
    <3> QED BY <1>2, <2>3, <3>1
  <2> DEFINE s == [i \in 1 .. k + 1 |-> IF i = k + 1 THEN m ELSE t[i]]
  <2>5. /\ t \in [1 .. k -> U \ {m}]
        /\ \A x \in U \ {m} : \E i \in 1 .. k : t[i] = x
        /\ \A i, j \in 1 .. k : i < j => Earlier(t[i], t[j])
    BY <2>3, <2>4 DEF IsOrder
  <2>6. ASSUME NEW i \in 1 .. k + 1 PROVE s[i] \in U
    <3>1. CASE i = k + 1
      BY <2>2, <3>1
    <3>2. CASE i # k + 1
      <4>1. i \in 1 .. k
        BY <3>2
      <4> QED BY <2>5, <3>2, <4>1
    <3> QED BY <3>1, <3>2
  <2>7. ASSUME NEW x \in U PROVE \E i \in 1 .. k + 1 : s[i] = x
    <3>1. CASE x = m
      <4>1. k + 1 \in 1 .. k + 1
        OBVIOUS
      <4> QED BY <3>1, <4>1
    <3>2. CASE x # m
      <4>1. PICK i \in 1 .. k : t[i] = x
        BY <2>5, <3>2
      <4>2. i \in 1 .. k + 1 /\ i # k + 1
        OBVIOUS
      <4> QED BY <4>1, <4>2
    <3> QED BY <3>1, <3>2
  <2>8. ASSUME NEW i \in 1 .. k + 1, NEW j \in 1 .. k + 1, i < j
        PROVE  Earlier(s[i], s[j])
    <3>1. i \in 1 .. k /\ i # k + 1
      BY <2>8
    <3>2. CASE j = k + 1
      BY <2>2, <2>5, <3>1, <3>2
    <3>3. CASE j # k + 1
      <4>1. j \in 1 .. k
        BY <3>3
      <4> QED BY <2>5, <2>8, <3>1, <3>3, <4>1
    <3> QED BY <3>2, <3>3
  <2>9. IsOrder(s, U)
    BY <2>1, <2>6, <2>7, <2>8 DEF IsOrder
  <2> QED BY <2>9
<1> HIDE DEF C
<1>3. Cardinality(S) \in C
  BY <1>1, <1>2, SetInduction, FS_CardinalityType
<1> QED BY <1>3 DEF C

-----------------------------------------------------------------------------
(* The walk over the intervals (_rectangle_is_covered).                    *)

(* Intervals is that order.                                                *)
LEMMA OrderIsChosen ==
  ASSUME NEW row, NEW r, NEW allowed,
         Meeting(row, r, allowed) \in SUBSET Pairs, IsFiniteSet(Meeting(row, r, allowed))
  PROVE  IsOrder(Intervals(row, r, allowed), Meeting(row, r, allowed))
<1> DEFINE S == Meeting(row, r, allowed)
           n == Cardinality(S)
           s == Intervals(row, r, allowed)
<1>1. n \in Nat
  BY FS_CardinalityType
<1>2. PICK t : IsOrder(t, S)
  BY OrderExists
<1>3. t \in SetToSeqs(S)
  <2>1. ASSUME NEW i \in 1 .. n, NEW j \in 1 .. n, i # j PROVE t[i] # t[j]
    <3>1. i < j \/ j < i
      BY <2>1
    <3>2. Earlier(t[i], t[j]) \/ Earlier(t[j], t[i])
      BY <1>2, <3>1 DEF IsOrder
    <3>3. t[i] \in Pairs
      BY <1>2 DEF IsOrder
    <3> QED BY <3>2, <3>3, EarlierIsTotal
  <2> QED BY <1>2, <2>1 DEF SetToSeqs, IsOrder
<1>4. DOMAIN t = 1 .. n
  BY <1>2 DEF IsOrder
<1>5. \A i, j \in DOMAIN t : i < j => Earlier(t[i], t[j])
  BY <1>2, <1>4 DEF IsOrder
<1>6. s \in SetToSeqs(S) /\ \A i, j \in DOMAIN s : i < j => Earlier(s[i], s[j])
  BY <1>3, <1>5 DEF Intervals
<1> HIDE DEF S, s
<1>7. s \in [1 .. n -> S] /\ \A i, j \in 1 .. n : i # j => s[i] # s[j]
  BY <1>6 DEF SetToSeqs
<1>8. s \in Injection(1 .. n, S)
  BY <1>7 DEF Injection, IsInjective
<1>9. IsFiniteSet(1 .. n) /\ Cardinality(1 .. n) = n
  BY <1>1, FS_Interval
<1>10. s \in Surjection(1 .. n, S)
  BY <1>8, <1>9, FS_Injection DEF S
<1>11. \A x \in S : \E i \in 1 .. n : s[i] = x
  BY <1>10 DEF Surjection
<1> QED BY <1>6, <1>7, <1>11 DEF IsOrder, S, s

(* The cursor walks to the end of the rectangle exactly when each of its   *)
(* columns is in one of the intervals.                                     *)
Covers(p, col) == p[1] <= col /\ col <= p[2]

(* One step of the cursor: over an interval that reaches it, never over a  *)
(* gap.                                                                    *)
LEMMA AdvanceSteps ==
  ASSUME NEW cursor \in Int, NEW p \in Pairs
  PROVE  /\ Advance(cursor, p) \in Int
         /\ Advance(cursor, p) >= cursor
         /\ p[1] > cursor => Advance(cursor, p) = cursor
         /\ p[1] <= cursor /\ p[2] >= cursor => Advance(cursor, p) = p[2] + 1
         /\ \A col \in Int : cursor <= col /\ col < Advance(cursor, p) => Covers(p, col)
<1>1. p[1] \in Int /\ p[2] \in Int
  BY DEF Pairs
<1> QED BY <1>1 DEF Advance, Covers

(* The cursor gets past the right column exactly when each column is in an *)
(* interval: what it has passed is covered, and a gap it stops at is in no *)
(* later interval.                                                         *)
LEMMA WalkCovers ==
  ASSUME NEW S \in SUBSET Pairs, NEW n \in Nat, n = Cardinality(S),
         NEW s, IsOrder(s, S), NEW left \in Int, NEW right \in Int,
         NEW at, at[0] = left, \A k \in 1 .. n : at[k] = Advance(at[k - 1], s[k])
  PROVE  at[n] > right <=> \A col \in left .. right : \E p \in S : Covers(p, col)
<1>1. ASSUME NEW k \in 1 .. n PROVE s[k] \in Pairs /\ s[k] \in S
  BY DEF IsOrder
<1> DEFINE Sound(k) == /\ at[k] \in Int /\ at[k] >= left
                       /\ \A col \in Int : left <= col /\ col < at[k] =>
                            \E p \in S : Covers(p, col)
           C == {k \in Nat : k <= n => Sound(k)}
<1>2. 0 \in C
  OBVIOUS
<1>3. ASSUME NEW k \in Nat, k \in C PROVE k + 1 \in C
  <2>1. SUFFICES ASSUME k + 1 <= n PROVE Sound(k + 1)
    OBVIOUS
  <2>2. k + 1 \in 1 .. n /\ k + 1 - 1 = k /\ k <= n
    BY <2>1
  <2>3. at[k + 1] = Advance(at[k], s[k + 1]) /\ s[k + 1] \in Pairs /\ s[k + 1] \in S
    BY <1>1, <2>2
  <2>4. Sound(k)
    BY <1>3, <2>2
  <2>5. /\ at[k + 1] \in Int /\ at[k + 1] >= at[k]
        /\ \A col \in Int : at[k] <= col /\ col < at[k + 1] => Covers(s[k + 1], col)
    BY <2>3, <2>4, AdvanceSteps
  <2>6. ASSUME NEW col \in Int, left <= col, col < at[k + 1]
        PROVE  \E p \in S : Covers(p, col)
    <3>1. CASE col < at[k]
      BY <2>4, <2>6, <3>1
    <3>2. CASE ~(col < at[k])
      <4>1. at[k] <= col
        BY <2>4, <3>2
      <4> QED BY <2>3, <2>5, <2>6, <4>1
    <3> QED BY <3>1, <3>2
  <2> QED BY <2>4, <2>5, <2>6
<1> HIDE DEF C
<1>4. ASSUME NEW k \in 0 .. n PROVE Sound(k)
  <2>1. k \in C /\ k <= n
    BY <1>2, <1>3, SetInduction
  <2> QED BY <2>1 DEF C
<1> HIDE DEF Sound
<1>5. \A k \in 0 .. n : at[k] \in Int
  BY <1>4 DEF Sound
<1> DEFINE Held(k) == \A j \in 1 .. k : /\ at[j - 1] <= at[k] /\ at[j] <= at[k]
                                        /\ s[j][1] > at[j - 1] => at[k] = at[j - 1]
           D == {k \in Nat : k <= n => Held(k)}
<1>6. 0 \in D
  OBVIOUS
<1>7. ASSUME NEW k \in Nat, k \in D PROVE k + 1 \in D
  <2>1. SUFFICES ASSUME k + 1 <= n, NEW j \in 1 .. k + 1
                 PROVE  /\ at[j - 1] <= at[k + 1] /\ at[j] <= at[k + 1]
                        /\ s[j][1] > at[j - 1] => at[k + 1] = at[j - 1]
    OBVIOUS
  <2>2. /\ k + 1 \in 1 .. n /\ k + 1 - 1 = k /\ k <= n
        /\ at[k] \in Int /\ at[k + 1] \in Int
    BY <1>5, <2>1
  <2>3. at[k + 1] = Advance(at[k], s[k + 1]) /\ s[k + 1] \in Pairs
    BY <1>1, <2>2
  <2>4. at[k + 1] >= at[k] /\ (s[k + 1][1] > at[k] => at[k + 1] = at[k])
    BY <2>2, <2>3, AdvanceSteps
  <2>5. CASE j = k + 1
    BY <2>2, <2>4, <2>5
  <2>6. CASE j # k + 1
    <3>1. /\ j \in 1 .. k /\ j \in 1 .. n /\ j \in 0 .. n /\ j - 1 \in 0 .. n
          /\ j < k + 1
      BY <2>1, <2>6
    <3>2. /\ at[j - 1] <= at[k] /\ at[j] <= at[k]
          /\ s[j][1] > at[j - 1] => at[k] = at[j - 1]
      BY <1>7, <2>2, <3>1
    <3>3. at[j] \in Int /\ at[j - 1] \in Int
      BY <1>5, <3>1
    <3>4. s[j][1] \in Int /\ s[k + 1][1] \in Int
      BY <1>1, <2>2, <3>1 DEF Pairs
    <3>5. s[j][1] <= s[k + 1][1]
      <4>1. Earlier(s[j], s[k + 1])
        BY <2>2, <3>1 DEF IsOrder
      <4> QED BY <3>4, <4>1 DEF Earlier
    <3> QED BY <2>2, <2>4, <3>2, <3>3, <3>4, <3>5
  <2> QED BY <2>5, <2>6
<1> HIDE DEF D
<1>8. Held(n)
  <2>1. n \in D
    BY <1>6, <1>7, SetInduction
  <2> QED BY <2>1 DEF D
<1> HIDE DEF Held
<1>9. n \in 0 .. n
  OBVIOUS
<1>10. ASSUME at[n] > right, NEW col \in left .. right
       PROVE  \E p \in S : Covers(p, col)
  <2>1. Sound(n)
    BY <1>4, <1>9
  <2> QED BY <1>10, <2>1 DEF Sound
<1>11. ASSUME \A col \in left .. right : \E p \in S : Covers(p, col), ~(at[n] > right)
       PROVE  FALSE
  <2>1. at[n] \in Int /\ at[n] >= left
    BY <1>4, <1>9 DEF Sound
  <2>2. PICK p \in S : Covers(p, at[n])
    BY <1>11, <2>1
  <2>3. PICK j \in 1 .. n : s[j] = p
    BY DEF IsOrder
  <2>4. /\ at[j - 1] <= at[n] /\ at[j] <= at[n]
        /\ p[1] > at[j - 1] => at[n] = at[j - 1]
    BY <1>8, <2>3 DEF Held
  <2>5. /\ at[j - 1] \in Int /\ at[j] = Advance(at[j - 1], p)
        /\ p \in Pairs /\ p[1] \in Int /\ p[2] \in Int
    BY <1>5, <2>3 DEF Pairs
  <2>6. p[1] <= at[n] /\ at[n] <= p[2]
    BY <2>2 DEF Covers
  <2>7. p[1] <= at[j - 1] /\ p[2] >= at[j - 1]
    BY <2>1, <2>4, <2>5, <2>6
  <2>8. at[j] = p[2] + 1
    BY <2>5, <2>7, AdvanceSteps
  <2> QED BY <2>1, <2>4, <2>5, <2>6, <2>8
<1> QED BY <1>10, <1>11

(* The same for the declared ranges that meet a row of the rectangle.      *)
LEMMA RowIsCovered ==
  ASSUME NEW r \in Rectangle, NEW allowed \in SUBSET Rectangle, IsFiniteSet(allowed),
         NEW row \in Int
  PROVE  Walked(r.left, Intervals(row, r, allowed)) > r.right
           <=> \A col \in r.left .. r.right :
                 \E a \in allowed : a.top <= row /\ row <= a.bottom
                                    /\ a.left <= col /\ col <= a.right
<1> DEFINE S == Meeting(row, r, allowed)
           A == {x \in allowed : /\ x.top <= row /\ row <= x.bottom
                                 /\ x.right >= r.left /\ x.left <= r.right}
           n == Cardinality(S)
           s == Intervals(row, r, allowed)
<1>1. r.left \in Int /\ r.right \in Int
  BY DEF Rectangle
<1>2. \A a \in allowed : a.left \in Int /\ a.right \in Int
  BY DEF Rectangle
<1>3. S = {<<a.left, a.right>> : a \in A}
  BY DEF Meeting
<1>4. S \in SUBSET Pairs
  BY <1>2, <1>3 DEF Pairs
<1>5. IsFiniteSet(S)
  <2> DEFINE f == [a \in A |-> <<a.left, a.right>>]
  <2>1. IsFiniteSet(A)
    BY FS_Subset
  <2>2. f \in Surjection(A, S)
    BY <1>3 DEF Surjection
  <2> HIDE DEF f, A, S
  <2> QED BY <2>1, <2>2, FS_Surjection
<1>6. n \in Nat /\ n = Cardinality(S)
  BY <1>5, FS_CardinalityType
<1>7. IsOrder(s, S)
  BY <1>4, <1>5, OrderIsChosen
<1>8. DOMAIN s = 1 .. n
  BY <1>7 DEF IsOrder
<1> HIDE DEF S, s, n
<1>9. PICK at : /\ at[0] = r.left
                /\ \A k \in 1 .. n : at[k] = Advance(at[k - 1], s[k])
                /\ Walked(r.left, s) = at[n]
  BY <1>6, <1>8, FoldOfAdvance
<1>10. at[n] > r.right <=> \A col \in r.left .. r.right : \E p \in S : Covers(p, col)
  BY <1>1, <1>4, <1>6, <1>7, <1>9, WalkCovers
<1>11. ASSUME NEW col \in r.left .. r.right
       PROVE  (\E p \in S : Covers(p, col))
                <=> \E a \in allowed : a.top <= row /\ row <= a.bottom
                                       /\ a.left <= col /\ col <= a.right
  <2>1. ASSUME NEW p \in S, Covers(p, col)
        PROVE  \E a \in allowed : a.top <= row /\ row <= a.bottom
                                  /\ a.left <= col /\ col <= a.right
    <3>1. PICK a \in A : p = <<a.left, a.right>>
      BY <1>3
    <3> QED BY <2>1, <3>1 DEF Covers
  <2>2. ASSUME NEW a \in allowed, a.top <= row, row <= a.bottom,
               a.left <= col, col <= a.right
        PROVE  \E p \in S : Covers(p, col)
    <3>1. a.left \in Int /\ a.right \in Int /\ col \in Int
          /\ r.left <= col /\ col <= r.right
      BY <1>1, <1>2
    <3>2. a.right >= r.left /\ a.left <= r.right
      BY <1>1, <2>2, <3>1
    <3>3. <<a.left, a.right>> \in S
      BY <1>3, <2>2, <3>2
    <3>4. Covers(<<a.left, a.right>>, col)
      BY <2>2 DEF Covers
    <3> QED BY <3>3, <3>4
  <2> QED BY <2>1, <2>2
<1> QED BY <1>9, <1>10, <1>11 DEF s

(* _rectangle_is_covered decides whether the declared ranges together have *)
(* every cell of the rectangle.                                            *)
LEMMA CoverIsUnion ==
  ASSUME NEW r \in Rectangle, NEW allowed \in SUBSET Rectangle, IsFiniteSet(allowed)
  PROVE  RectangleIsCovered(r, allowed)
           <=> CellsOf(r) \subseteq UNION {CellsOf(a) : a \in allowed}
<1> DEFINE In(row, col) == \E a \in allowed : a.top <= row /\ row <= a.bottom
                                              /\ a.left <= col /\ col <= a.right
<1>1. r.top \in Int /\ r.bottom \in Int /\ r.left \in Int /\ r.right \in Int
  BY DEF Rectangle
<1>2. RectangleIsCovered(r, allowed)
        <=> \A row \in r.top .. r.bottom : \A col \in r.left .. r.right : In(row, col)
  <2>1. \A row \in r.top .. r.bottom :
          Walked(r.left, Intervals(row, r, allowed)) > r.right
            <=> \A col \in r.left .. r.right : In(row, col)
    BY <1>1, RowIsCovered
  <2> HIDE DEF In
  <2> QED BY <2>1, Zenon DEF RectangleIsCovered, Walked
<1>3. ASSUME NEW row \in Int, NEW col \in Int
      PROVE  In(row, col) <=> <<row, col>> \in UNION {CellsOf(a) : a \in allowed}
  <2>1. \A a \in allowed : a.top \in Int /\ a.bottom \in Int /\ a.left \in Int /\ a.right \in Int
    BY DEF Rectangle
  <2>2. \A a \in allowed : <<row, col>> \in CellsOf(a)
                             <=> a.top <= row /\ row <= a.bottom
                                 /\ a.left <= col /\ col <= a.right
    BY <2>1 DEF CellsOf
  <2> QED BY <2>2, Zenon
<1> HIDE DEF In
<1>4. CellsOf(r) = (r.top .. r.bottom) \X (r.left .. r.right)
  BY DEF CellsOf
<1>5. CellsOf(r) \subseteq UNION {CellsOf(a) : a \in allowed}
        <=> \A row \in r.top .. r.bottom : \A col \in r.left .. r.right :
              <<row, col>> \in UNION {CellsOf(a) : a \in allowed}
  <2> DEFINE U == UNION {CellsOf(a) : a \in allowed}
  <2> HIDE DEF U
  <2>1. CellsOf(r) \subseteq U
          <=> \A row \in r.top .. r.bottom : \A col \in r.left .. r.right : <<row, col>> \in U
    BY <1>4
  <2> QED BY <2>1 DEF U
<1>6. \A row \in r.top .. r.bottom : \A col \in r.left .. r.right : row \in Int /\ col \in Int
  BY <1>1
<1> DEFINE U == UNION {CellsOf(a) : a \in allowed}
<1> HIDE DEF U
<1>7. \A row, col \in Int : In(row, col) <=> <<row, col>> \in U
  BY <1>3 DEF U
<1>8. CellsOf(r) \subseteq U
        <=> \A row \in r.top .. r.bottom : \A col \in r.left .. r.right : <<row, col>> \in U
  BY <1>5 DEF U
<1> QED BY <1>2, <1>6, <1>7, <1>8 DEF U

(* What a well formed operation writes to.                                 *)
Shape(op) ==
  /\ op.op \in {"set_value", "set_formula", "set_array_formula", "fill_formula",
                "fill_array_formula", "clear_range", "copy_range"}
  /\ op.sheet \in Sheet
  /\ Ranged(op) => op.range \in Rectangle
  /\ ~Ranged(op) => op.cell \in Int \X Int
  /\ Copies(op) => op.source_range \in Rectangle /\ op.source_sheet \in Sheet
  /\ op.op = "set_value" => op.value \in Value
  /\ op.op \in {"set_formula", "set_array_formula", "fill_formula", "fill_array_formula"}
       => op.formula \in Formula

(* What parse_plan makes is well formed.                                   *)
LEMMA OperationShape ==
  ASSUME NEW op \in PlanOperation
  PROVE  Shape(op)
BY DEF PlanOperation, Shape, Ranged, Copies

(* The destination has bounds, and so have the declared ranges.            *)
LEMMA DestinationShape ==
  ASSUME NEW op, Shape(op)
  PROVE  Destination(op) \in Rectangle
<1>1. CASE Copies(op)
  <2>1. op.source_range \in Rectangle /\ op.cell \in Int \X Int
    BY <1>1 DEF Shape, Copies, Ranged
  <2>2. /\ op.source_range.top \in Int /\ op.source_range.left \in Int
        /\ op.source_range.bottom \in Int /\ op.source_range.right \in Int
        /\ op.cell[1] \in Int /\ op.cell[2] \in Int
    BY <2>1 DEF Rectangle
  <2> QED BY <1>1, <2>2 DEF Destination, Moved, Rect, Rectangle
<1>2. CASE ~Copies(op) /\ Ranged(op)
  BY <1>2 DEF Shape, Destination
<1>3. CASE ~Copies(op) /\ ~Ranged(op)
  <2>1. op.cell[1] \in Int /\ op.cell[2] \in Int
    BY <1>3 DEF Shape
  <2> QED BY <1>3, <2>1 DEF Destination, At, Rect, Rectangle
<1> QED BY <1>1, <1>2, <1>3

LEMMA BoundsShape ==
  ASSUME NEW t \in Task, NEW sheet
  PROVE  AnswerBounds(t.answers, sheet) \in SUBSET Rectangle
         /\ IsFiniteSet(AnswerBounds(t.answers, sheet))
<1> DEFINE A == {x \in t.answers : x.sheet = sheet}
           B == AnswerBounds(t.answers, sheet)
           f == [a \in A |-> RangeBounds(a.cells)]
<1>1. ASSUME NEW a \in A PROVE RangeBounds(a.cells) \in Rectangle
  <2>1. a.cells \in [top : Nat, left : Nat, bottom : Nat, right : Nat]
    BY TaskAssumption
  <2>2. /\ a.cells.top \in Int /\ a.cells.left \in Int
        /\ a.cells.bottom \in Int /\ a.cells.right \in Int
    BY <2>1
  <2>3. MaxRow \in Int /\ MaxColumn \in Int
    BY GridAssumption
  <2> QED BY <2>2, <2>3 DEF RangeBounds, Rect, Rectangle
<1>2. IsFiniteSet(A)
  BY TaskAssumption, FS_Subset
<1>3. B = {RangeBounds(a.cells) : a \in A}
  BY DEF AnswerBounds
<1>4. f \in Surjection(A, B)
  BY <1>3 DEF Surjection
<1>5. IsFiniteSet(B)
  <2> HIDE DEF f, A, B
  <2> QED BY <1>2, <1>4, FS_Surjection
<1> QED BY <1>1, <1>3, <1>5

-----------------------------------------------------------------------------
(* Cells and contents that are moved.                                      *)

(* The cells of a rectangle and of the grid, by their rows and columns.    *)
LEMMA CellParts ==
  ASSUME NEW r \in Rectangle, NEW c
  PROVE  c \in CellsOf(r) <=> /\ c = <<c[1], c[2]>> /\ c[1] \in Int /\ c[2] \in Int
                              /\ r.top <= c[1] /\ c[1] <= r.bottom
                              /\ r.left <= c[2] /\ c[2] <= r.right
<1>1. r.top \in Int /\ r.bottom \in Int /\ r.left \in Int /\ r.right \in Int
  BY DEF Rectangle
<1> QED BY <1>1 DEF CellsOf

LEMMA GridParts ==
  ASSUME NEW c
  PROVE  c \in Cell <=> c = <<c[1], c[2]>> /\ c[1] \in Int /\ c[2] \in Int /\ InGrid(c)
BY GridAssumption DEF Cell, InGrid

(* What an operation with addresses writes to is in the grid.              *)
LEMMA DestinationInGrid ==
  ASSUME NEW op, Shape(op), Addressable(op)
  PROVE  CellsOf(Destination(op)) \subseteq Cell
<1> DEFINE d == Destination(op)
<1>1. d \in Rectangle
  BY DestinationShape
<1>2. d.top \in Int /\ d.bottom \in Int /\ d.left \in Int /\ d.right \in Int
  BY <1>1 DEF Rectangle
<1>3. 1 <= d.top /\ d.bottom <= MaxRow /\ 1 <= d.left /\ d.right <= MaxColumn
  <2>1. CASE Copies(op)
    <3>1. op.source_range \in Rectangle /\ op.cell \in Int \X Int
      BY <2>1 DEF Shape, Copies, Ranged
    <3>2. /\ op.source_range.top \in Int /\ op.source_range.left \in Int
          /\ op.cell[1] \in Int /\ op.cell[2] \in Int
      BY <3>1 DEF Rectangle
    <3>3. InGrid(op.cell) /\ d.bottom <= MaxRow /\ d.right <= MaxColumn
      BY <2>1 DEF Addressable, Copies, Ranged
    <3>4. d.top = op.source_range.top + (op.cell[1] - op.source_range.top)
          /\ d.left = op.source_range.left + (op.cell[2] - op.source_range.left)
      BY <2>1 DEF Destination, Moved, Rect
    <3> QED BY <3>2, <3>3, <3>4 DEF InGrid
  <2>2. CASE ~Copies(op) /\ Ranged(op)
    <3>1. d = op.range /\ RangeOk(op.range)
      BY <2>2 DEF Destination, Addressable
    <3> QED BY <3>1, GridAssumption DEF RangeOk, InGrid, TopLeft
  <2>3. CASE ~Copies(op) /\ ~Ranged(op)
    <3>1. d = At(op.cell) /\ InGrid(op.cell)
      BY <2>3 DEF Destination, Addressable
    <3> QED BY <3>1 DEF At, Rect, InGrid
  <2> QED BY <2>1, <2>2, <2>3
<1>4. ASSUME NEW c \in CellsOf(d) PROVE c \in Cell
  <2>1. /\ c = <<c[1], c[2]>> /\ c[1] \in Int /\ c[2] \in Int
        /\ d.top <= c[1] /\ c[1] <= d.bottom /\ d.left <= c[2] /\ c[2] <= d.right
    BY <1>1, CellParts
  <2>2. InGrid(c)
    BY <1>2, <1>3, <2>1, GridAssumption DEF InGrid
  <2> QED BY <2>1, <2>2, GridParts
<1> QED BY <1>4

(* A cell of a moved rectangle comes from the cell as far before it.       *)
Back(c, by) == <<c[1] - by[1], c[2] - by[2]>>

LEMMA MovedCells ==
  ASSUME NEW r \in Rectangle, NEW by \in Int \X Int, NEW c
  PROVE  /\ Moved(r, by) \in Rectangle
         /\ c \in CellsOf(Moved(r, by)) <=>
              c = <<c[1], c[2]>> /\ c[1] \in Int /\ c[2] \in Int /\ Back(c, by) \in CellsOf(r)
<1>1. /\ r.top \in Int /\ r.bottom \in Int /\ r.left \in Int /\ r.right \in Int
      /\ by[1] \in Int /\ by[2] \in Int
  BY DEF Rectangle
<1> DEFINE m == Moved(r, by)
<1>2. /\ m \in Rectangle /\ m.top = r.top + by[1] /\ m.bottom = r.bottom + by[1]
      /\ m.left = r.left + by[2] /\ m.right = r.right + by[2]
  BY <1>1 DEF Moved, Rect, Rectangle
<1>3. CASE c = <<c[1], c[2]>> /\ c[1] \in Int /\ c[2] \in Int
  <2>1. Back(c, by) = <<Back(c, by)[1], Back(c, by)[2]>>
        /\ Back(c, by)[1] = c[1] - by[1] /\ Back(c, by)[2] = c[2] - by[2]
    BY DEF Back
  <2>2. Back(c, by) \in CellsOf(r) <=> /\ r.top <= c[1] - by[1] /\ c[1] - by[1] <= r.bottom
                                       /\ r.left <= c[2] - by[2] /\ c[2] - by[2] <= r.right
    BY <1>1, <1>3, <2>1, CellParts
  <2>3. c \in CellsOf(m) <=> /\ m.top <= c[1] /\ c[1] <= m.bottom
                             /\ m.left <= c[2] /\ c[2] <= m.right
    BY <1>2, <1>3, CellParts
  <2>4. r.top <= c[1] - by[1] <=> r.top + by[1] <= c[1]
    BY <1>1, <1>3
  <2>5. c[1] - by[1] <= r.bottom <=> c[1] <= r.bottom + by[1]
    BY <1>1, <1>3
  <2>6. r.left <= c[2] - by[2] <=> r.left + by[2] <= c[2]
    BY <1>1, <1>3
  <2>7. c[2] - by[2] <= r.right <=> c[2] <= r.right + by[2]
    BY <1>1, <1>3
  <2> QED BY <1>2, <1>3, <2>2, <2>3, <2>4, <2>5, <2>6, <2>7
<1>4. CASE ~(c = <<c[1], c[2]>> /\ c[1] \in Int /\ c[2] \in Int)
  BY <1>2, <1>4, CellParts
<1> QED BY <1>2, <1>3, <1>4

(* What a copy reads is in the grid, and moved it is the destination.      *)
LEMMA CopySource ==
  ASSUME NEW op, Shape(op), Copies(op), Addressable(op)
  PROVE  /\ Offset(op) \in Int \X Int
         /\ op.source_range \in Rectangle
         /\ Destination(op) = Moved(op.source_range, Offset(op))
         /\ CellsOf(op.source_range) \subseteq Cell
<1>1. op.source_range \in Rectangle /\ op.cell \in Int \X Int
  BY DEF Shape, Copies, Ranged
<1>2. /\ op.source_range.top \in Int /\ op.source_range.left \in Int
      /\ op.source_range.bottom \in Int /\ op.source_range.right \in Int
      /\ op.cell[1] \in Int /\ op.cell[2] \in Int
  BY <1>1 DEF Rectangle
<1>3. Offset(op) \in Int \X Int
  BY <1>2 DEF Offset
<1>4. Destination(op) = Moved(op.source_range, Offset(op))
  BY DEF Destination, Offset
<1>5. RangeOk(op.source_range)
  BY DEF Addressable
<1>6. ASSUME NEW c \in CellsOf(op.source_range) PROVE c \in Cell
  <2>1. /\ c = <<c[1], c[2]>> /\ c[1] \in Int /\ c[2] \in Int
        /\ op.source_range.top <= c[1] /\ c[1] <= op.source_range.bottom
        /\ op.source_range.left <= c[2] /\ c[2] <= op.source_range.right
    BY <1>1, CellParts
  <2>2. InGrid(c)
    BY <1>2, <1>5, <2>1, GridAssumption DEF RangeOk, InGrid, TopLeft
  <2> QED BY <2>1, <2>2, GridParts
<1> QED BY <1>1, <1>3, <1>4, <1>6

-----------------------------------------------------------------------------
(* Contents.                                                               *)

(* A content stays one when it is moved, and its ref goes along.           *)
LEMMA TranslatedShape ==
  ASSUME NEW x \in Content, NEW by \in Int \X Int
  PROVE  /\ Translated(x, by) \in Content
         /\ IsArray(Translated(x, by)) <=> IsArray(x)
         /\ IsArray(x) => x.ref \in Rectangle /\ Translated(x, by).ref = Moved(x.ref, by)
<1>0. by[1] \in Int /\ by[2] \in Int
  OBVIOUS
<1>1. CASE x \in [kind : {"formula"}, of : Formula, shift : Int \X Int]
  <2>1. x.kind = "formula" /\ x.of \in Formula /\ x.shift[1] \in Int /\ x.shift[2] \in Int
    BY <1>1
  <2>2. Translated(x, by) = Entry(x.of, <<x.shift[1] + by[1], x.shift[2] + by[2]>>)
    BY <2>1 DEF Translated
  <2> QED BY <1>0, <2>1, <2>2 DEF Entry, Content, IsArray
<1>2. CASE x \in [kind : {"array"}, of : Formula, shift : Int \X Int, ref : Rectangle]
  <2>1. /\ x.kind = "array" /\ x.of \in Formula /\ x.shift[1] \in Int /\ x.shift[2] \in Int
        /\ x.ref \in Rectangle
    BY <1>2
  <2>2. Translated(x, by) = ArrayEntry(x.of, <<x.shift[1] + by[1], x.shift[2] + by[2]>>,
                                       Moved(x.ref, by))
    BY <2>1 DEF Translated, IsArray
  <2>3. Moved(x.ref, by) \in Rectangle
    BY <2>1, MovedCells
  <2> QED BY <1>0, <2>1, <2>2, <2>3 DEF ArrayEntry, Content, IsArray
<1>3. CASE x \in {Blank, [kind |-> "table"]} \cup [kind : {"value"}, of : Value]
  <2>1. x.kind \in {"blank", "table", "value"}
    BY <1>3 DEF Blank
  <2>2. CASE Resembles(x)
    <3>1. x.of \in Formula /\ Translated(x, by) = Entry(x.of, by)
      BY <2>1, <2>2 DEF Translated, IsArray, Resembles
    <3> QED BY <2>1, <3>1 DEF Entry, Content, IsArray
  <2>3. CASE ~Resembles(x)
    BY <2>1, <2>3 DEF Translated, IsArray
  <2> QED BY <2>2, <2>3
<1> QED BY <1>1, <1>2, <1>3 DEF Content

(* An array that is written spans the destination, from its top left cell. *)
LEMMA WrittenShape ==
  ASSUME NEW op, Shape(op), ~Copies(op), NEW c \in CellsOf(Destination(op))
  PROVE  /\ Written(op, c) \in Content
         /\ IsArray(Written(op, c)) =>
              Written(op, c).ref = Destination(op) /\ c = TopLeft(Destination(op))
<1>1. Destination(op) \in Rectangle
  BY DestinationShape
<1>2. c[1] \in Int /\ c[2] \in Int
  BY <1>1, CellParts
<1>3. CASE op.op = "set_value"
  BY <1>3 DEF Written, Shape, Content, IsArray
<1>4. CASE op.op = "set_formula"
  BY <1>4 DEF Written, Shape, Content, IsArray, Entry
<1>5. CASE op.op = "fill_formula"
  <2>1. op.range.top \in Int /\ op.range.left \in Int
    BY <1>5 DEF Shape, Ranged, Rectangle
  <2>2. Written(op, c) = Entry(op.formula, <<c[1] - op.range.top, c[2] - op.range.left>>)
    BY <1>5 DEF Written
  <2> QED BY <1>2, <1>5, <2>1, <2>2 DEF Shape, Content, IsArray, Entry
<1>6. CASE op.op = "clear_range"
  BY <1>6 DEF Written, Shape, Content, IsArray, Blank
<1>7. CASE op.op \in {"set_array_formula", "fill_array_formula"}
  <2>1. Written(op, c) = IF c = TopLeft(Destination(op))
                         THEN ArrayEntry(op.formula, <<0, 0>>, Destination(op))
                         ELSE Blank
    BY <1>7 DEF Written
  <2>2. op.formula \in Formula
    BY <1>7 DEF Shape
  <2> QED BY <1>1, <2>1, <2>2 DEF Content, IsArray, Blank, ArrayEntry
<1> QED BY <1>3, <1>4, <1>5, <1>6, <1>7 DEF Shape, Copies

-----------------------------------------------------------------------------
(* One operation.                                                          *)

(* What the steps of a plan keep of a workbook.                            *)
DeclaredBy(t, s) == UNION {CellsOf(r) : r \in AnswerBounds(t.answers, s)}

SameOutside(t, b, w) ==
  /\ DOMAIN w = DOMAIN b
  /\ \A s \in DOMAIN b : \A c \in Cell \ DeclaredBy(t, s) : w[s][c] = b[s][c]

Fit(t, op) ==
  Shape(op) /\ Addressable(op) /\ CellsOf(Destination(op)) \subseteq DeclaredBy(t, op.sheet)

(* A workbook by its worksheets.                                           *)
LEMMA WorkbookParts ==
  ASSUME NEW b, IsWorkbook(b)
  PROVE  /\ DOMAIN b \subseteq Sheet /\ b = [s \in DOMAIN b |-> b[s]]
         /\ \A s \in DOMAIN b : b[s] \in [Cell -> Content]
BY DEF IsWorkbook

LEMMA PartsMakeWorkbook ==
  ASSUME NEW D \in SUBSET Sheet, NEW b, b = [s \in D |-> b[s]],
         \A s \in D : b[s] \in [Cell -> Content]
  PROVE  IsWorkbook(b)
<1>1. b \in [D -> [Cell -> Content]]
  <2>1. \A s \in D : [x \in D |-> b[x]][s] \in [Cell -> Content]
    OBVIOUS
  <2> QED BY <2>1
<1> QED BY <1>1 DEF IsWorkbook

(* An operation leaves a grid, and the cells outside its destination as    *)
(* they are.                                                               *)
LEMMA EditedGrid ==
  ASSUME NEW w, IsWorkbook(w), NEW op, Shape(op), Addressable(op), Applies(w, op)
  PROVE  /\ Edited(w, op) \in [Cell -> Content]
         /\ \A c \in Cell \ CellsOf(Destination(op)) : Edited(w, op)[c] = w[op.sheet][c]
<1>1. op.sheet \in DOMAIN w
  BY DEF Applies
<1>2. w[op.sheet] \in [Cell -> Content]
  BY <1>1, WorkbookParts
<1>3. CASE Copies(op)
  <2>1. op.source_sheet \in DOMAIN w
    BY <1>3 DEF Applies
  <2>2. w[op.source_sheet] \in [Cell -> Content]
    BY <2>1, WorkbookParts
  <2> DEFINE from(c) == Back(c, Offset(op))
             copied(c) == Translated(w[op.source_sheet][from(c)], Offset(op))
  <2>3. ASSUME NEW c \in CellsOf(Destination(op)) PROVE copied(c) \in Content
    <3>1. from(c) \in Cell
      BY <1>3, CopySource, MovedCells
    <3> QED BY <1>3, <2>2, <3>1, CopySource, TranslatedShape
  <2>4. Edited(w, op) = [c \in Cell |-> IF c \in CellsOf(Destination(op)) THEN copied(c)
                                        ELSE w[op.sheet][c]]
    BY <1>3 DEF Edited, Pasted, Back
  <2> HIDE DEF copied
  <2> QED BY <1>2, <2>3, <2>4
<1>4. CASE ~Copies(op)
  <2>1. \A c \in CellsOf(Destination(op)) : Written(op, c) \in Content
    BY <1>4, WrittenShape
  <2>2. Edited(w, op) = [c \in Cell |-> IF c \in CellsOf(Destination(op)) THEN Written(op, c)
                                        ELSE w[op.sheet][c]]
    BY <1>4 DEF Edited
  <2> QED BY <1>2, <2>1, <2>2
<1> QED BY <1>3, <1>4

(* An operation leaves a workbook, and the other worksheets as they are.   *)
LEMMA AppliedShape ==
  ASSUME NEW w, IsWorkbook(w), NEW op, Shape(op), Addressable(op), Applies(w, op)
  PROVE  /\ IsWorkbook(Applied(w, op))
         /\ DOMAIN Applied(w, op) = DOMAIN w
         /\ Applied(w, op)[op.sheet] = Edited(w, op)
         /\ \A s \in DOMAIN w \ {op.sheet} : Applied(w, op)[s] = w[s]
<1>1. op.sheet \in DOMAIN w
  BY DEF Applies
<1>2. /\ DOMAIN w \subseteq Sheet /\ w = [s \in DOMAIN w |-> w[s]]
      /\ \A s \in DOMAIN w : w[s] \in [Cell -> Content]
  BY WorkbookParts
<1>3. Edited(w, op) \in [Cell -> Content]
  BY EditedGrid
<1>4. Applied(w, op) = [w EXCEPT ![op.sheet] = Edited(w, op)]
  BY DEF Applied
<1>5. /\ DOMAIN Applied(w, op) = DOMAIN w
      /\ Applied(w, op)[op.sheet] = Edited(w, op)
      /\ \A s \in DOMAIN w \ {op.sheet} : Applied(w, op)[s] = w[s]
  BY <1>1, <1>4
<1>6. Applied(w, op) = [s \in DOMAIN w |-> Applied(w, op)[s]]
  BY <1>2, <1>4
<1>7. \A s \in DOMAIN w : Applied(w, op)[s] \in [Cell -> Content]
  BY <1>2, <1>3, <1>5
<1>8. IsWorkbook(Applied(w, op))
  BY <1>2, <1>6, <1>7, PartsMakeWorkbook
<1> QED BY <1>5, <1>8

(* An operation within the declared ranges changes no other cell.          *)
LEMMA AppliedStaysInside ==
  ASSUME NEW t \in Task, NEW b, NEW w, IsWorkbook(w), SameOutside(t, b, w),
         NEW op, Fit(t, op), Applies(w, op)
  PROVE  SameOutside(t, b, Applied(w, op))
<1>1. /\ DOMAIN Applied(w, op) = DOMAIN w
      /\ Applied(w, op)[op.sheet] = Edited(w, op)
      /\ \A s \in DOMAIN w \ {op.sheet} : Applied(w, op)[s] = w[s]
      /\ \A c \in Cell \ CellsOf(Destination(op)) : Edited(w, op)[c] = w[op.sheet][c]
  BY AppliedShape, EditedGrid DEF Fit
<1>2. DOMAIN w = DOMAIN b
  BY DEF SameOutside
<1>3. ASSUME NEW s \in DOMAIN b, NEW c \in Cell \ DeclaredBy(t, s)
      PROVE  Applied(w, op)[s][c] = b[s][c]
  <2>1. w[s][c] = b[s][c]
    BY <1>3 DEF SameOutside
  <2>2. CASE s = op.sheet
    <3>1. c \in Cell \ CellsOf(Destination(op))
      BY <1>3, <2>2 DEF Fit
    <3> QED BY <1>1, <2>1, <2>2, <3>1
  <2>3. CASE s # op.sheet
    BY <1>1, <1>2, <2>1, <2>3
  <2> QED BY <2>2, <2>3
<1> QED BY <1>1, <1>2, <1>3 DEF SameOutside

(* A copy takes an array along as a whole or not at all, and leaves it     *)
(* anchored.                                                               *)
LEMMA AppliedStaysAnchored ==
  ASSUME NEW w, IsWorkbook(w), Anchored(w),
         NEW op, Shape(op), Addressable(op), Applies(w, op)
  PROVE  Anchored(Applied(w, op))
<1> DEFINE d == Destination(op)
           Good(x, c) == IsArray(x) => TopLeft(x.ref) = c /\ CellsOf(x.ref) \subseteq Cell
<1>1. /\ DOMAIN Applied(w, op) = DOMAIN w
      /\ Applied(w, op)[op.sheet] = Edited(w, op)
      /\ \A s \in DOMAIN w \ {op.sheet} : Applied(w, op)[s] = w[s]
      /\ \A c \in Cell \ CellsOf(d) : Edited(w, op)[c] = w[op.sheet][c]
  BY AppliedShape, EditedGrid
<1>2. op.sheet \in DOMAIN w
  BY DEF Applies
<1>3. \A s \in DOMAIN w : \A c \in Cell : Good(w[s][c], c)
  BY DEF Anchored
<1>4. ASSUME NEW c \in Cell, c \in CellsOf(d), ~Copies(op) PROVE Good(Edited(w, op)[c], c)
  <2>1. Edited(w, op)[c] = Written(op, c)
    BY <1>4 DEF Edited
  <2>2. IsArray(Written(op, c)) => Written(op, c).ref = d /\ c = TopLeft(d)
    BY <1>4, WrittenShape
  <2>3. CellsOf(d) \subseteq Cell
    BY DestinationInGrid
  <2> QED BY <2>1, <2>2, <2>3
<1>5. ASSUME NEW c \in Cell, c \in CellsOf(d), Copies(op) PROVE Good(Edited(w, op)[c], c)
  <2> DEFINE by == Offset(op)
             o == Back(c, by)
             x == w[op.source_sheet][o]
             src == op.source_range
  <2>1. /\ by \in Int \X Int /\ src \in Rectangle /\ d = Moved(src, by)
        /\ CellsOf(src) \subseteq Cell
    BY <1>5, CopySource
  <2>2. o \in CellsOf(src) /\ o \in Cell
    BY <1>5, <2>1, MovedCells
  <2>3. op.source_sheet \in DOMAIN w /\ WholeArrays(w[op.source_sheet], src)
    BY <1>5 DEF Applies
  <2>4. x \in Content
    BY <2>2, <2>3, WorkbookParts
  <2>5. Edited(w, op)[c] = Translated(x, by)
    BY <1>5 DEF Edited, Pasted, Back
  <2>6. SUFFICES ASSUME IsArray(x)
                 PROVE  TopLeft(Moved(x.ref, by)) = c /\ CellsOf(Moved(x.ref, by)) \subseteq Cell
    BY <2>1, <2>4, <2>5, TranslatedShape
  <2>7. x.ref \in Rectangle /\ TopLeft(x.ref) = o
    BY <1>3, <2>1, <2>2, <2>3, <2>4, <2>6, TranslatedShape
  <2>8. TopLeft(Moved(x.ref, by)) = c
    <3>1. x.ref.top = c[1] - by[1] /\ x.ref.left = c[2] - by[2]
      BY <2>7 DEF TopLeft, Back
    <3>2. c = <<c[1], c[2]>> /\ c[1] \in Int /\ c[2] \in Int /\ by[1] \in Int /\ by[2] \in Int
      BY <2>1, GridParts
    <3> QED BY <3>1, <3>2 DEF TopLeft, Moved, Rect
  <2>9. ASSUME NEW y \in CellsOf(Moved(x.ref, by)) PROVE y \in Cell
    <3>1. Back(y, by) \in CellsOf(x.ref) /\ y = <<y[1], y[2]>> /\ y[1] \in Int /\ y[2] \in Int
      BY <2>1, <2>7, MovedCells
    <3>2. o \in CellsOf(x.ref)
      <4>1. /\ x.ref.top \in Int /\ x.ref.left \in Int
            /\ x.ref.bottom \in Int /\ x.ref.right \in Int
        BY <2>7 DEF Rectangle
      <4>2. x.ref.top <= x.ref.bottom /\ x.ref.left <= x.ref.right
        BY <2>7, <3>1, <4>1, CellParts
      <4>3. o = <<x.ref.top, x.ref.left>>
        BY <2>7 DEF TopLeft
      <4> HIDE DEF o, x
      <4> QED BY <4>1, <4>2, <4>3 DEF CellsOf
    <3>3. o \in ArraysMet(w[op.source_sheet], src)
      BY <2>2, <2>6, <3>2 DEF ArraysMet, Overlap
    <3>4. CellsOf(x.ref) \subseteq CellsOf(src)
      BY <2>3, <3>3 DEF WholeArrays
    <3>5. y \in CellsOf(d)
      BY <2>1, <3>1, <3>4, MovedCells
    <3> QED BY <3>5, DestinationInGrid
  <2> QED BY <2>8, <2>9
<1>6. ASSUME NEW s \in DOMAIN w, NEW c \in Cell PROVE Good(Applied(w, op)[s][c], c)
  <2>1. CASE s # op.sheet
    BY <1>1, <1>3, <2>1
  <2>2. CASE s = op.sheet /\ c \notin CellsOf(d)
    BY <1>1, <1>2, <1>3, <2>2
  <2>3. CASE s = op.sheet /\ c \in CellsOf(d)
    BY <1>1, <1>4, <1>5, <2>3
  <2> QED BY <2>1, <2>2, <2>3
<1> QED BY <1>1, <1>6 DEF Anchored

-----------------------------------------------------------------------------
(* A whole plan.                                                           *)

Then(w, op) == IF w # None /\ Applies(w, op) THEN Applied(w, op) ELSE None

Made(b, ops) ==
  LET after[i \in 0 .. Len(ops)] == IF i = 0 THEN b ELSE Then(after[i - 1], ops[i])
  IN  after

(* Goes is what the last operation leaves.                                 *)
LEMMA GoesIsMade ==
  ASSUME NEW b, NEW ops
  PROVE  Goes(b, ops) = Made(b, ops)[Len(ops)]
BY DEF Goes, Made, Then

(* What the operations leave, one after the other: the recursive function  *)
(* exists.                                                                 *)
LEMMA MadeStepwise ==
  ASSUME NEW b, NEW ops, Len(ops) \in Nat
  PROVE  /\ Made(b, ops)[0] = b
         /\ \A i \in 1 .. Len(ops) : Made(b, ops)[i] = Then(Made(b, ops)[i - 1], ops[i])
<1> DEFINE n == Len(ops)
           Made_(f, k) == f = [i \in 0 .. k |-> IF i = 0 THEN b ELSE Then(f[i - 1], ops[i])]
           C == {k \in Nat : \E f : Made_(f, k)}
<1>1. 0 \in C
  <2>1. Made_([i \in 0 .. 0 |-> b], 0)
    BY SMT
  <2> HIDE DEF Made_
  <2> QED BY <2>1
<1>2. ASSUME NEW k \in Nat, k \in C PROVE k + 1 \in C
  <2>1. PICK f : Made_(f, k)
    BY <1>2
  <2> DEFINE g == [i \in 0 .. k + 1 |-> IF i = k + 1 THEN Then(f[k], ops[k + 1]) ELSE f[i]]
             h == [i \in 0 .. k + 1 |-> IF i = 0 THEN b ELSE Then(g[i - 1], ops[i])]
  <2>2. ASSUME NEW i \in 0 .. k + 1 PROVE g[i] = h[i]
    <3>1. CASE i = k + 1
      <4>1. g[i - 1] = f[k] /\ g[i] = Then(f[k], ops[k + 1])
        BY <3>1
      <4> QED BY <3>1, <4>1
    <3>2. CASE i # k + 1 /\ i # 0
      <4>1. /\ i \in 0 .. k /\ i - 1 \in 0 .. k + 1 /\ i - 1 # k + 1
        BY <3>2
      <4>2. g[i] = f[i] /\ g[i - 1] = f[i - 1]
        BY <3>2, <4>1
      <4>3. f[i] = Then(f[i - 1], ops[i])
        BY <2>1, <3>2, <4>1
      <4> QED BY <3>2, <4>2, <4>3
    <3>3. CASE i = 0
      <4>1. 0 \in 0 .. k /\ 0 # k + 1
        OBVIOUS
      <4>2. f[0] = b
        BY <2>1, <4>1
      <4> QED BY <3>3, <4>1, <4>2
    <3> QED BY <3>1, <3>2, <3>3
  <2>3. Made_(g, k + 1)
    BY <2>2
  <2> HIDE DEF Made_
  <2> QED BY <2>3
<1> HIDE DEF C
<1>3. n \in C
  BY <1>1, <1>2, SetInduction
<1>4. \E f : Made_(f, n)
  BY <1>3 DEF C
<1>5. Made_(Made(b, ops), n)
  BY <1>4 DEF Made
<1>6. 0 \in 0 .. n
  OBVIOUS
<1> QED BY <1>5, <1>6

(* What a plan within its limits and scope keeps, after any number of      *)
(* operations.                                                             *)
LEMMA PlanKeeps ==
  ASSUME NEW t \in Task, NEW b, IsWorkbook(b), NEW ops \in Seq(PlanOperation),
         WithinLimits(ops), InScopeThroughout(t, b, ops),
         NEW i \in 0 .. Len(ops), Made(b, ops)[i] # None
  PROVE  /\ IsWorkbook(Made(b, ops)[i])
         /\ SameOutside(t, b, Made(b, ops)[i])
         /\ Anchored(b) => Anchored(Made(b, ops)[i])
<1> DEFINE n == Len(ops)
           w(k) == Made(b, ops)[k]
           Kept(x) == x # None => /\ IsWorkbook(x) /\ SameOutside(t, b, x)
                                  /\ Anchored(b) => Anchored(x)
           C == {k \in Nat : k <= n => Kept(w(k))}
<1>1. n \in Nat /\ w(0) = b /\ \A k \in 1 .. n : w(k) = Then(w(k - 1), ops[k])
  BY MadeStepwise
<1>2. 0 \in C
  BY <1>1 DEF SameOutside
<1>3. ASSUME NEW k \in Nat, k \in C PROVE k + 1 \in C
  <2>1. SUFFICES ASSUME k + 1 <= n, w(k + 1) # None PROVE Kept(w(k + 1))
    <3>1. (k + 1 <= n => Kept(w(k + 1))) => k + 1 \in C
      <4> HIDE DEF Kept, w, n
      <4> QED OBVIOUS
    <3>2. (w(k + 1) # None => Kept(w(k + 1))) => Kept(w(k + 1))
      <4> HIDE DEF w
      <4> QED OBVIOUS
    <3> QED BY <3>1, <3>2
  <2>2. k + 1 \in 1 .. n /\ k + 1 - 1 = k /\ k <= n
    BY <1>1, <2>1
  <2> DEFINE op == ops[k + 1]
             v == w(k)
  <2>3. w(k + 1) = Then(v, op)
    BY <1>1, <2>2
  <2>4. v # None /\ Applies(v, op) /\ w(k + 1) = Applied(v, op)
    BY <2>1, <2>3 DEF Then
  <2>5. /\ IsWorkbook(v) /\ SameOutside(t, b, v)
        /\ Anchored(b) => Anchored(v)
    BY <1>3, <2>2, <2>4
  <2>6. op \in PlanOperation /\ Addressable(op) /\ InScope(b, t.answers, op)
    BY <1>1, <2>2 DEF WithinLimits, InScopeThroughout
  <2>7. Shape(op)
    BY <2>6, OperationShape
  <2>8. CellsOf(Destination(op)) \subseteq DeclaredBy(t, op.sheet)
    <3>1. Destination(op) \in Rectangle
      BY <2>7, DestinationShape
    <3>2. RectangleIsCovered(Destination(op), AnswerBounds(t.answers, op.sheet))
      BY <2>6 DEF InScope
    <3> HIDE DEF op
    <3> QED BY <3>1, <3>2, BoundsShape, CoverIsUnion DEF DeclaredBy
  <2>9. Fit(t, op)
    BY <2>6, <2>7, <2>8 DEF Fit
  <2> HIDE DEF op, v
  <2>10. IsWorkbook(Applied(v, op))
    BY <2>4, <2>5, <2>6, <2>7, AppliedShape
  <2>11. SameOutside(t, b, Applied(v, op))
    BY <2>4, <2>5, <2>9, AppliedStaysInside
  <2>12. Anchored(b) => Anchored(Applied(v, op))
    BY <2>4, <2>5, <2>6, <2>7, AppliedStaysAnchored
  <2> QED BY <2>4, <2>10, <2>11, <2>12
<1> HIDE DEF C
<1>4. i \in C
  BY <1>1, <1>2, <1>3, SetInduction
<1> QED BY <1>1, <1>4 DEF C

-----------------------------------------------------------------------------
(* The inductive invariant.                                                *)

(* What is left beside the working copy, and of the worker, in each phase. *)
Quiet ==
  /\ phase # "wait" => child \in {"none", "gone"}
  /\ phase \notin {"wait", "judge", "promote"} => input = Absent /\ staged = Absent
  /\ phase \notin {"save", "promote"} => disk.temporary = Absent
  /\ phase \in {"idle", "make"} => disk.candidate = Absent

(* Which plan is being applied, and what has been found of it.             *)
Judged ==
  /\ phase # "idle" => plan # None
  /\ phase = "idle" => (plan = None <=> verdict = None)
  /\ phase \notin {"idle", "cleanup"} => verdict = None
  /\ phase = "cleanup" => verdict = "rejected"
  /\ phase \in {"operations", "edit", "save"} => plan.route = "operations"
  /\ phase \in {"python", "wait", "judge", "promote"} => plan.route = "python" /\ ~task.cell
  /\ phase \in {"wait", "judge", "promote"} => plan.screened

(* The workbook in memory is what the operations so far make of the copy.  *)
Editing ==
  /\ phase \in {"edit", "save"} =>
       /\ PlanChecks(disk.working)
       /\ next \in 1 .. Len(plan.operations) + 1
       /\ IsWorkbook(book)
       /\ book = Made(disk.working, plan.operations)[next - 1]
  /\ phase = "save" => next = Len(plan.operations) + 1

(* What the worker reports is true of what it has saved.                   *)
Transforming ==
  /\ phase = "wait" /\ child \in {"save", "report", "return"} => plan.safe
  /\ phase = "wait" /\ child \in {"report", "return"} => staged = plan.result
  /\ phase \in {"wait", "judge"} /\ report = "ok" =>
       child \in {"return", "gone"} /\ plan.safe /\ staged = plan.result
  /\ phase = "promote" => plan.safe /\ ~plan.big /\ staged = plan.result

(* The candidate that is inspected is what the plan makes.                 *)
Inspected ==
  /\ phase = "inspect" /\ plan.route = "python" =>
       /\ ~task.cell /\ plan.screened /\ plan.safe /\ ~plan.big
       /\ disk.candidate = plan.result
  /\ phase = "inspect" /\ plan.route # "python" =>
       /\ PlanChecks(disk.working)
       /\ IsWorkbook(disk.candidate)
       /\ disk.candidate = Goes(disk.working, plan.operations)

PlanInv ==
  /\ TypeOK
  /\ Quiet
  /\ Judged
  /\ Editing
  /\ Transforming
  /\ Inspected

(* The plan that is being applied is of one of the two forms.              *)
LEMMA PlansAreFormed ==
  ASSUME TypeOK, plan # None
  PROVE  /\ plan \in Plan
         /\ plan.route \in {"operations", "python"}
         /\ plan.route = "python" => IsWorkbook(plan.result)
         /\ plan.route = "operations" => plan.operations \in Seq(PlanOperation)
<1>1. plan \in Plan /\ IsPlan(plan)
  BY SessionAssumption DEF TypeOK
<1> QED BY <1>1 DEF IsPlan

(* A workbook is not one of the marks of a file.                           *)
LEMMA FilesDiffer ==
  /\ Absent # Torn
  /\ \A f : IsWorkbook(f) => f \notin {Absent, Torn, None}
BY FileAssumption

(* Every step keeps Quiet.                                                 *)
LEMMA QuietStep ==
  ASSUME PlanInv, [Next]_vars
  PROVE  Quiet'
<1>1. TypeOK /\ Quiet /\ Judged
  BY DEF PlanInv
<1>2. CASE Reply
  BY <1>1, <1>2 DEF Reply, memory, worker, TypeOK, Quiet
<1>3. CASE MakeCandidate
  <2>1. plan.route \in {"operations", "python"}
    BY <1>1, <1>3, PlansAreFormed DEF MakeCandidate, Judged
  <2> QED BY <1>1, <1>3, <2>1
            DEF MakeCandidate, Goto, memory, worker, TypeOK, Quiet
<1>4. CASE NoCandidate
  BY <1>1, <1>4 DEF NoCandidate, memory, worker, TypeOK, Quiet
<1>5. CASE Publish \/ PublishFails \/ Cleanup
  BY <1>1, <1>5
    DEF Publish, PublishFails, Cleanup, Goto, Raise, memory, worker,
        TypeOK, Quiet
<1>6. CASE LoadWorking \/ LoadRefused \/ Edit \/ EditFails \/ BeginSave
        \/ Save \/ SaveFails
  BY <1>1, <1>6
    DEF LoadWorking, LoadRefused, Edit, EditFails, BeginSave, Save,
        SaveFails, Goto, Raise, memory, worker, TypeOK, Quiet
<1>7. CASE StartWorker \/ WorkerRefused \/ WorkerEnds \/ TimeOut
  BY <1>1, <1>7
    DEF StartWorker, WorkerRefused, WorkerEnds, TimeOut, Goto, Raise,
        RemoveWorkDirectory, memory, worker, TypeOK, Quiet
<1>8. CASE Judge \/ JudgeRefuses \/ CopyOut \/ CopyOutFails
  BY <1>1, <1>8
    DEF Judge, JudgeRefuses, CopyOut, CopyOutFails, Goto, Raise,
        RemoveWorkDirectory, memory, worker, TypeOK, Quiet
<1>9. CASE ChildLoads \/ ChildExecutes \/ ChildChecks \/ ChildSaves
        \/ ChildReports \/ ChildRaises \/ ChildExits \/ ChildDies
  BY <1>1, <1>9
    DEF ChildLoads, ChildExecutes, ChildChecks, ChildSaves, ChildReports,
        ChildRaises, ChildExits, ChildDies, ChildGoes, memory, TypeOK, Quiet
<1>10. CASE UNCHANGED vars
  BY <1>1, <1>10 DEF vars, memory, worker, TypeOK, Quiet
<1> QED
  BY <1>2, <1>3, <1>4, <1>5, <1>6, <1>7, <1>8, <1>9, <1>10
    DEF Next, Parent, Child

(* Every step keeps Judged.                                                *)
LEMMA JudgedStep ==
  ASSUME PlanInv, [Next]_vars
  PROVE  Judged'
<1>1. TypeOK /\ Judged
  BY DEF PlanInv
<1>2. CASE Reply
  <2>1. Head(replies) \in Plan /\ Tail(replies) \in Seq(Plan) /\ Head(replies) # None
    BY <1>1, <1>2, SessionAssumption DEF Reply, TypeOK
  <2> QED BY <1>1, <1>2, <2>1 DEF Reply, memory, worker, TypeOK, Judged
<1>3. CASE MakeCandidate
  <2>1. plan.route \in {"operations", "python"}
    BY <1>1, <1>3, PlansAreFormed DEF MakeCandidate, Judged
  <2> QED BY <1>1, <1>3, <2>1
            DEF MakeCandidate, Goto, memory, worker, TypeOK, Judged,
                RouteRefused
<1>4. CASE NoCandidate
  BY <1>1, <1>4, FileAssumption
    DEF NoCandidate, memory, worker, TypeOK, Judged
<1>5. CASE Publish \/ PublishFails \/ Cleanup
  BY <1>1, <1>5, FileAssumption
    DEF Publish, PublishFails, Cleanup, Goto, Raise, memory, worker,
        TypeOK, Judged
<1>6. CASE LoadWorking \/ LoadRefused \/ Edit \/ EditFails \/ BeginSave
        \/ Save \/ SaveFails
  BY <1>1, <1>6, FileAssumption
    DEF LoadWorking, LoadRefused, Edit, EditFails, BeginSave, Save,
        SaveFails, Goto, Raise, memory, worker, TypeOK, Judged
<1>7. CASE StartWorker \/ WorkerRefused \/ WorkerEnds \/ TimeOut
  BY <1>1, <1>7, FileAssumption
    DEF StartWorker, WorkerRefused, WorkerEnds, TimeOut, Goto, Raise,
        RemoveWorkDirectory, memory, worker, TypeOK, Judged
<1>8. CASE Judge \/ JudgeRefuses \/ CopyOut \/ CopyOutFails
  BY <1>1, <1>8, FileAssumption
    DEF Judge, JudgeRefuses, CopyOut, CopyOutFails, Goto, Raise,
        RemoveWorkDirectory, memory, worker, TypeOK, Judged
<1>9. CASE ChildLoads \/ ChildExecutes \/ ChildChecks \/ ChildSaves
        \/ ChildReports \/ ChildRaises \/ ChildExits \/ ChildDies
  BY <1>1, <1>9, FileAssumption
    DEF ChildLoads, ChildExecutes, ChildChecks, ChildSaves, ChildReports,
        ChildRaises, ChildExits, ChildDies, ChildGoes, memory, TypeOK, Judged
<1>10. CASE UNCHANGED vars
  BY <1>1, <1>10 DEF vars, memory, worker, TypeOK, Judged
<1> QED
  BY <1>2, <1>3, <1>4, <1>5, <1>6, <1>7, <1>8, <1>9, <1>10
    DEF Next, Parent, Child

(* The operation that goes through is the next one of the plan.            *)
LEMMA EditGoesOn ==
  ASSUME PlanInv, Edit
  PROVE  /\ Made(disk.working, plan.operations)[next] = Applied(book, Operation)
         /\ IsWorkbook(Applied(book, Operation))
         /\ next + 1 \in 1 .. Len(plan.operations) + 1
<1>1. TypeOK /\ Judged /\ Editing
  BY DEF PlanInv
<1>2. plan.operations \in Seq(PlanOperation) /\ Len(plan.operations) \in Nat
  BY <1>1, PlansAreFormed DEF Edit, Judged
<1>3. next \in 1 .. Len(plan.operations)
  BY <1>1, <1>2 DEF Edit, More, Editing
<1>4. IsWorkbook(book) /\ book # None /\ book = Made(disk.working, plan.operations)[next - 1]
  BY <1>1, FilesDiffer DEF Edit, Editing
<1>5. Made(disk.working, plan.operations)[next] = Then(book, Operation)
  <2>1. \A i \in 1 .. Len(plan.operations) :
          Made(disk.working, plan.operations)[i]
            = Then(Made(disk.working, plan.operations)[i - 1], plan.operations[i])
    BY <1>2, MadeStepwise
  <2>2. Made(disk.working, plan.operations)[next]
          = Then(Made(disk.working, plan.operations)[next - 1], plan.operations[next])
    BY <1>3, <2>1
  <2> QED BY <1>4, <2>2 DEF Operation
<1>6. Applies(book, Operation)
  BY DEF Edit
<1>7. Operation \in PlanOperation /\ Addressable(Operation)
  <2>1. WithinLimits(plan.operations)
    BY <1>1 DEF Edit, Editing, PlanChecks
  <2> QED BY <1>2, <1>3, <2>1 DEF Operation, WithinLimits
<1> QED BY <1>2, <1>3, <1>4, <1>5, <1>6, <1>7, OperationShape, AppliedShape
          DEF Then

(* Every step keeps Editing: the workbook in memory is what has been made  *)
(* of it.                                                                  *)
LEMMA EditingStep ==
  ASSUME PlanInv, [Next]_vars
  PROVE  Editing'
<1>1. TypeOK /\ Judged /\ Editing
  BY DEF PlanInv
<1>2. CASE Reply
  BY <1>1, <1>2 DEF Reply, memory, worker, TypeOK, Editing, PlanChecks
<1>3. CASE MakeCandidate
  <2>1. plan.route \in {"operations", "python"}
    BY <1>1, <1>3, PlansAreFormed DEF MakeCandidate, Judged
  <2> QED BY <1>1, <1>3, <2>1
            DEF MakeCandidate, Goto, memory, worker, TypeOK, Editing
<1>4. CASE NoCandidate
  BY <1>1, <1>4 DEF NoCandidate, memory, worker, TypeOK, Editing, PlanChecks
<1>5. CASE Publish \/ PublishFails \/ Cleanup
  BY <1>1, <1>5
    DEF Publish, PublishFails, Cleanup, Goto, Raise, memory, worker,
        TypeOK, Editing, PlanChecks
<1>6. CASE LoadWorking
  <2>1. plan.operations \in Seq(PlanOperation) /\ Len(plan.operations) \in Nat
    BY <1>1, <1>6, PlansAreFormed DEF LoadWorking, Judged
  <2>2. Made(disk.working, plan.operations)[0] = disk.working
    BY <2>1, MadeStepwise
  <2> QED BY <1>1, <1>6, <2>1, <2>2
            DEF LoadWorking, Goto, worker, TypeOK, Editing, PlanChecks
<1>7. CASE Edit
  <2>1. /\ Made(disk.working, plan.operations)[next] = Applied(book, Operation)
        /\ IsWorkbook(Applied(book, Operation)) /\ next + 1 \in 1 .. Len(plan.operations) + 1
    BY <1>7, EditGoesOn
  <2> QED BY <1>1, <1>7, <2>1
            DEF Edit, Goto, worker, TypeOK, Editing, PlanChecks
<1>8. CASE BeginSave
  <2>1. plan.operations \in Seq(PlanOperation) /\ Len(plan.operations) \in Nat
    BY <1>1, <1>8, PlansAreFormed DEF BeginSave, Judged
  <2> QED BY <1>1, <1>8, <2>1
            DEF BeginSave, More, Goto, memory, worker, TypeOK, Editing,
                PlanChecks
<1>9. CASE LoadRefused \/ EditFails \/ Save \/ SaveFails
  BY <1>1, <1>9
    DEF LoadRefused, EditFails, Save, SaveFails, Goto, Raise, memory,
        worker, TypeOK, Editing, PlanChecks
<1>10. CASE StartWorker \/ WorkerRefused \/ WorkerEnds \/ TimeOut
  BY <1>1, <1>10
    DEF StartWorker, WorkerRefused, WorkerEnds, TimeOut, Goto, Raise,
        RemoveWorkDirectory, memory, worker, TypeOK, Editing, PlanChecks
<1>11. CASE Judge \/ JudgeRefuses \/ CopyOut \/ CopyOutFails
  BY <1>1, <1>11
    DEF Judge, JudgeRefuses, CopyOut, CopyOutFails, Goto, Raise,
        RemoveWorkDirectory, memory, worker, TypeOK, Editing, PlanChecks
<1>12. CASE ChildLoads \/ ChildExecutes \/ ChildChecks \/ ChildSaves
         \/ ChildReports \/ ChildRaises \/ ChildExits \/ ChildDies
  BY <1>1, <1>12
    DEF ChildLoads, ChildExecutes, ChildChecks, ChildSaves, ChildReports,
        ChildRaises, ChildExits, ChildDies, ChildGoes, memory, TypeOK,
        Editing, PlanChecks
<1>13. CASE UNCHANGED vars
  BY <1>1, <1>13 DEF vars, memory, worker, TypeOK, Editing, PlanChecks
<1> QED
  BY <1>2, <1>3, <1>4, <1>5, <1>6, <1>7, <1>8, <1>9, <1>10, <1>11, <1>12,
     <1>13
    DEF Next, Parent, Child

(* Every step keeps TypeOK.                                                *)
LEMMA TypeOKStep ==
  ASSUME PlanInv, [Next]_vars
  PROVE  TypeOK'
<1>1. TypeOK /\ Quiet /\ Judged /\ Editing
  BY DEF PlanInv
<1>2. CASE Reply
  <2>1. Head(replies) \in Plan /\ Tail(replies) \in Seq(Plan) /\ Head(replies) # None
    BY <1>1, <1>2, SessionAssumption DEF Reply, TypeOK
  <2> QED BY <1>1, <1>2, <2>1 DEF Reply, memory, worker, TypeOK, Phase
<1>3. CASE MakeCandidate
  <2>1. plan.route \in {"operations", "python"}
    BY <1>1, <1>3, PlansAreFormed DEF MakeCandidate, Judged
  <2> QED BY <1>1, <1>3, <2>1
            DEF MakeCandidate, Goto, memory, worker, TypeOK, IsFile, Phase
<1>4. CASE NoCandidate
  BY <1>1, <1>4
    DEF NoCandidate, memory, worker, TypeOK, IsFile, Phase, ChildPlace,
        Presentable, Operation
<1>5. CASE Publish
  BY <1>1, <1>5
    DEF Publish, memory, worker, TypeOK, IsFile, Phase, ChildPlace,
        Presentable, Operation
<1>6. CASE PublishFails
  <2>1. CASE UNCHANGED disk
    BY <1>1, <1>6, <2>1
      DEF PublishFails, Raise, memory, worker, TypeOK, IsFile, Phase
  <2>2. CASE /\ Presentable(task, disk.candidate)
             /\ disk' = [disk EXCEPT !.working = disk.candidate, !.candidate = Absent]
    <3>1. IsWorkbook(disk.candidate)
      BY <1>1, <2>2 DEF TypeOK, IsFile, Presentable
    <3>2. /\ DOMAIN disk' = {"working", "candidate", "temporary"}
          /\ disk'.working = disk.candidate /\ disk'.candidate = Absent
          /\ disk'.temporary = disk.temporary
      BY <1>1, <2>2 DEF TypeOK
    <3> QED BY <1>1, <1>6, <3>1, <3>2
              DEF PublishFails, Raise, memory, worker, TypeOK, IsFile,
                  Phase
  <2> QED BY <1>6, <2>1, <2>2 DEF PublishFails
<1>7. CASE Cleanup
  BY <1>1, <1>7
    DEF Cleanup, Goto, memory, worker, TypeOK, IsFile, Phase, ChildPlace,
        Presentable, Operation
<1>8. CASE Edit
  <2>1. IsWorkbook(Applied(book, Operation))
    BY <1>8, EditGoesOn
  <2> QED BY <1>1, <1>8, <2>1 DEF Edit, Goto, worker, TypeOK
<1>9. CASE BeginSave
  BY <1>1, <1>9
    DEF BeginSave, Goto, memory, worker, TypeOK, IsFile, Phase,
        ChildPlace, Presentable, Operation
<1>10. CASE Save
  <2>1. IsWorkbook(book)
    BY <1>1, <1>10 DEF Save, Editing
  <2>2. /\ DOMAIN disk' = {"working", "candidate", "temporary"}
        /\ disk'.working = disk.working /\ disk'.candidate = book /\ disk'.temporary = Absent
    BY <1>1, <1>10 DEF Save, TypeOK
  <2> QED BY <1>1, <1>10, <2>1, <2>2
            DEF Save, Goto, memory, worker, TypeOK, IsFile, Phase
<1>11. CASE SaveFails
  <2>1. IsWorkbook(book)
    BY <1>1, <1>11 DEF SaveFails, Editing
  <2>2. CASE disk' = [disk EXCEPT !.candidate = book, !.temporary = Absent]
    <3>1. /\ DOMAIN disk' = {"working", "candidate", "temporary"}
          /\ disk'.working = disk.working /\ disk'.candidate = book /\ disk'.temporary = Absent
      BY <1>1, <2>2 DEF TypeOK
    <3> QED BY <1>1, <1>11, <2>1, <3>1
              DEF SaveFails, Raise, memory, worker, TypeOK, IsFile, Phase
  <2>3. CASE disk' = [disk EXCEPT !.temporary = Absent]
    BY <1>1, <1>11, <2>3
      DEF SaveFails, Raise, memory, worker, TypeOK, IsFile, Phase
  <2> QED BY <1>11, <2>2, <2>3 DEF SaveFails
<1>12. CASE LoadWorking \/ LoadRefused \/ EditFails
  BY <1>1, <1>12
    DEF LoadWorking, LoadRefused, EditFails, Goto, Raise, memory, worker,
        TypeOK, IsFile, Phase, ChildPlace, Presentable, Operation
<1>13. CASE StartWorker \/ WorkerRefused \/ WorkerEnds \/ TimeOut
  BY <1>1, <1>13
    DEF StartWorker, WorkerRefused, WorkerEnds, TimeOut, Goto, Raise,
        RemoveWorkDirectory, memory, worker, TypeOK, IsFile, Phase,
        ChildPlace, Presentable, Operation
<1>14. CASE Judge
  BY <1>1, <1>14
    DEF Judge, Goto, memory, worker, TypeOK, IsFile, Phase, ChildPlace,
        Presentable, Operation
<1>15. CASE JudgeRefuses
  BY <1>1, <1>15
    DEF JudgeRefuses, Raise, RemoveWorkDirectory, memory, TypeOK, IsFile,
        Phase, ChildPlace, Presentable, Operation
<1>16. CASE CopyOut
  BY <1>1, <1>16
    DEF CopyOut, Goto, RemoveWorkDirectory, memory, TypeOK, IsFile, Phase,
        ChildPlace, Presentable, Operation
<1>17. CASE CopyOutFails
  <2>1. CASE disk' = [disk EXCEPT !.candidate = staged, !.temporary = Absent]
    <3>1. /\ DOMAIN disk' = {"working", "candidate", "temporary"}
          /\ disk'.working = disk.working /\ disk'.candidate = staged /\ disk'.temporary = Absent
      BY <1>1, <2>1 DEF TypeOK
    <3> QED BY <1>1, <1>17, <3>1
              DEF CopyOutFails, Raise, RemoveWorkDirectory, memory,
                  TypeOK, IsFile, Phase
  <2>2. CASE disk' = [disk EXCEPT !.temporary = Absent]
    BY <1>1, <1>17, <2>2
      DEF CopyOutFails, Raise, RemoveWorkDirectory, memory, TypeOK,
          IsFile, Phase
  <2> QED BY <1>17, <2>1, <2>2 DEF CopyOutFails
<1>18. CASE ChildSaves
  <2>1. plan # None
    BY <1>1, <1>18 DEF ChildSaves, ChildGoes, Judged, Quiet
  <2>2. phase = "wait"
    BY <1>1, <1>18 DEF ChildSaves, ChildGoes, Quiet
  <2>3. IsWorkbook(plan.result)
    BY <1>1, <2>1, <2>2, PlansAreFormed DEF Judged
  <2> QED BY <1>1, <1>18, <2>3
            DEF ChildSaves, ChildGoes, memory, TypeOK, IsFile, ChildPlace
<1>19. CASE ChildLoads \/ ChildExecutes \/ ChildChecks \/ ChildReports
         \/ ChildRaises \/ ChildExits \/ ChildDies
  BY <1>1, <1>19
    DEF ChildLoads, ChildExecutes, ChildChecks, ChildReports, ChildRaises,
        ChildExits, ChildDies, ChildGoes, memory, TypeOK, IsFile, Phase,
        ChildPlace, Presentable, Operation
<1>20. CASE UNCHANGED vars
  BY <1>1, <1>20
    DEF vars, memory, worker, TypeOK, IsFile, Phase, ChildPlace,
        Presentable, Operation
<1> QED
  BY <1>2, <1>3, <1>4, <1>5, <1>6, <1>7, <1>8, <1>9, <1>10, <1>11, <1>12,
     <1>13, <1>14, <1>15, <1>16, <1>17, <1>18, <1>19, <1>20
    DEF Next, Parent, Child

(* Every step keeps Transforming, of the parent and of the worker.         *)
LEMMA TransformingStep ==
  ASSUME PlanInv, [Next]_vars
  PROVE  Transforming'
<1>1. TypeOK /\ Quiet /\ Judged /\ Transforming
  BY DEF PlanInv
<1>2. CASE Reply
  BY <1>1, <1>2
    DEF Reply, memory, worker, Judged, Quiet, Transforming, Vouched
<1>3. CASE MakeCandidate
  <2>1. plan.route \in {"operations", "python"}
    BY <1>1, <1>3, PlansAreFormed DEF MakeCandidate, Judged
  <2> QED BY <1>1, <1>3, <2>1
            DEF MakeCandidate, Goto, memory, worker, Transforming
<1>4. CASE NoCandidate
  BY <1>1, <1>4
    DEF NoCandidate, memory, worker, Judged, Quiet, Transforming, Vouched
<1>5. CASE Publish \/ PublishFails \/ Cleanup
  BY <1>1, <1>5
    DEF Publish, PublishFails, Cleanup, Goto, Raise, memory, worker,
        Judged, Quiet, Transforming, Vouched
<1>6. CASE LoadWorking \/ LoadRefused \/ Edit \/ EditFails \/ BeginSave
        \/ Save \/ SaveFails
  BY <1>1, <1>6
    DEF LoadWorking, LoadRefused, Edit, EditFails, BeginSave, Save,
        SaveFails, Goto, Raise, memory, worker, Judged, Quiet, Transforming,
        Vouched
<1>7. CASE StartWorker
  BY <1>1, <1>7, FileAssumption DEF StartWorker, Goto, Transforming
<1>8. CASE WorkerEnds
  BY <1>1, <1>8
    DEF WorkerEnds, Goto, memory, worker, Judged, Quiet, Transforming,
        Vouched
<1>9. CASE TimeOut
  BY <1>1, <1>9
    DEF TimeOut, Raise, RemoveWorkDirectory, memory, Judged, Quiet,
        Transforming, Vouched
<1>10. CASE WorkerRefused
  BY <1>1, <1>10
    DEF WorkerRefused, Raise, memory, worker, Judged, Quiet, Transforming,
        Vouched
<1>11. CASE Judge \/ JudgeRefuses \/ CopyOut \/ CopyOutFails
  BY <1>1, <1>11
    DEF Judge, JudgeRefuses, CopyOut, CopyOutFails, Goto, Raise,
        RemoveWorkDirectory, memory, worker, Judged, Quiet, Transforming,
        Vouched
<1>12. CASE ChildLoads \/ ChildExecutes \/ ChildChecks \/ ChildSaves
         \/ ChildReports \/ ChildRaises \/ ChildExits \/ ChildDies
  BY <1>1, <1>12
    DEF ChildLoads, ChildExecutes, ChildChecks, ChildSaves, ChildReports,
        ChildRaises, ChildExits, ChildDies, ChildGoes, memory, Judged, Quiet,
        Transforming, Vouched
<1>13. CASE UNCHANGED vars
  BY <1>1, <1>13
    DEF vars, memory, worker, Judged, Quiet, Transforming, Vouched
<1> QED
  BY <1>2, <1>3, <1>4, <1>5, <1>6, <1>7, <1>8, <1>9, <1>10, <1>11, <1>12,
     <1>13
    DEF Next, Parent, Child

(* Every step keeps Inspected.                                             *)
LEMMA InspectedStep ==
  ASSUME PlanInv, [Next]_vars
  PROVE  Inspected'
<1>1. TypeOK /\ Quiet /\ Judged /\ Editing /\ Transforming /\ Inspected
  BY DEF PlanInv
<1>2. CASE Reply
  BY <1>1, <1>2
    DEF Reply, memory, worker, TypeOK, Judged, Inspected, Transforming,
        PlanChecks
<1>3. CASE MakeCandidate
  <2>1. plan.route \in {"operations", "python"}
    BY <1>1, <1>3, PlansAreFormed DEF MakeCandidate, Judged
  <2> QED BY <1>1, <1>3, <2>1
            DEF MakeCandidate, Goto, memory, worker, Inspected
<1>4. CASE NoCandidate
  BY <1>1, <1>4
    DEF NoCandidate, memory, worker, TypeOK, Judged, Inspected,
        Transforming, PlanChecks
<1>5. CASE Publish \/ PublishFails \/ Cleanup
  BY <1>1, <1>5
    DEF Publish, PublishFails, Cleanup, Goto, Raise, memory, worker,
        TypeOK, Judged, Inspected, Transforming, PlanChecks
<1>6. CASE Save
  <2>1. plan.operations \in Seq(PlanOperation) /\ Len(plan.operations) \in Nat
    BY <1>1, <1>6, PlansAreFormed DEF Save, Judged
  <2>2. book = Goes(disk.working, plan.operations)
    <3>1. book = Made(disk.working, plan.operations)[Len(plan.operations)]
      BY <1>1, <1>6, <2>1 DEF Save, Editing
    <3> QED BY <3>1, GoesIsMade
  <2> QED BY <1>1, <1>6, <2>2
            DEF Save, Goto, memory, worker, TypeOK, Inspected, Judged,
                Editing, PlanChecks
<1>7. CASE LoadWorking \/ LoadRefused \/ Edit \/ EditFails \/ BeginSave
        \/ SaveFails
  BY <1>1, <1>7
    DEF LoadWorking, LoadRefused, Edit, EditFails, BeginSave, SaveFails,
        Goto, Raise, memory, worker, TypeOK, Judged, Inspected, Transforming,
        PlanChecks
<1>8. CASE StartWorker \/ WorkerRefused \/ WorkerEnds \/ TimeOut
  BY <1>1, <1>8
    DEF StartWorker, WorkerRefused, WorkerEnds, TimeOut, Goto, Raise,
        RemoveWorkDirectory, memory, worker, TypeOK, Judged, Inspected,
        Transforming, PlanChecks
<1>9. CASE Judge \/ JudgeRefuses \/ CopyOut \/ CopyOutFails
  BY <1>1, <1>9
    DEF Judge, JudgeRefuses, CopyOut, CopyOutFails, Goto, Raise,
        RemoveWorkDirectory, memory, worker, TypeOK, Judged, Inspected,
        Transforming, PlanChecks
<1>10. CASE ChildLoads \/ ChildExecutes \/ ChildChecks \/ ChildSaves
         \/ ChildReports \/ ChildRaises \/ ChildExits \/ ChildDies
  BY <1>1, <1>10
    DEF ChildLoads, ChildExecutes, ChildChecks, ChildSaves, ChildReports,
        ChildRaises, ChildExits, ChildDies, ChildGoes, memory, TypeOK, Judged,
        Inspected, Transforming, PlanChecks
<1>11. CASE UNCHANGED vars
  BY <1>1, <1>11
    DEF vars, memory, worker, TypeOK, Judged, Inspected, Transforming,
        PlanChecks
<1> QED
  BY <1>2, <1>3, <1>4, <1>5, <1>6, <1>7, <1>8, <1>9, <1>10, <1>11
    DEF Next, Parent, Child

(* The invariant holds when a task begins, and every step keeps it.        *)
LEMMA PlanInvInit == Init => PlanInv
<1> SUFFICES ASSUME Init PROVE PlanInv
  OBVIOUS
<1>1. PICK b \in Source : disk = [working |-> b, candidate |-> Absent, temporary |-> Absent]
  BY DEF Init
<1>2. IsWorkbook(b) /\ replies \in Seq(Plan)
  BY SessionAssumption DEF Init
<1>3. TypeOK
  BY <1>1, <1>2 DEF Init, TypeOK, IsFile, Phase, ChildPlace
<1>4. Quiet /\ Judged
  BY <1>1 DEF Init, Quiet, Judged
<1>5. Editing /\ Transforming /\ Inspected
  BY <1>1 DEF Init, Editing, Transforming, Inspected
<1> QED BY <1>3, <1>4, <1>5 DEF PlanInv

LEMMA PlanInvStep == PlanInv /\ [Next]_vars => PlanInv'
<1> SUFFICES ASSUME PlanInv, [Next]_vars PROVE PlanInv'
  OBVIOUS
<1>1. TypeOK' /\ Quiet' /\ Judged'
  BY TypeOKStep, QuietStep, JudgedStep
<1>2. Editing' /\ Transforming' /\ Inspected'
  BY EditingStep, TransformingStep, InspectedStep
<1> QED BY <1>1, <1>2 DEF PlanInv

(* The inductive invariant of the application of plans.                    *)
THEOREM PlansAreApplied == Spec => []PlanInv
<1>1. Init => PlanInv
  BY PlanInvInit
<1>2. PlanInv /\ [Next]_vars => PlanInv'
  BY PlanInvStep
<1> QED BY <1>1, <1>2, PTL DEF Spec

(* Files and memory stay well formed.                                      *)
THEOREM PlanTypes == Spec => []TypeOK
<1>1. PlanInv => TypeOK
  BY DEF PlanInv
<1> QED BY <1>1, PlansAreApplied, PTL

(* When _apply_plan has returned or raised no worker runs, and no          *)
(* candidate, temporary file or private directory is left.                 *)
THEOREM LeavesNothing == Spec => []NothingLeftBehind
<1>1. PlanInv => NothingLeftBehind
  BY DEF PlanInv, Quiet, NothingLeftBehind
<1> QED BY <1>1, PlansAreApplied, PTL

LEMMA DeclaredIsDeclaredBy ==
  ASSUME NEW s
  PROVE  Declared(s) = DeclaredBy(task, s)
BY DEF Declared, DeclaredBy

(* The walk over the sorted intervals accepts a destination exactly when   *)
(* each of its cells is in some declared range (_rectangle_is_covered).    *)
THEOREM CoverDecides == Spec => []CoverIsExact
<1>1. ASSUME PlanInv PROVE CoverIsExact
  <2>1. SUFFICES ASSUME phase = "operations", NEW i \in DOMAIN plan.operations
        PROVE  RectangleIsCovered(Destination(plan.operations[i]),
                                  AnswerBounds(task.answers, plan.operations[i].sheet))
                 <=> CellsOf(Destination(plan.operations[i]))
                       \subseteq Declared(plan.operations[i].sheet)
    BY DEF CoverIsExact
  <2> DEFINE op == plan.operations[i]
  <2>2. task \in Task /\ plan.operations \in Seq(PlanOperation)
    BY <1>1, <2>1, PlansAreFormed DEF PlanInv, TypeOK, Judged
  <2>3. op \in PlanOperation
    BY <2>2
  <2>4. Destination(op) \in Rectangle
    BY <2>3, OperationShape, DestinationShape
  <2> HIDE DEF op
  <2>5. RectangleIsCovered(Destination(op), AnswerBounds(task.answers, op.sheet))
          <=> CellsOf(Destination(op)) \subseteq DeclaredBy(task, op.sheet)
    BY <2>2, <2>4, BoundsShape, CoverIsUnion DEF DeclaredBy
  <2> QED BY <2>5, DeclaredIsDeclaredBy DEF op
<1>2. PlanInv => CoverIsExact
  BY <1>1
<1> QED BY <1>2, PlansAreApplied, PTL

(* The working copy changes only when a presentable candidate is           *)
(* published.                                                              *)
LEMMA WorkingChanges ==
  ASSUME PlanInv, [Next]_vars
  PROVE  /\ task' = task
         /\ \/ disk'.working = disk.working
            \/ /\ phase = "inspect" /\ Presentable(task, disk.candidate)
               /\ disk'.working = disk.candidate
<1>1. TypeOK
  BY DEF PlanInv
<1>2. CASE Publish
  BY <1>1, <1>2 DEF Publish, TypeOK
<1>3. CASE PublishFails
  BY <1>1, <1>3 DEF PublishFails, TypeOK
<1>4. CASE Reply \/ MakeCandidate \/ NoCandidate \/ Cleanup
  BY <1>1, <1>4 DEF Reply, MakeCandidate, NoCandidate, Cleanup, TypeOK
<1>5. CASE LoadWorking \/ LoadRefused \/ Edit \/ EditFails \/ BeginSave
        \/ Save \/ SaveFails
  BY <1>1, <1>5
    DEF LoadWorking, LoadRefused, Edit, EditFails, BeginSave, Save,
        SaveFails, TypeOK
<1>6. CASE StartWorker \/ WorkerRefused \/ WorkerEnds \/ TimeOut
  BY <1>1, <1>6 DEF StartWorker, WorkerRefused, WorkerEnds, TimeOut
<1>7. CASE Judge \/ JudgeRefuses \/ CopyOut \/ CopyOutFails
  BY <1>1, <1>7 DEF Judge, JudgeRefuses, CopyOut, CopyOutFails, TypeOK
<1>8. CASE Child
  BY <1>8
    DEF Child, ChildLoads, ChildExecutes, ChildChecks, ChildSaves,
        ChildReports, ChildRaises, ChildExits, ChildDies, ChildGoes
<1>9. CASE UNCHANGED vars
  BY <1>9 DEF vars
<1> QED
  BY <1>2, <1>3, <1>4, <1>5, <1>6, <1>7, <1>8, <1>9 DEF Next, Parent

(* What the operations route has made of the working copy.                 *)
LEMMA CandidateOfOperations ==
  ASSUME PlanInv, phase = "inspect", Presentable(task, disk.candidate),
         plan.route = "operations"
  PROVE  /\ SameOutside(task, disk.working, disk.candidate)
         /\ Anchored(disk.working) => Anchored(disk.candidate)
<1>1. /\ task \in Task /\ IsWorkbook(disk.working) /\ PlanChecks(disk.working)
      /\ plan.operations \in Seq(PlanOperation) /\ Len(plan.operations) \in Nat
      /\ IsWorkbook(disk.candidate)
      /\ disk.candidate = Goes(disk.working, plan.operations)
  BY PlansAreFormed DEF PlanInv, TypeOK, Judged, Inspected
<1>2. disk.candidate # None
  BY <1>1, FilesDiffer
<1>3. disk.candidate = Made(disk.working, plan.operations)[Len(plan.operations)]
  BY <1>1, GoesIsMade
<1>4. WithinLimits(plan.operations) /\ InScopeThroughout(task, disk.working, plan.operations)
  BY <1>1 DEF PlanChecks
<1>5. Len(plan.operations) \in 0 .. Len(plan.operations)
  BY <1>1
<1> QED BY <1>1, <1>2, <1>3, <1>4, <1>5, PlanKeeps

(* Operations change the declared answer cells of the working copy and no  *)
(* others (_validate_operation_scope), whatever the operations before did. *)
THEOREM StaysInside == Spec => OnlyDeclaredCellsChange
<1>1. ASSUME PlanInv, [Next]_vars, plan # None, plan.route = "operations"
      PROVE  /\ DOMAIN disk'.working = DOMAIN disk.working
             /\ \A s \in DOMAIN disk.working : \A c \in Cell \ Declared(s) :
                  disk'.working[s][c] = disk.working[s][c]
  <2>1. CASE disk'.working = disk.working
    BY <2>1
  <2>2. CASE /\ phase = "inspect" /\ Presentable(task, disk.candidate)
             /\ disk'.working = disk.candidate
    <3>1. SameOutside(task, disk.working, disk.candidate)
      BY <1>1, <2>2, CandidateOfOperations
    <3> QED BY <2>2, <3>1, DeclaredIsDeclaredBy DEF SameOutside
  <2> QED BY <1>1, <2>1, <2>2, WorkingChanges
<1>2. PlanInv /\ [Next]_vars =>
        [plan # None /\ plan.route = "operations" =>
           /\ DOMAIN disk'.working = DOMAIN disk.working
           /\ \A s \in DOMAIN disk.working : \A c \in Cell \ Declared(s) :
                disk'.working[s][c] = disk.working[s][c]]_vars
  BY <1>1
<1> QED BY <1>2, PlansAreApplied, PTL DEF Spec, OnlyDeclaredCellsChange

(* When the arrays of the workbooks that come in are anchored, of the      *)
(* source and of the transforms, those of the working copy are: after any  *)
(* number of copies of arrays, of parts of the sheet and of copies.        *)
THEOREM ArraysStayAnchored ==
  ASSUME \A b \in Source : Anchored(b),
         \A p \in Plan : p.route = "python" => Anchored(p.result)
  PROVE  Spec => []ArraysAnchored
<1>1. Init => Anchored(disk.working)
  BY DEF Init
<1>2. Anchored(disk.working) /\ PlanInv /\ [Next]_vars => Anchored(disk.working)'
  <2> SUFFICES ASSUME Anchored(disk.working), PlanInv, [Next]_vars
               PROVE  Anchored(disk.working)'
    OBVIOUS
  <2>1. CASE disk'.working = disk.working
    BY <2>1
  <2>2. CASE /\ phase = "inspect" /\ Presentable(task, disk.candidate)
             /\ disk'.working = disk.candidate
    <3>1. plan \in Plan /\ plan.route \in {"operations", "python"}
      BY <2>2, PlansAreFormed DEF PlanInv, Judged
    <3>2. CASE plan.route = "operations"
      BY <2>2, <3>2, CandidateOfOperations
    <3>3. CASE plan.route = "python"
      <4>1. disk.candidate = plan.result
        BY <2>2, <3>3 DEF PlanInv, Inspected
      <4> QED BY <2>2, <3>1, <3>3, <4>1
    <3> QED BY <3>1, <3>2, <3>3
  <2> QED BY <2>1, <2>2, WorkingChanges
<1>3. Anchored(disk.working) => ArraysAnchored
  BY DEF ArraysAnchored
<1> QED BY <1>1, <1>2, <1>3, PlansAreApplied, PTL DEF Spec

(* A candidate that is published is what the plan makes of the working     *)
(* copy.                                                                   *)
LEMMA CandidateIsAnOutcome ==
  ASSUME PlanInv, phase = "inspect", Presentable(task, disk.candidate)
  PROVE  disk.candidate \in Outcome(task, plan, disk.working)
<1>1. CASE plan.route = "python"
  <2>1. /\ ~task.cell /\ plan.screened /\ plan.safe /\ ~plan.big
        /\ disk.candidate = plan.result
    BY <1>1 DEF PlanInv, Inspected
  <2> QED BY <1>1, <2>1 DEF Outcome
<1>2. CASE plan.route # "python"
  <2>1. /\ PlanChecks(disk.working) /\ IsWorkbook(disk.candidate)
        /\ disk.candidate = Goes(disk.working, plan.operations)
    BY <1>2 DEF PlanInv, Inspected
  <2>2. disk.candidate # None
    BY <2>1, FilesDiffer
  <2> QED BY <1>2, <2>1, <2>2 DEF Outcome, PlanChecks
<1> QED BY <1>1, <1>2

(* Every step is one of PlanPromise, or changes nothing it tells apart.    *)
LEMMA StepsKeepThePromise ==
  ASSUME PlanInv, [Next]_vars
  PROVE  [Promise!Next]_<<task, disk.working, plan, verdict>>
<1>1. TypeOK /\ Judged
  BY DEF PlanInv
<1>2. CASE Reply
  <2>1. Head(replies) \in Plan
    BY <1>1, <1>2 DEF Reply, TypeOK
  <2>2. plan = None \/ verdict = "rejected"
    BY <1>1, <1>2 DEF Reply, TypeOK, Judged
  <2>3. Promise!Begin
    BY <1>2, <2>1, <2>2 DEF Reply, Promise!Begin
  <2> QED BY <2>3 DEF Promise!Next
<1>3. CASE Publish
  <2>1. plan # None /\ verdict = None
    BY <1>1, <1>3 DEF Publish, Judged
  <2>2. disk'.working = disk.candidate
    BY <1>1, <1>3 DEF Publish, TypeOK
  <2>3. disk.candidate \in Outcome(task, plan, disk.working)
    BY <1>3, CandidateIsAnOutcome DEF Publish
  <2>4. Promise!Accept
    BY <1>3, <2>1, <2>2, <2>3 DEF Publish, Promise!Accept
  <2> QED BY <2>4 DEF Promise!Next
<1>4. CASE PublishFails
  <2>1. plan # None /\ verdict = None
    BY <1>1, <1>4 DEF PublishFails, Judged
  <2>2. disk'.working = disk.working
        \/ (May("late") /\ disk'.working \in Outcome(task, plan, disk.working))
    <3>1. CASE UNCHANGED disk
      <4>1. disk'.working = disk.working
        BY <3>1
      <4> QED BY <4>1
    <3>2. CASE /\ May("late") /\ Presentable(task, disk.candidate)
               /\ disk' = [disk EXCEPT !.working = disk.candidate, !.candidate = Absent]
      <4>1. disk'.working = disk.candidate
        BY <1>1, <3>2 DEF TypeOK
      <4>2. disk.candidate \in Outcome(task, plan, disk.working)
        BY <1>4, <3>2, CandidateIsAnOutcome DEF PublishFails
      <4> QED BY <3>2, <4>1, <4>2
    <3> QED BY <1>4, <3>1, <3>2 DEF PublishFails
  <2>3. Promise!Reject
    BY <1>4, <2>1, <2>2 DEF PublishFails, Raise, Promise!Reject
  <2> QED BY <2>3 DEF Promise!Next
<1>5. CASE NoCandidate \/ LoadRefused \/ EditFails \/ SaveFails
        \/ WorkerRefused
           \/ TimeOut \/ JudgeRefuses \/ CopyOutFails
  <2>1. plan # None /\ verdict = None
    BY <1>1, <1>5
      DEF NoCandidate, LoadRefused, EditFails, SaveFails, WorkerRefused,
                      TimeOut, JudgeRefuses, CopyOutFails, Judged
  <2>2. verdict' = "rejected" /\ UNCHANGED <<task, plan>>
    BY <1>5 DEF NoCandidate, LoadRefused, EditFails, SaveFails, WorkerRefused,
                TimeOut, JudgeRefuses, CopyOutFails, Raise
  <2>3. disk'.working = disk.working
    BY <1>1, <1>5
      DEF NoCandidate, LoadRefused, EditFails, SaveFails, WorkerRefused,
                      TimeOut, JudgeRefuses, CopyOutFails, TypeOK
  <2>4. Promise!Reject
    BY <2>1, <2>2, <2>3 DEF Promise!Reject
  <2> QED BY <2>4 DEF Promise!Next
<1>6. CASE MakeCandidate \/ Cleanup \/ LoadWorking \/ Edit \/ BeginSave
        \/ Save
           \/ StartWorker \/ WorkerEnds \/ Judge \/ CopyOut
  <2>1. UNCHANGED <<task, plan, verdict>>
    BY <1>6 DEF MakeCandidate, Cleanup, LoadWorking, Edit, BeginSave, Save,
                StartWorker, WorkerEnds, Judge, CopyOut, Goto
  <2>2. disk'.working = disk.working
    BY <1>1, <1>6
      DEF MakeCandidate, Cleanup, LoadWorking, Edit, BeginSave, Save,
                      StartWorker, WorkerEnds, Judge, CopyOut, TypeOK
  <2> QED BY <2>1, <2>2
<1>7. CASE Child
  BY <1>7
    DEF Child, ChildLoads, ChildExecutes, ChildChecks, ChildSaves,
        ChildReports,
              ChildRaises, ChildExits, ChildDies, ChildGoes
<1>8. CASE UNCHANGED vars
  BY <1>8 DEF vars
<1> QED
  BY <1>2, <1>3, <1>4, <1>5, <1>6, <1>7, <1>8 DEF Next, Parent

(* A plan is applied to the working copy as a whole or not at all: the     *)
(* detailed steps, of the parent and of the worker, implement PlanPromise. *)
THEOREM PlansKeepThePromise == Spec => ImplementsPromise
<1>1. Init => Promise!Init
  BY DEF Init, Promise!Init
<1>2. PlanInv /\ [Next]_vars => [Promise!Next]_<<task, disk.working, plan, verdict>>
  BY StepsKeepThePromise
<1> QED BY <1>1, <1>2, PlansAreApplied, PTL
          DEF Spec, ImplementsPromise, Promise!Spec
-----------------------------------------------------------------------------
(* Sums.                                                                   *)

LEMMA CountedIsNotEmpty ==
  ASSUME NEW T, NEW k \in Nat, Cardinality(T) = k + 1
  PROVE  T # {}
<1>1. Cardinality({}) = 0
  BY FS_EmptySet
<1>2. k + 1 # 0
  OBVIOUS
<1> QED BY <1>1, <1>2, Zenon

(* A set of finite sets that has the empty one, and with a set every       *)
(* larger one, has them all.                                               *)
LEMMA FiniteInduction ==
  ASSUME NEW S, IsFiniteSet(S), NEW D, {} \in D,
         \A T \in SUBSET S : \A x \in S \ T : T \in D => T \cup {x} \in D
  PROVE  S \in D
<1> DEFINE C == {k \in Nat : \A T \in SUBSET S : Cardinality(T) = k => T \in D}
<1>1. \A T \in SUBSET S : IsFiniteSet(T) /\ Cardinality(T) \in Nat
  BY FS_Subset, FS_CardinalityType
<1>2. 0 \in C
  BY <1>1, FS_EmptySet
<1>3. ASSUME NEW k \in Nat, k \in C PROVE k + 1 \in C
  <2>1. SUFFICES ASSUME NEW T \in SUBSET S, Cardinality(T) = k + 1 PROVE T \in D
    BY <1>3
  <2>2. T # {}
    BY <2>1, CountedIsNotEmpty
  <2>3. PICK x : x \in T
    BY <2>2
  <2>4. Cardinality(T \ {x}) = k
    <3>1. Cardinality(T \ {x}) = Cardinality(T) - 1
      BY <1>1, <2>3, FS_RemoveElement
    <3> QED BY <2>1, <3>1
  <2>5. T \ {x} \in D
    BY <1>3, <2>4
  <2>6. (T \ {x}) \cup {x} = T /\ x \in S \ (T \ {x}) /\ T \ {x} \in SUBSET S
    BY <2>3
  <2>7. (T \ {x}) \cup {x} \in D
    BY <2>5, <2>6
  <2> QED BY <2>6, <2>7
<1> HIDE DEF C
<1>4. Cardinality(S) \in C
  BY <1>1, <1>2, <1>3, SetInduction
<1> QED BY <1>4 DEF C

(* The function that a sum over S is defined by.                           *)
Some(T) == CHOOSE x \in T : TRUE

Adds(g, f, S) ==
  g = [T \in SUBSET S |-> IF T = {} THEN 0 ELSE f[Some(T)] + g[T \ {Some(T)}]]

LEMMA SumIsChosen ==
  ASSUME NEW f, NEW S
  PROVE  SumFunctionOnSet(f, S) = (CHOOSE g : Adds(g, f, S))[S]
BY DEF SumFunctionOnSet, FoldFunctionOnSet, MapThenFoldSet, Adds, Some

LEMMA SomeIsIn ==
  ASSUME NEW T, T # {}
  PROVE  Some(T) \in T
BY DEF Some

(* It exists: first for the small subsets.                                 *)
LEMMA AddsExists ==
  ASSUME NEW f, NEW S, IsFiniteSet(S)
  PROVE  \E g : Adds(g, f, S)
<1> DEFINE small(k) == {T \in SUBSET S : Cardinality(T) <= k}
           adds(g, T) == IF T = {} THEN 0 ELSE f[Some(T)] + g[T \ {Some(T)}]
           C == {k \in Nat : \E g : g = [T \in small(k) |-> adds(g, T)]}
<1>1. \A T \in SUBSET S : IsFiniteSet(T) /\ Cardinality(T) \in Nat
  BY FS_Subset, FS_CardinalityType
<1>2. ASSUME NEW T \in SUBSET S, T # {}
      PROVE  T \ {Some(T)} \in SUBSET S /\ Cardinality(T \ {Some(T)}) = Cardinality(T) - 1
  BY <1>1, <1>2, SomeIsIn, FS_RemoveElement
<1>3. 0 \in C
  <2>1. \A T \in small(0) : T = {}
    BY <1>1, FS_EmptySet
  <2> DEFINE g == [T \in small(0) |-> 0]
  <2>2. g = [T \in small(0) |-> adds(g, T)]
    BY <2>1
  <2> QED BY <2>2
<1>4. ASSUME NEW k \in Nat, k \in C PROVE k + 1 \in C
  <2>1. PICK g : g = [T \in small(k) |-> adds(g, T)]
    BY <1>4
  <2> DEFINE h == [T \in small(k + 1) |-> IF T \in small(k) THEN g[T] ELSE adds(g, T)]
  <2>2. ASSUME NEW T \in small(k + 1), T # {}
        PROVE  /\ T \ {Some(T)} \in small(k) /\ T \ {Some(T)} \in small(k + 1)
    BY <1>1, <1>2, <2>2
  <2>3. ASSUME NEW T \in small(k + 1) PROVE h[T] = adds(h, T)
    <3>1. CASE T = {}
      <4>1. T \in small(k)
        BY <3>1, FS_EmptySet
      <4>2. g[T] = adds(g, T)
        BY <2>1, <4>1
      <4> QED BY <3>1, <4>1, <4>2
    <3>2. CASE T # {}
      <4>1. h[T \ {Some(T)}] = g[T \ {Some(T)}]
        BY <2>2, <3>2
      <4>2. T \in small(k) => g[T] = adds(g, T)
        BY <2>1
      <4>3. h[T] = adds(g, T)
        BY <4>2
      <4> QED BY <3>2, <4>1, <4>3
    <3> QED BY <3>1, <3>2
  <2>4. h = [T \in small(k + 1) |-> adds(h, T)]
    BY <2>3
  <2> HIDE DEF h, small, adds
  <2>5. \E r : r = [T \in small(k + 1) |-> adds(r, T)]
    BY <2>4
  <2> QED BY <2>5
<1> HIDE DEF C
<1>5. Cardinality(S) \in C
  BY <1>1, <1>3, <1>4, SetInduction
<1>6. small(Cardinality(S)) = SUBSET S
  BY FS_Subset, <1>1
<1> QED BY <1>5, <1>6 DEF C, Adds

LEMMA SumAdds ==
  ASSUME NEW f, NEW S, IsFiniteSet(S)
  PROVE  \E g : Adds(g, f, S) /\ SumFunctionOnSet(f, S) = g[S]
BY AddsExists, SumIsChosen

(* And is the same for every set that has the subset.                      *)
LEMMA AddsAgree ==
  ASSUME NEW f, NEW S, IsFiniteSet(S), NEW g, Adds(g, f, S),
         NEW T \in SUBSET S
  PROVE  g[T] = SumFunctionOnSet(f, T)
<1>1. IsFiniteSet(T)
  BY FS_Subset
<1>2. PICK h : Adds(h, f, T) /\ SumFunctionOnSet(f, T) = h[T]
  BY <1>1, SumAdds
<1> DEFINE C == {k \in Nat : \A U \in SUBSET T : Cardinality(U) = k => g[U] = h[U]}
<1>3. \A U \in SUBSET T : IsFiniteSet(U) /\ Cardinality(U) \in Nat
  BY <1>1, FS_Subset, FS_CardinalityType
<1>4. ASSUME NEW U \in SUBSET T
      PROVE  /\ g[U] = IF U = {} THEN 0 ELSE f[Some(U)] + g[U \ {Some(U)}]
             /\ h[U] = IF U = {} THEN 0 ELSE f[Some(U)] + h[U \ {Some(U)}]
  <2>1. U \in SUBSET S
    OBVIOUS
  <2> QED BY <1>2, <2>1 DEF Adds
<1>5. 0 \in C
  <2>1. ASSUME NEW U \in SUBSET T, Cardinality(U) = 0 PROVE g[U] = h[U]
    <3>1. U = {}
      BY <1>3, <2>1, FS_EmptySet
    <3> QED BY <1>4, <3>1
  <2> QED BY <2>1
<1>6. ASSUME NEW k \in Nat, k \in C PROVE k + 1 \in C
  <2>1. SUFFICES ASSUME NEW U \in SUBSET T, Cardinality(U) = k + 1 PROVE g[U] = h[U]
    BY <1>6
  <2>2. U # {}
    BY <2>1, CountedIsNotEmpty
  <2>3. U \ {Some(U)} \in SUBSET T /\ Cardinality(U \ {Some(U)}) = k
    <3>1. Cardinality(U \ {Some(U)}) = Cardinality(U) - 1
      BY <1>3, <2>2, SomeIsIn, FS_RemoveElement
    <3> QED BY <2>1, <3>1
  <2>4. g[U \ {Some(U)}] = h[U \ {Some(U)}]
    BY <1>6, <2>3
  <2> QED BY <1>4, <2>2, <2>4
<1> HIDE DEF C
<1>7. Cardinality(T) \in C
  BY <1>3, <1>5, <1>6, SetInduction
<1>8. g[T] = h[T]
  BY <1>7 DEF C
<1> QED BY <1>2, <1>8

LEMMA SumOfNone ==
  ASSUME NEW f
  PROVE  SumFunctionOnSet(f, {}) = 0
<1>1. PICK g : Adds(g, f, {}) /\ SumFunctionOnSet(f, {}) = g[{}]
  BY FS_EmptySet, SumAdds
<1>2. {} \in SUBSET {}
  OBVIOUS
<1> QED BY <1>1, <1>2 DEF Adds

LEMMA SumStep ==
  ASSUME NEW f, NEW S, IsFiniteSet(S), S # {}
  PROVE  SumFunctionOnSet(f, S) = f[Some(S)] + SumFunctionOnSet(f, S \ {Some(S)})
<1>1. PICK g : Adds(g, f, S) /\ SumFunctionOnSet(f, S) = g[S]
  BY SumAdds
<1>2. S \in SUBSET S /\ S \ {Some(S)} \in SUBSET S
  OBVIOUS
<1>3. \A T \in SUBSET S : g[T] = SumFunctionOnSet(f, T)
  BY <1>1, AddsAgree
<1>4. g[S] = f[Some(S)] + g[S \ {Some(S)}]
  BY <1>1, <1>2 DEF Adds
<1> QED BY <1>1, <1>2, <1>3, <1>4

LEMMA SumIsInt ==
  ASSUME NEW f, NEW S, IsFiniteSet(S), \A i \in S : f[i] \in Int
  PROVE  SumFunctionOnSet(f, S) \in Int
<1> DEFINE C == {k \in Nat : \A T \in SUBSET S :
                   Cardinality(T) = k => SumFunctionOnSet(f, T) \in Int}
<1>1. \A T \in SUBSET S : IsFiniteSet(T) /\ Cardinality(T) \in Nat
  BY FS_Subset, FS_CardinalityType
<1>2. 0 \in C
  <2>1. ASSUME NEW T \in SUBSET S, Cardinality(T) = 0 PROVE SumFunctionOnSet(f, T) \in Int
    <3>1. T = {}
      BY <1>1, <2>1, FS_EmptySet
    <3> QED BY <3>1, SumOfNone
  <2> QED BY <2>1
<1>3. ASSUME NEW k \in Nat, k \in C PROVE k + 1 \in C
  <2>1. SUFFICES ASSUME NEW T \in SUBSET S, Cardinality(T) = k + 1
                 PROVE  SumFunctionOnSet(f, T) \in Int
    BY <1>3
  <2>2. T # {} /\ IsFiniteSet(T)
    BY <1>1, <2>1, CountedIsNotEmpty
  <2>3. Some(T) \in T
    BY <2>2, SomeIsIn
  <2>4. SumFunctionOnSet(f, T) = f[Some(T)] + SumFunctionOnSet(f, T \ {Some(T)})
    BY <2>2, SumStep
  <2>5. Cardinality(T \ {Some(T)}) = k
    <3>1. Cardinality(T \ {Some(T)}) = Cardinality(T) - 1
      BY <1>1, <2>3, FS_RemoveElement
    <3> QED BY <2>1, <3>1
  <2>6. T \ {Some(T)} \in SUBSET S
    OBVIOUS
  <2>7. SumFunctionOnSet(f, T \ {Some(T)}) \in Int
    BY <1>3, <2>5, <2>6
  <2>8. f[Some(T)] \in Int
    BY <2>3
  <2> QED BY <2>4, <2>7, <2>8
<1> HIDE DEF C
<1>4. Cardinality(S) \in C
  BY <1>1, <1>2, <1>3, SetInduction
<1> QED BY <1>4 DEF C

(* Any element may be taken first.                                         *)
LEMMA SumSplits ==
  ASSUME NEW f, NEW S, IsFiniteSet(S), \A i \in S : f[i] \in Int
  PROVE  \A x \in S : SumFunctionOnSet(f, S) = f[x] + SumFunctionOnSet(f, S \ {x})
<1> DEFINE sum(T) == SumFunctionOnSet(f, T)
           good(T) == \A x \in T : sum(T) = f[x] + sum(T \ {x})
           C == {k \in Nat : \A T \in SUBSET S : Cardinality(T) = k => good(T)}
<1>1. \A T \in SUBSET S : IsFiniteSet(T) /\ Cardinality(T) \in Nat /\ sum(T) \in Int
  <2>1. ASSUME NEW T \in SUBSET S PROVE IsFiniteSet(T)
    BY FS_Subset
  <2> QED BY <2>1, FS_CardinalityType, SumIsInt
<1>2. 0 \in C
  <2>1. ASSUME NEW T \in SUBSET S, Cardinality(T) = 0 PROVE good(T)
    <3>1. T = {}
      BY <1>1, <2>1, FS_EmptySet
    <3> QED BY <3>1
  <2> QED BY <2>1
<1>3. ASSUME NEW k \in Nat, k \in C PROVE k + 1 \in C
  <2>1. SUFFICES ASSUME NEW T \in SUBSET S, Cardinality(T) = k + 1 PROVE good(T)
    BY <1>3
  <2>2. T # {} /\ IsFiniteSet(T)
    BY <1>1, <2>1, CountedIsNotEmpty
  <2> DEFINE y == Some(T)
  <2>3. y \in T
    BY <2>2, SomeIsIn
  <2>4. sum(T) = f[y] + sum(T \ {y})
    BY <2>2, SumStep
  <2> HIDE DEF y, sum
  <2>5. ASSUME NEW x \in T PROVE good(T \ {x})
    <3>1. Cardinality(T \ {x}) = Cardinality(T) - 1
      BY <1>1, <2>5, FS_RemoveElement
    <3>2. T \ {x} \in SUBSET S /\ Cardinality(T \ {x}) = k
      BY <2>1, <3>1
    <3> QED BY <1>3, <3>2
  <2>6. ASSUME NEW x \in T, x # y PROVE sum(T) = f[x] + sum(T \ {x})
    <3>1. x \in T \ {y} /\ y \in T \ {x} /\ (T \ {x}) \ {y} = (T \ {y}) \ {x}
      BY <2>3, <2>6
    <3>2. sum(T \ {y}) = f[x] + sum((T \ {y}) \ {x})
      BY <2>3, <2>5, <3>1
    <3>3. sum(T \ {x}) = f[y] + sum((T \ {y}) \ {x})
      BY <2>5, <3>1
    <3>4. sum((T \ {y}) \ {x}) \in Int
      BY <1>1
    <3>5. f[x] \in Int /\ f[y] \in Int
      BY <2>3, <2>6
    <3> QED BY <2>4, <3>2, <3>3, <3>4, <3>5
  <2> QED BY <2>4, <2>6
<1> HIDE DEF C
<1>4. Cardinality(S) \in C
  BY <1>1, <1>2, <1>3, SetInduction
<1> QED BY <1>4 DEF C

LEMMA SumGrows ==
  ASSUME NEW f, NEW S, IsFiniteSet(S), NEW x, x \notin S, \A i \in S \cup {x} : f[i] \in Int
  PROVE  SumFunctionOnSet(f, S \cup {x}) = f[x] + SumFunctionOnSet(f, S)
<1>1. IsFiniteSet(S \cup {x})
  BY FS_AddElement
<1>2. (S \cup {x}) \ {x} = S
  OBVIOUS
<1> QED BY <1>1, <1>2, SumSplits

(* Sums of two, and of no less.                                            *)
LEMMA SumOfTwo ==
  ASSUME NEW f, NEW g, NEW h, NEW S, IsFiniteSet(S),
         \A i \in S : f[i] \in Int /\ g[i] \in Int /\ h[i] = f[i] + g[i]
  PROVE  SumFunctionOnSet(h, S) = SumFunctionOnSet(f, S) + SumFunctionOnSet(g, S)
<1> DEFINE good(T) == SumFunctionOnSet(h, T) = SumFunctionOnSet(f, T) + SumFunctionOnSet(g, T)
           D == {T \in SUBSET S : good(T)}
<1>1. {} \in D
  BY SumOfNone
<1>2. ASSUME NEW T \in SUBSET S, NEW x \in S \ T, T \in D PROVE T \cup {x} \in D
  <2>1. IsFiniteSet(T) /\ x \notin T /\ T \cup {x} \in SUBSET S
    BY FS_Subset
  <2>2. \A i \in T \cup {x} : f[i] \in Int /\ g[i] \in Int /\ h[i] \in Int
    BY <2>1
  <2>3. /\ SumFunctionOnSet(f, T) \in Int /\ SumFunctionOnSet(g, T) \in Int
    BY <2>1, <2>2, SumIsInt
  <2>4. /\ SumFunctionOnSet(f, T \cup {x}) = f[x] + SumFunctionOnSet(f, T)
        /\ SumFunctionOnSet(g, T \cup {x}) = g[x] + SumFunctionOnSet(g, T)
        /\ SumFunctionOnSet(h, T \cup {x}) = h[x] + SumFunctionOnSet(h, T)
    BY <2>1, <2>2, SumGrows
  <2>5. SumFunctionOnSet(h, T) = SumFunctionOnSet(f, T) + SumFunctionOnSet(g, T)
    BY <1>2
  <2>6. f[x] \in Int /\ g[x] \in Int /\ h[x] = f[x] + g[x]
    OBVIOUS
  <2> QED BY <2>1, <2>3, <2>4, <2>5, <2>6
<1> HIDE DEF D
<1>3. S \in D
  BY <1>1, <1>2, FiniteInduction
<1> QED BY <1>3 DEF D

LEMMA SumOfLess ==
  ASSUME NEW f, NEW g, NEW S, IsFiniteSet(S),
         \A i \in S : f[i] \in Int /\ g[i] \in Int /\ f[i] <= g[i]
  PROVE  /\ SumFunctionOnSet(f, S) <= SumFunctionOnSet(g, S)
         /\ SumFunctionOnSet(f, S) = SumFunctionOnSet(g, S) => \A i \in S : f[i] = g[i]
<1> DEFINE good(T) == /\ SumFunctionOnSet(f, T) <= SumFunctionOnSet(g, T)
                      /\ SumFunctionOnSet(f, T) = SumFunctionOnSet(g, T) =>
                           \A i \in T : f[i] = g[i]
           D == {T \in SUBSET S : good(T)}
<1>1. {} \in D
  BY SumOfNone
<1>2. ASSUME NEW T \in SUBSET S, NEW x \in S \ T, T \in D PROVE T \cup {x} \in D
  <2>1. IsFiniteSet(T) /\ x \notin T /\ T \cup {x} \in SUBSET S
    BY FS_Subset
  <2>2. \A i \in T \cup {x} : f[i] \in Int /\ g[i] \in Int
    BY <2>1
  <2>3. /\ SumFunctionOnSet(f, T) \in Int /\ SumFunctionOnSet(g, T) \in Int
    BY <2>1, <2>2, SumIsInt
  <2>4. /\ SumFunctionOnSet(f, T \cup {x}) = f[x] + SumFunctionOnSet(f, T)
        /\ SumFunctionOnSet(g, T \cup {x}) = g[x] + SumFunctionOnSet(g, T)
    BY <2>1, <2>2, SumGrows
  <2>5. good(T)
    BY <1>2
  <2>6. f[x] \in Int /\ g[x] \in Int /\ f[x] <= g[x]
    OBVIOUS
  <2>7. SumFunctionOnSet(f, T \cup {x}) <= SumFunctionOnSet(g, T \cup {x})
    BY <2>3, <2>4, <2>5, <2>6
  <2>8. SumFunctionOnSet(f, T \cup {x}) = SumFunctionOnSet(g, T \cup {x}) =>
          f[x] = g[x] /\ SumFunctionOnSet(f, T) = SumFunctionOnSet(g, T)
    BY <2>3, <2>4, <2>5, <2>6
  <2>9. good(T \cup {x})
    BY <2>5, <2>7, <2>8
  <2> QED BY <2>1, <2>9
<1> HIDE DEF D
<1>3. S \in D
  BY <1>1, <1>2, FiniteInduction
<1> QED BY <1>3 DEF D

LEMMA SumOfSame ==
  ASSUME NEW f, NEW g, NEW S, IsFiniteSet(S), \A i \in S : f[i] \in Int /\ f[i] = g[i]
  PROVE  SumFunctionOnSet(f, S) = SumFunctionOnSet(g, S)
<1>1. \A i \in S : f[i] \in Int /\ g[i] \in Int /\ f[i] <= g[i] /\ g[i] <= f[i]
  OBVIOUS
<1>2. SumFunctionOnSet(f, S) \in Int /\ SumFunctionOnSet(g, S) \in Int
  BY <1>1, SumIsInt
<1>3. SumFunctionOnSet(f, S) <= SumFunctionOnSet(g, S)
  BY <1>1, SumOfLess
<1>4. SumFunctionOnSet(g, S) <= SumFunctionOnSet(f, S)
  BY <1>1, SumOfLess
<1> QED BY <1>2, <1>3, <1>4

(* A part and the rest of it.                                              *)
LEMMA SumOfParts ==
  ASSUME NEW f, NEW S, IsFiniteSet(S), \A i \in S : f[i] \in Int, NEW U \in SUBSET S
  PROVE  SumFunctionOnSet(f, S) = SumFunctionOnSet(f, U) + SumFunctionOnSet(f, S \ U)
<1> DEFINE good(T) == SumFunctionOnSet(f, T) =
                        SumFunctionOnSet(f, T \cap U) + SumFunctionOnSet(f, T \ U)
           D == {T \in SUBSET S : good(T)}
<1>1. {} \in D
  <2>1. {} \cap U = {} /\ {} \ U = {}
    OBVIOUS
  <2> QED BY <2>1, SumOfNone
<1>2. ASSUME NEW T \in SUBSET S, NEW x \in S \ T, T \in D PROVE T \cup {x} \in D
  <2>1. /\ IsFiniteSet(T) /\ IsFiniteSet(T \cap U) /\ IsFiniteSet(T \ U)
        /\ x \notin T /\ T \cup {x} \in SUBSET S
    <3>1. T \cap U \in SUBSET S /\ T \ U \in SUBSET S
      OBVIOUS
    <3> QED BY <3>1, FS_Subset
  <2>2. \A i \in T \cup {x} : f[i] \in Int
    BY <2>1
  <2>3. /\ SumFunctionOnSet(f, T \cap U) \in Int /\ SumFunctionOnSet(f, T \ U) \in Int
        /\ SumFunctionOnSet(f, T) \in Int /\ f[x] \in Int
    BY <2>1, <2>2, SumIsInt
  <2>4. SumFunctionOnSet(f, T \cup {x}) = f[x] + SumFunctionOnSet(f, T)
    BY <2>1, <2>2, SumGrows
  <2>5. SumFunctionOnSet(f, T) = SumFunctionOnSet(f, T \cap U) + SumFunctionOnSet(f, T \ U)
    BY <1>2
  <2>6. CASE x \in U
    <3>1. (T \cup {x}) \cap U = (T \cap U) \cup {x} /\ (T \cup {x}) \ U = T \ U
      BY <2>6
    <3>2. SumFunctionOnSet(f, (T \cap U) \cup {x}) = f[x] + SumFunctionOnSet(f, T \cap U)
      BY <2>1, <2>2, SumGrows
    <3>3. /\ SumFunctionOnSet(f, (T \cup {x}) \cap U) = f[x] + SumFunctionOnSet(f, T \cap U)
          /\ SumFunctionOnSet(f, (T \cup {x}) \ U) = SumFunctionOnSet(f, T \ U)
      BY <3>1, <3>2, Zenon
    <3>4. good(T \cup {x})
      BY <2>3, <2>4, <2>5, <3>3
    <3> QED BY <2>1, <3>4
  <2>7. CASE x \notin U
    <3>1. (T \cup {x}) \cap U = T \cap U /\ (T \cup {x}) \ U = (T \ U) \cup {x}
      BY <2>7
    <3>2. SumFunctionOnSet(f, (T \ U) \cup {x}) = f[x] + SumFunctionOnSet(f, T \ U)
      BY <2>1, <2>2, SumGrows
    <3>3. /\ SumFunctionOnSet(f, (T \cup {x}) \cap U) = SumFunctionOnSet(f, T \cap U)
          /\ SumFunctionOnSet(f, (T \cup {x}) \ U) = f[x] + SumFunctionOnSet(f, T \ U)
      BY <3>1, <3>2, Zenon
    <3>4. good(T \cup {x})
      BY <2>3, <2>4, <2>5, <3>3
    <3> QED BY <2>1, <3>4
  <2> QED BY <2>6, <2>7
<1> HIDE DEF D
<1>3. S \in D
  BY <1>1, <1>2, FiniteInduction
<1>4. S \cap U = U
  OBVIOUS
<1> QED BY <1>3, <1>4 DEF D

LEMMA SumOfEqual ==
  ASSUME NEW f, NEW S, IsFiniteSet(S), NEW c \in Int, \A i \in S : f[i] = c
  PROVE  SumFunctionOnSet(f, S) = c * Cardinality(S)
<1> DEFINE good(T) == SumFunctionOnSet(f, T) = c * Cardinality(T)
           D == {T \in SUBSET S : good(T)}
<1>1. {} \in D
  BY SumOfNone, FS_EmptySet
<1>2. ASSUME NEW T \in SUBSET S, NEW x \in S \ T, T \in D PROVE T \cup {x} \in D
  <2>1. IsFiniteSet(T) /\ x \notin T /\ T \cup {x} \in SUBSET S
    BY FS_Subset
  <2>2. SumFunctionOnSet(f, T \cup {x}) = f[x] + SumFunctionOnSet(f, T)
    BY <2>1, SumGrows
  <2>3. Cardinality(T) \in Nat /\ Cardinality(T \cup {x}) = Cardinality(T) + 1
    BY <2>1, FS_CardinalityType, FS_AddElement
  <2>4. c * (Cardinality(T) + 1) = c + c * Cardinality(T)
    BY <2>3
  <2>5. good(T)
    BY <1>2
  <2>6. f[x] = c
    OBVIOUS
  <2>7. good(T \cup {x})
    BY <2>2, <2>3, <2>4, <2>5, <2>6
  <2> QED BY <2>1, <2>7
<1> HIDE DEF D
<1>3. S \in D
  BY <1>1, <1>2, FiniteInduction
<1> QED BY <1>3 DEF D

-----------------------------------------------------------------------------
(* Folds.  F[k] is what a fold does with the k-th element, from X to X.    *)

FoldsBy(g, base, F, n) ==
  \A T \in SUBSET (1 .. n) :
    g[T] = IF T = {} THEN base ELSE F[Max(T)][g[T \ {Max(T)}]]

LEMMA FoldExists ==
  ASSUME NEW X, NEW base \in X, NEW n \in Nat, NEW F \in [1 .. n -> [X -> X]]
  PROVE  \E g \in [SUBSET (1 .. n) -> X] : FoldsBy(g, base, F, n)
<1> DEFINE C == {k \in Nat : k <= n =>
                   \E g \in [SUBSET (1 .. k) -> X] : FoldsBy(g, base, F, k)}
<1>1. 0 \in C
  <2>1. ASSUME NEW T \in SUBSET (1 .. 0) PROVE T = {}
    BY SMT
  <2> DEFINE g == [T \in SUBSET (1 .. 0) |-> base]
  <2>2. g \in [SUBSET (1 .. 0) -> X] /\ FoldsBy(g, base, F, 0)
    BY <2>1 DEF FoldsBy
  <2> QED BY <2>2
<1>2. ASSUME NEW k \in Nat, k \in C PROVE k + 1 \in C
  <2>1. SUFFICES ASSUME k + 1 <= n
                 PROVE  \E g \in [SUBSET (1 .. k + 1) -> X] : FoldsBy(g, base, F, k + 1)
    <3>1. k + 1 \in Nat
      OBVIOUS
    <3> QED BY <3>1, Zenon
  <2>2. k <= n /\ k + 1 \in 1 .. n
    BY <2>1
  <2>3. PICK f \in [SUBSET (1 .. k) -> X] : FoldsBy(f, base, F, k)
    BY <1>2, <2>2
  <2> DEFINE g == [T \in SUBSET (1 .. k + 1) |->
                     IF k + 1 \in T THEN F[k + 1][f[T \ {k + 1}]] ELSE f[T]]
  <2>4. ASSUME NEW T \in SUBSET (1 .. k + 1)
        PROVE  T \ {k + 1} \in SUBSET (1 .. k) /\ T \ {k + 1} \in SUBSET (1 .. k + 1)
    <3>1. ASSUME NEW x \in T \ {k + 1} PROVE x \in 1 .. k
      <4>1. x \in 1 .. k + 1 /\ x # k + 1
        BY <3>1
      <4> QED BY <4>1
    <3> QED BY <3>1
  <2>5. F[k + 1] \in [X -> X]
    BY <2>2
  <2>6. g \in [SUBSET (1 .. k + 1) -> X]
    <3>1. ASSUME NEW T \in SUBSET (1 .. k + 1), k + 1 \notin T PROVE T \in SUBSET (1 .. k)
      BY <2>4, <3>1
    <3> QED BY <2>3, <2>4, <2>5, <3>1
  <2>7. ASSUME NEW T \in SUBSET (1 .. k + 1)
        PROVE  g[T] = IF T = {} THEN base ELSE F[Max(T)][g[T \ {Max(T)}]]
    <3>1. CASE k + 1 \in T
      <4>1. Max(T) = k + 1
        BY <3>1, MaxOfPrefix
      <4>2. k + 1 \notin T \ {k + 1}
        OBVIOUS
      <4>3. g[T \ {k + 1}] = f[T \ {k + 1}]
        BY <2>4, <4>2
      <4> QED BY <3>1, <4>1, <4>3
    <3>2. CASE k + 1 \notin T /\ T # {}
      <4>1. T \in SUBSET (1 .. k)
        BY <3>2, <2>4
      <4>2. Max(T) \in T
        BY <3>2, <4>1, MaxIsIn
      <4>3. T \ {Max(T)} \in SUBSET (1 .. k + 1) /\ k + 1 \notin T \ {Max(T)}
        BY <3>2
      <4>4. g[T \ {Max(T)}] = f[T \ {Max(T)}]
        BY <4>3
      <4>5. f[T] = F[Max(T)][f[T \ {Max(T)}]]
        BY <2>3, <3>2, <4>1 DEF FoldsBy
      <4> QED BY <3>2, <4>4, <4>5
    <3>3. CASE T = {}
      <4>1. T \in SUBSET (1 .. k)
        BY <3>3
      <4>2. f[T] = base
        BY <2>3, <3>3, <4>1 DEF FoldsBy
      <4> QED BY <3>3, <4>2
    <3> QED BY <3>1, <3>2, <3>3
  <2>8. FoldsBy(g, base, F, k + 1)
    BY <2>7 DEF FoldsBy
  <2> HIDE DEF g
  <2> QED BY <2>6, <2>8
<1> HIDE DEF C
<1>3. n \in C
  BY <1>1, <1>2, SetInduction
<1>4. n <= n
  OBVIOUS
<1> QED BY <1>3, <1>4 DEF C

(* What a function that folds so is after each element.                    *)
LEMMA FoldSteps ==
  ASSUME NEW n \in Nat, NEW k \in 1 .. n
  PROVE  /\ 1 .. k \in SUBSET (1 .. n) /\ 1 .. k # {} /\ Max(1 .. k) = k
         /\ (1 .. k) \ {k} = 1 .. k - 1
         /\ 1 .. 0 = {} /\ 1 .. 0 \in SUBSET (1 .. n)
<1>1. k - 1 \in Nat /\ k - 1 + 1 = k /\ k \in 1 .. k /\ 1 .. k \in SUBSET (1 .. n)
  BY SMT
<1>2. Max(1 .. k) = k
  BY <1>1, MaxOfPrefix
<1>3. (1 .. k) \ {k} = 1 .. k - 1
  BY SMT
<1>4. 1 .. 0 = {} /\ 1 .. 0 \in SUBSET (1 .. n)
  BY SMT
<1> QED BY <1>1, <1>2, <1>3, <1>4

-----------------------------------------------------------------------------
(* _fair_allocations.                                                      *)

LEMMA LesserIsLesser ==
  ASSUME NEW a \in Int, NEW b \in Int
  PROVE  Lesser(a, b) = IF a <= b THEN a ELSE b
<1>1. \A x \in {a, b} : (\A y \in {a, b} : x <= y) => x = IF a <= b THEN a ELSE b
  OBVIOUS
<1>2. \E x \in {a, b} : \A y \in {a, b} : x <= y
  OBVIOUS
<1> QED BY <1>1, <1>2 DEF Lesser, Min

LEMMA GreaterIsGreater ==
  ASSUME NEW a \in Int, NEW b \in Int
  PROVE  Greater(a, b) = IF a >= b THEN a ELSE b
<1>1. \A x \in {a, b} : (\A y \in {a, b} : x >= y) => x = IF a >= b THEN a ELSE b
  OBVIOUS
<1>2. \E x \in {a, b} : \A y \in {a, b} : x >= y
  OBVIOUS
<1> QED BY <1>1, <1>2 DEF Greater, Max

(* The first k of a set of indices are k.                                  *)
LEMMA FirstAreMany ==
  ASSUME NEW n \in Nat, NEW A \in SUBSET (1 .. n), NEW k \in 0 .. Cardinality(A)
  PROVE  Cardinality(FirstOf(A, k)) = k
<1> DEFINE C == {m \in Nat : \A B \in SUBSET (1 .. m) : \A j \in 0 .. Cardinality(B) :
                   Cardinality(FirstOf(B, j)) = j}
<1>1. 0 \in C
  <2>1. ASSUME NEW B \in SUBSET (1 .. 0), NEW j \in 0 .. Cardinality(B)
        PROVE  Cardinality(FirstOf(B, j)) = j
    <3>1. B = {}
      BY SMT
    <3>2. FirstOf(B, j) = {}
      BY <3>1 DEF FirstOf
    <3> QED BY <3>1, <3>2, FS_EmptySet
  <2> QED BY <2>1
<1>2. ASSUME NEW m \in Nat, m \in C PROVE m + 1 \in C
  <2>1. SUFFICES ASSUME NEW B \in SUBSET (1 .. m + 1), NEW j \in 0 .. Cardinality(B)
                 PROVE  Cardinality(FirstOf(B, j)) = j
    BY <1>2
  <2> DEFINE R == B \ {m + 1}
  <2>2. R \in SUBSET (1 .. m) /\ \A i \in R : i \in Int /\ i < m + 1
    <3>1. ASSUME NEW x \in R PROVE x \in 1 .. m
      <4>1. x \in 1 .. m + 1 /\ x # m + 1
        BY <3>1
      <4> QED BY <4>1
    <3> QED BY <3>1
  <2>3. IsFiniteSet(B) /\ IsFiniteSet(R) /\ Cardinality(B) \in Nat /\ Cardinality(R) \in Nat
    <3>1. IsFiniteSet(1 .. m + 1)
      BY FS_Interval
    <3>2. IsFiniteSet(B)
      BY <3>1, FS_Subset
    <3> QED BY <3>2, FS_Subset, FS_CardinalityType
  <2>4. CASE m + 1 \notin B
    <3>1. B = R
      BY <2>4
    <3> QED BY <1>2, <2>2, <3>1
  <2>5. CASE m + 1 \in B
    <3>1. Cardinality(R) = Cardinality(B) - 1
      BY <2>3, <2>5, FS_RemoveElement
    <3>2. \A i \in R : {x \in B : x < i} = {x \in R : x < i}
      BY <2>2
    <3>3. {x \in B : x < m + 1} = R
      <4>1. \A x \in B : x \in R \/ x = m + 1
        OBVIOUS
      <4>2. ~ (m + 1 < m + 1)
        OBVIOUS
      <4> HIDE DEF R
      <4>3. R \subseteq B /\ m + 1 \notin R
        BY DEF R
      <4> QED BY <2>2, <4>1, <4>2, <4>3
    <3>4. CASE j <= Cardinality(R)
      <4>1. FirstOf(B, j) = FirstOf(R, j)
        <5>1. m + 1 \notin FirstOf(B, j)
          BY <2>3, <3>3, <3>4 DEF FirstOf
        <5>2. \A i \in R : i \in FirstOf(B, j) <=> i \in FirstOf(R, j)
          BY <3>2 DEF FirstOf
        <5>3. FirstOf(B, j) \subseteq B /\ FirstOf(R, j) \subseteq R
          BY DEF FirstOf
        <5> QED BY <5>1, <5>2, <5>3
      <4>2. j \in 0 .. Cardinality(R)
        BY <2>3, <3>4
      <4> QED BY <1>2, <2>2, <4>1, <4>2
    <3>5. CASE j = Cardinality(B)
      <4>1. ASSUME NEW i \in B PROVE Cardinality({x \in B : x < i}) < j
        <5>1. {x \in B : x < i} \in SUBSET (B \ {i})
          BY <2>1
        <5>2. IsFiniteSet(B \ {i}) /\ Cardinality(B \ {i}) = Cardinality(B) - 1
          BY <2>3, FS_RemoveElement
        <5>3. /\ IsFiniteSet({x \in B : x < i})
              /\ Cardinality({x \in B : x < i}) <= Cardinality(B \ {i})
          BY <5>1, <5>2, FS_Subset
        <5>4. Cardinality({x \in B : x < i}) \in Nat
          BY <5>3, FS_CardinalityType
        <5> QED BY <2>3, <3>5, <5>2, <5>3, <5>4
      <4>2. FirstOf(B, j) = B
        BY <4>1 DEF FirstOf
      <4> QED BY <3>5, <4>2
    <3> QED BY <2>3, <3>1, <3>4, <3>5
  <2> QED BY <2>4, <2>5
<1> HIDE DEF C
<1>3. n \in C
  BY <1>1, <1>2, SetInduction
<1> QED BY <1>3 DEF C

(* And with one of them, every earlier one of the set.                     *)
LEMMA FirstAreEarlier ==
  ASSUME NEW n \in Nat, NEW A \in SUBSET (1 .. n), NEW k \in Nat,
         NEW j \in FirstOf(A, k), NEW i \in A \ FirstOf(A, k)
  PROVE  j < i
<1>1. SUFFICES ASSUME i <= j PROVE FALSE
  <2>1. i \in Int /\ j \in Int
    BY DEF FirstOf
  <2> QED BY <2>1
<1>2. {x \in A : x < i} \in SUBSET {x \in A : x < j}
  <2>1. i \in Int /\ j \in Int
    BY DEF FirstOf
  <2>2. ASSUME NEW x \in A, x < i PROVE x < j
    <3>1. x \in Int
      OBVIOUS
    <3> QED BY <1>1, <2>1, <2>2, <3>1
  <2> QED BY <2>2
<1>3. IsFiniteSet({x \in A : x < j})
  <2>1. {x \in A : x < j} \in SUBSET (1 .. n)
    OBVIOUS
  <2>2. IsFiniteSet(1 .. n)
    BY FS_Interval
  <2>3. \A T \in SUBSET (1 .. n) : IsFiniteSet(T)
    BY <2>2, FS_Subset
  <2> QED BY <2>1, <2>3, Zenon
<1>4. Cardinality({x \in A : x < i}) <= Cardinality({x \in A : x < j})
  BY <1>2, <1>3, FS_Subset
<1>5. Cardinality({x \in A : x < i}) \in Nat /\ Cardinality({x \in A : x < j}) \in Nat
  BY <1>2, <1>3, FS_Subset, FS_CardinalityType
<1>6. Cardinality({x \in A : x < j}) < k /\ ~ (Cardinality({x \in A : x < i}) < k)
  BY DEF FirstOf
<1> QED BY <1>4, <1>5, <1>6

LEMMA Division ==
  ASSUME NEW a \in Nat, NEW n \in Nat, n > 0
  PROVE  /\ a \div n \in Nat
         /\ (a \div n) * n <= a /\ a - (a \div n) * n < n
         /\ \A m \in Nat : m * n <= a => m <= a \div n
<1> DEFINE q == a \div n
<1>1. q \in Nat /\ q * n <= a /\ a < q * n + n
  OBVIOUS
<1> HIDE DEF q
<1>2. ASSUME NEW m \in Nat, m * n <= a, m > q PROVE FALSE
  <2>1. PICK d \in Nat : m = q + 1 + d
    <3>1. m - q - 1 \in Nat /\ m = q + 1 + (m - q - 1)
      BY <1>1, <1>2
    <3> QED BY <3>1
  <2>2. m * n = q * n + n + d * n
    BY <2>1, <1>1
  <2>3. d * n >= 0 /\ d * n \in Int /\ q * n \in Int
    BY <1>1
  <2> QED BY <1>1, <1>2, <2>2, <2>3
<1>3. q * n \in Nat
  BY <1>1
<1>4. a - q * n < n
  BY <1>1, <1>3
<1>5. \A m \in Nat : m * n <= a => m <= q
  BY <1>1, <1>2
<1> QED BY <1>1, <1>4, <1>5 DEF q

LEMMA LenOf ==
  ASSUME NEW n \in Nat, NEW c, DOMAIN c = 1 .. n
  PROVE  Len(c) = n
OBVIOUS

(* While the budget is divided, whoever is active has nothing yet, and the *)
(* others are full, at no more than what is left for each of the active.   *)
IsFilling(N, c, s) ==
  /\ s.alloc \in [N -> Int] /\ s.remaining \in Nat /\ s.active \in SUBSET N
  /\ \A i \in s.active : s.alloc[i] = 0 /\ c[i] > 0
  /\ \A i \in N \ s.active : s.alloc[i] = c[i]
  /\ \E m \in Nat : /\ m * Cardinality(s.active) <= s.remaining
                    /\ \A i \in N \ s.active : c[i] <= m

Filling(N, c, budget, s) ==
  /\ IsFilling(N, c, s)
  /\ SumFunctionOnSet(s.alloc, N) + s.remaining = budget

Divided(N, c, budget, s) ==
  /\ s.alloc \in [N -> Int] /\ s.remaining = 0 /\ s.active = {}
  /\ IsFair(c, budget, s.alloc)

LEMMA ActiveAreCounted ==
  ASSUME NEW N, IsFiniteSet(N), NEW A \in SUBSET N
  PROVE  /\ IsFiniteSet(A) /\ Cardinality(A) \in Nat
         /\ (A # {} => Cardinality(A) > 0)
<1>1. IsFiniteSet(A)
  BY FS_Subset
<1>2. Cardinality(A) \in Nat
  BY <1>1, FS_CardinalityType
<1>3. A # {} => Cardinality(A) # 0
  BY <1>1, FS_EmptySet
<1> QED BY <1>1, <1>2, <1>3

(* A division that stops here is fair.                                     *)
LEMMA StoppedIsFair ==
  ASSUME NEW N, IsFiniteSet(N), NEW c \in [N -> Nat],
         NEW budget \in Nat, budget <= SumFunctionOnSet(c, N),
         NEW s, Filling(N, c, budget, s), s.active = {} \/ s.remaining = 0
  PROVE  IsFair(c, budget, s.alloc)
<1>1. /\ s.alloc \in [N -> Int] /\ s.remaining \in Nat /\ s.active \in SUBSET N
      /\ \A i \in s.active : s.alloc[i] = 0 /\ c[i] > 0
      /\ \A i \in N \ s.active : s.alloc[i] = c[i]
      /\ SumFunctionOnSet(s.alloc, N) + s.remaining = budget
  BY DEF Filling, IsFilling
<1>2. DOMAIN s.alloc = N /\ DOMAIN c = N
  BY <1>1
<1>3. IsFiniteSet(N)
  OBVIOUS
<1>4. SumFunctionOnSet(s.alloc, N) \in Int /\ SumFunctionOnSet(c, N) \in Int
  BY <1>1, <1>3, SumIsInt
<1>5. Lesser(budget, SumFunctionOnSet(c, N)) = budget
  BY <1>4, LesserIsLesser
<1>6. CASE s.active = {}
  <2>1. \A i \in N : s.alloc[i] = c[i]
    BY <1>1, <1>6
  <2>2. SumFunctionOnSet(s.alloc, N) = SumFunctionOnSet(c, N)
    BY <1>1, <1>3, <2>1, SumOfSame
  <2>3. SumFunctionOnSet(s.alloc, N) = budget
    BY <1>1, <1>4, <2>2
  <2> QED BY <1>2, <1>5, <2>1, <2>3 DEF IsFair, SumFunction
<1>7. CASE s.remaining = 0 /\ s.active # {}
  <2>1. PICK m \in Nat : /\ m * Cardinality(s.active) <= 0
                         /\ \A i \in N \ s.active : c[i] <= m
    BY <1>7 DEF Filling, IsFilling
  <2>2. Cardinality(s.active) \in Nat /\ Cardinality(s.active) > 0
    BY <1>1, <1>7, ActiveAreCounted
  <2>3. m = 0
    BY <2>1, <2>2
  <2>4. \A i \in N : c[i] \in Nat /\ (i \in s.active \/ c[i] <= 0)
    BY <2>1, <2>3
  <2>5. \A i \in N : s.alloc[i] = 0
    BY <1>1, <2>4
  <2>6. SumFunctionOnSet(s.alloc, N) = budget
    BY <1>1, <1>4, <1>7
  <2>7. \A i \in N : /\ 0 <= s.alloc[i] /\ s.alloc[i] <= c[i]
                          /\ \A j \in N : s.alloc[j] <= s.alloc[i] + (IF j < i THEN 1 ELSE 0)
    BY <2>4, <2>5
  <2> QED BY <1>2, <1>5, <2>6, <2>7 DEF IsFair, SumFunction
<1> QED BY <1>6, <1>7

(* What is handed out is added to the sum.                                 *)
LEMMA HandedOut ==
  ASSUME NEW N, IsFiniteSet(N), NEW a \in [N -> Int], NEW b \in [N -> Int],
         NEW U \in SUBSET N, \A i \in N \ U : b[i] = a[i],
         NEW e, \A i \in U : e[i] = b[i] - a[i]
  PROVE  SumFunctionOnSet(b, N) = SumFunctionOnSet(a, N) + SumFunctionOnSet(e, U)
<1> DEFINE d == [i \in N |-> b[i] - a[i]]
<1>1. IsFiniteSet(N) /\ IsFiniteSet(U) /\ IsFiniteSet(N \ U)
  <2>1. N \ U \in SUBSET N
    OBVIOUS
  <2> QED BY <2>1, ActiveAreCounted
<1>2. \A i \in N : a[i] \in Int /\ d[i] \in Int /\ b[i] = a[i] + d[i]
  OBVIOUS
<1>3. \A i \in U : e[i] \in Int /\ e[i] = d[i]
  OBVIOUS
<1>4. \A i \in N \ U : d[i] = 0
  OBVIOUS
<1> HIDE DEF d
<1>5. SumFunctionOnSet(b, N) = SumFunctionOnSet(a, N) + SumFunctionOnSet(d, N)
  BY <1>1, <1>2, SumOfTwo
<1>6. SumFunctionOnSet(d, N)
        = SumFunctionOnSet(d, U) + SumFunctionOnSet(d, N \ U)
  <2>1. \A i \in N : d[i] \in Int
    BY <1>2
  <2> QED BY <1>1, <2>1, SumOfParts
<1>7. SumFunctionOnSet(d, N \ U) = 0
  <2>1. Cardinality(N \ U) \in Nat
    BY <1>1, FS_CardinalityType
  <2>2. SumFunctionOnSet(d, N \ U) = 0 * Cardinality(N \ U)
    BY <1>1, <1>4, SumOfEqual
  <2> QED BY <2>1, <2>2
<1>8. SumFunctionOnSet(e, U) = SumFunctionOnSet(d, U)
  BY <1>1, <1>3, SumOfSame
<1>9. SumFunctionOnSet(d, U) \in Int
  <2>1. \A i \in U : d[i] \in Int
    BY <1>2
  <2> QED BY <1>1, <2>1, SumIsInt
<1> QED BY <1>5, <1>6, <1>7, <1>8, <1>9

(* A turn that saturates goes on filling, with fewer active.               *)
LEMMA SaturateFills ==
  ASSUME NEW N, IsFiniteSet(N), NEW c \in [N -> Nat], NEW budget \in Nat,
         NEW s, Filling(N, c, budget, s), s.active # {}, s.remaining # 0,
         Saturated(c, s) # {}
  PROVE  LET t == Saturate(c, s, Saturated(c, s))
         IN  /\ Filling(N, c, budget, t)
             /\ Cardinality(t.active) < Cardinality(s.active)
<1> DEFINE full == Saturated(c, s)
           count == Cardinality(s.active)
           share == s.remaining \div count
           t == Saturate(c, s, full)
           given == [i \in full |-> c[i] - s.alloc[i]]
<1>1. /\ s.alloc \in [N -> Int] /\ s.remaining \in Nat /\ s.active \in SUBSET N
      /\ \A i \in s.active : s.alloc[i] = 0 /\ c[i] > 0
      /\ \A i \in N \ s.active : s.alloc[i] = c[i]
      /\ SumFunctionOnSet(s.alloc, N) + s.remaining = budget
  BY DEF Filling, IsFilling
<1>2. IsFiniteSet(s.active) /\ count \in Nat /\ count > 0
  BY <1>1, ActiveAreCounted
<1>3. share \in Nat /\ share * count <= s.remaining
      /\ \A m \in Nat : m * count <= s.remaining => m <= share
  BY <1>1, <1>2, Division
<1>4. full \in SUBSET s.active /\ \A i \in full : c[i] - s.alloc[i] <= share
  BY DEF Saturated
<1>5. /\ t.alloc = [i \in N |-> IF i \in full THEN c[i] ELSE s.alloc[i]]
      /\ t.remaining = s.remaining - SumFunctionOnSet(given, full)
      /\ t.active = s.active \ full
  BY <1>1 DEF Saturate, SumFunction
<1> HIDE DEF full, count, share, t
<1>6. IsFiniteSet(full) /\ Cardinality(full) \in Nat /\ IsFiniteSet(t.active)
      /\ Cardinality(t.active) \in Nat
      /\ Cardinality(t.active) = count - Cardinality(full) /\ Cardinality(full) > 0
  <2>1. IsFiniteSet(full) /\ Cardinality(full) \in Nat /\ Cardinality(full) > 0
    BY <1>1, <1>4, ActiveAreCounted DEF full
  <2>2. IsFiniteSet(t.active) /\ Cardinality(t.active) \in Nat
    BY <1>1, <1>5, ActiveAreCounted
  <2>3. Cardinality(s.active \ full) = Cardinality(s.active) - Cardinality(s.active \cap full)
    BY <1>2, FS_Difference
  <2>4. s.active \cap full = full
    BY <1>4
  <2> QED BY <1>5, <2>1, <2>2, <2>3, <2>4 DEF count
<1>7. \A i \in full : given[i] \in Int /\ given[i] = c[i] /\ given[i] <= share
  BY <1>1, <1>4
<1> HIDE DEF given
<1>8. SumFunctionOnSet(given, full) \in Int
  BY <1>6, <1>7, SumIsInt
<1>9. SumFunctionOnSet(given, full) <= share * Cardinality(full)
  <2> DEFINE most == [i \in full |-> share]
  <2>1. \A i \in full : most[i] = share /\ most[i] \in Int
    BY <1>3
  <2> HIDE DEF most
  <2>2. SumFunctionOnSet(given, full) <= SumFunctionOnSet(most, full)
    BY <1>6, <1>7, <2>1, SumOfLess
  <2>3. SumFunctionOnSet(most, full) = share * Cardinality(full)
    BY <1>3, <1>6, <2>1, SumOfEqual
  <2> QED BY <2>2, <2>3
<1>10. t.remaining \in Nat /\ share * Cardinality(t.active) <= t.remaining
  <2>1. share * Cardinality(t.active) = share * count - share * Cardinality(full)
    BY <1>2, <1>3, <1>6
  <2>2. share * Cardinality(t.active) \in Nat /\ share * count \in Int
        /\ share * Cardinality(full) \in Int
    BY <1>2, <1>3, <1>6
  <2>3. share * Cardinality(t.active) <= s.remaining - SumFunctionOnSet(given, full)
    <3>1. \A a, b, d, e, g \in Int : a = b - d /\ b <= e /\ g <= d => a <= e - g
      OBVIOUS
    <3>2. s.remaining \in Int
      BY <1>1
    <3> QED BY <1>3, <1>8, <1>9, <2>1, <2>2, <3>1, <3>2
  <2> QED BY <1>1, <1>5, <1>8, <2>2, <2>3
<1>11. \A i \in N \ t.active : c[i] <= share
  <2>1. PICK m \in Nat : /\ m * count <= s.remaining
                         /\ \A i \in N \ s.active : c[i] <= m
    BY DEF Filling, IsFilling, count
  <2>2. m <= share
    BY <1>3, <2>1
  <2>3. \A i \in full : c[i] <= share
    BY <1>7
  <2>4. ASSUME NEW i \in N \ t.active PROVE c[i] <= share
    <3>1. c[i] \in Nat /\ (i \in full \/ i \in N \ s.active)
      BY <1>5
    <3> QED BY <1>3, <2>1, <2>2, <2>3, <3>1
  <2> QED BY <2>4
<1>12. /\ t.alloc \in [N -> Int] /\ t.active \in SUBSET N
       /\ \A i \in t.active : t.alloc[i] = 0 /\ c[i] > 0
       /\ \A i \in N \ t.active : t.alloc[i] = c[i]
  BY <1>1, <1>5
<1>13. SumFunctionOnSet(t.alloc, N)
         = SumFunctionOnSet(s.alloc, N) + SumFunctionOnSet(given, full)
  <2>1. \A i \in N \ full : t.alloc[i] = s.alloc[i]
    BY <1>5
  <2>2. full \in SUBSET N
    BY <1>1, <1>4
  <2>3. \A i \in full : given[i] = t.alloc[i] - s.alloc[i]
    BY <1>1, <1>4, <1>5, <2>2 DEF given
  <2> QED BY <1>1, <1>12, <2>1, <2>2, <2>3, HandedOut
<1>14. SumFunctionOnSet(s.alloc, N) \in Int
  BY <1>1, ActiveAreCounted, SumIsInt
<1>15. SumFunctionOnSet(t.alloc, N) + t.remaining = budget
  BY <1>1, <1>5, <1>8, <1>13, <1>14
<1>16. Filling(N, c, budget, t)
  BY <1>3, <1>10, <1>11, <1>12, <1>15 DEF Filling, IsFilling
<1>17. Cardinality(t.active) < Cardinality(s.active)
  BY <1>2, <1>6 DEF count
<1> QED BY <1>16, <1>17 DEF t, full

Indices(N) == \E n \in Nat : N = 1 .. n

LEMMA IndicesAreFinite ==
  ASSUME NEW N, Indices(N)
  PROVE  IsFiniteSet(N) /\ N \subseteq Int
BY FS_Interval DEF Indices

LEMMA FirstOfIndices ==
  ASSUME NEW N, Indices(N), NEW A \in SUBSET N, NEW k \in 0 .. Cardinality(A)
  PROVE  /\ FirstOf(A, k) \in SUBSET A /\ Cardinality(FirstOf(A, k)) = k
         /\ \A j \in FirstOf(A, k), i \in A \ FirstOf(A, k) : j < i
<1>1. PICK n \in Nat : N = 1 .. n
  BY DEF Indices
<1>2. A \in SUBSET (1 .. n)
  BY <1>1
<1>3. k \in Nat
  BY IndicesAreFinite, ActiveAreCounted
<1>4. FirstOf(A, k) \in SUBSET A
  BY DEF FirstOf
<1>5. Cardinality(FirstOf(A, k)) = k
  BY <1>2, FirstAreMany
<1>6. \A j \in FirstOf(A, k), i \in A \ FirstOf(A, k) : j < i
  BY <1>2, <1>3, FirstAreEarlier
<1> QED BY <1>4, <1>5, <1>6

(* Nobody is saturated by an equal share: it is handed out, and the rest   *)
(* to the first ones.                                                      *)
LEMMA GrantIsFair ==
  ASSUME NEW N, Indices(N), NEW c \in [N -> Nat],
         NEW budget \in Nat, budget <= SumFunctionOnSet(c, N),
         NEW s, Filling(N, c, budget, s), s.active # {}, s.remaining # 0,
         Saturated(c, s) = {}
  PROVE  Divided(N, c, budget, Grant(s))
<1> DEFINE count == Cardinality(s.active)
           share == s.remaining \div count
           rest == s.remaining - share * count
           first == FirstOf(s.active, rest)
           t == Grant(s)
           given == [i \in s.active |-> share + (IF i \in first THEN 1 ELSE 0)]
<1>1. /\ s.alloc \in [N -> Int] /\ s.remaining \in Nat /\ s.active \in SUBSET N
      /\ \A i \in s.active : s.alloc[i] = 0 /\ c[i] > 0
      /\ \A i \in N \ s.active : s.alloc[i] = c[i]
      /\ SumFunctionOnSet(s.alloc, N) + s.remaining = budget
  BY DEF Filling, IsFilling
<1>2. IsFiniteSet(N) /\ N \subseteq Int
  BY IndicesAreFinite
<1>3. IsFiniteSet(s.active) /\ count \in Nat /\ count > 0
  BY <1>1, <1>2, ActiveAreCounted
<1> HIDE DEF count
<1>4. share \in Nat /\ share * count <= s.remaining /\ rest < count
      /\ \A m \in Nat : m * count <= s.remaining => m <= share
  <2>1. s.remaining \in Nat
    BY <1>1
  <2>2. s.remaining - share * count < count
    BY <1>3, <2>1, Division
  <2> QED BY <1>3, <2>1, <2>2, Division
<1>5. \A i \in s.active : share > 0 => c[i] > share
  <2>1. Saturated(c, s) = {i \in s.active : share > 0 /\ c[i] - s.alloc[i] <= share}
    BY DEF Saturated, count
  <2> HIDE DEF share
  <2>2. ASSUME NEW i \in s.active, share > 0 PROVE c[i] > share
    <3>1. ~ (c[i] - s.alloc[i] <= share) /\ s.alloc[i] = 0 /\ c[i] \in Nat
      BY <1>1, <2>1, <2>2
    <3> QED BY <1>4, <3>1
  <2> QED BY <2>2
<1>6. /\ t.alloc = [i \in N |-> IF i \notin s.active THEN s.alloc[i]
                                ELSE s.alloc[i] + share + (IF i \in first THEN 1 ELSE 0)]
      /\ t.remaining = 0 /\ t.active = {}
  BY <1>1 DEF Grant, count
<1> HIDE DEF share, t
<1>7. rest \in 0 .. count
  BY <1>1, <1>3, <1>4
<1>8. /\ first \in SUBSET s.active /\ Cardinality(first) = rest
      /\ \A j \in first, i \in s.active \ first : j < i
  BY <1>1, <1>7, FirstOfIndices DEF count
<1> HIDE DEF rest, first
<1>9. PICK m \in Nat : /\ m * count <= s.remaining
                       /\ \A i \in N \ s.active : c[i] <= m
  BY DEF Filling, IsFilling, count
<1>10. m <= share
  BY <1>4, <1>9
<1>11. /\ \A i \in N \ s.active : t.alloc[i] = c[i] /\ t.alloc[i] <= share
       /\ \A i \in s.active : t.alloc[i] = share + (IF i \in first THEN 1 ELSE 0)
  <2>1. ASSUME NEW i \in N \ s.active PROVE t.alloc[i] = c[i] /\ t.alloc[i] <= share
    <3>1. t.alloc[i] = c[i] /\ c[i] \in Nat /\ c[i] <= m
      BY <1>1, <1>6, <1>9
    <3> QED BY <1>4, <1>10, <3>1
  <2>2. ASSUME NEW i \in s.active PROVE t.alloc[i] = share + (IF i \in first THEN 1 ELSE 0)
    <3>1. i \in N /\ s.alloc[i] = 0
      BY <1>1
    <3> QED BY <1>4, <1>6, <3>1
  <2> QED BY <2>1, <2>2
<1>12. ASSUME NEW i \in N PROVE t.alloc[i] \in Nat /\ t.alloc[i] <= c[i]
  <2>1. CASE i \notin s.active
    BY <1>11, <2>1
  <2>2. CASE i \in s.active
    <3>1. t.alloc[i] = share + (IF i \in first THEN 1 ELSE 0)
      BY <1>11, <2>2
    <3>2. c[i] \in Nat /\ c[i] > share
      BY <1>1, <1>4, <1>5, <2>2
    <3> QED BY <1>4, <3>1, <3>2
  <2> QED BY <2>1, <2>2
<1>13. ASSUME NEW i \in N, NEW j \in N, t.alloc[i] < c[i]
       PROVE  t.alloc[j] <= t.alloc[i] + (IF j < i THEN 1 ELSE 0)
  <2>1. i \in s.active
    BY <1>11, <1>12, <1>13
  <2>2. t.alloc[i] = share + (IF i \in first THEN 1 ELSE 0)
    BY <1>11, <2>1
  <2>3. CASE j \notin s.active
    <3>1. t.alloc[j] <= share /\ t.alloc[j] \in Nat
      BY <1>11, <1>12, <2>3
    <3> QED BY <1>4, <2>2, <3>1
  <2>4. CASE j \in s.active
    <3>1. t.alloc[j] = share + (IF j \in first THEN 1 ELSE 0)
      BY <1>11, <2>4
    <3>2. j \in first /\ i \notin first => j < i
      BY <1>8, <2>1
    <3> QED BY <1>4, <2>2, <3>1, <3>2
  <2> QED BY <2>3, <2>4
<1>14. SumFunctionOnSet(given, s.active) = s.remaining
  <2> DEFINE even == [i \in s.active |-> share]
             one == [i \in s.active |-> IF i \in first THEN 1 ELSE 0]
  <2>1. \A i \in s.active : even[i] = share /\ even[i] \in Int /\ one[i] \in Int
                            /\ given[i] = even[i] + one[i]
    BY <1>4
  <2>2. (\A i \in first : one[i] = 1) /\ \A i \in s.active \ first : one[i] = 0
    BY <1>8
  <2> HIDE DEF even, one, given
  <2>3. SumFunctionOnSet(given, s.active)
          = SumFunctionOnSet(even, s.active) + SumFunctionOnSet(one, s.active)
    BY <1>3, <2>1, SumOfTwo
  <2>4. SumFunctionOnSet(even, s.active) = share * count
    BY <1>3, <1>4, <2>1, SumOfEqual DEF count
  <2>5. SumFunctionOnSet(one, s.active)
          = SumFunctionOnSet(one, first) + SumFunctionOnSet(one, s.active \ first)
    <3>1. \A i \in s.active : one[i] \in Int
      BY <2>1
    <3> QED BY <1>3, <1>8, <3>1, SumOfParts
  <2>6. IsFiniteSet(first) /\ IsFiniteSet(s.active \ first)
        /\ Cardinality(s.active \ first) \in Nat
    <3>1. s.active \ first \in SUBSET s.active
      OBVIOUS
    <3> QED BY <1>3, <1>8, <3>1, ActiveAreCounted
  <2>7. SumFunctionOnSet(one, first) = 1 * Cardinality(first)
    BY <2>2, <2>6, SumOfEqual
  <2>8. SumFunctionOnSet(one, s.active \ first) = 0 * Cardinality(s.active \ first)
    BY <2>2, <2>6, SumOfEqual
  <2>9. SumFunctionOnSet(one, s.active) = rest
    BY <1>7, <1>8, <2>5, <2>6, <2>7, <2>8
  <2>10. share * count \in Int
    BY <1>3, <1>4
  <2> QED BY <1>1, <2>3, <2>4, <2>9, <2>10 DEF rest
<1>15. t.alloc \in [N -> Int]
  <2>1. \A i \in N : t.alloc[i] \in Int
    BY <1>12
  <2> QED BY <1>6, <2>1
<1>16. SumFunctionOnSet(t.alloc, N)
         = SumFunctionOnSet(s.alloc, N) + SumFunctionOnSet(given, s.active)
  <2>1. \A i \in N \ s.active : t.alloc[i] = s.alloc[i]
    BY <1>6
  <2>2. \A i \in s.active : given[i] = t.alloc[i] - s.alloc[i]
    BY <1>1, <1>4, <1>11
  <2> HIDE DEF given
  <2>3. s.alloc \in [N -> Int] /\ s.active \in SUBSET N /\ IsFiniteSet(N)
    BY <1>1, <1>2
  <2> QED BY <1>15, <2>1, <2>2, <2>3, HandedOut
<1>17. SumFunctionOnSet(t.alloc, N) = Lesser(budget, SumFunctionOnSet(c, N))
  <2>1. \A i \in N : c[i] \in Int
    OBVIOUS
  <2>2. SumFunctionOnSet(c, N) \in Int
    BY <1>2, <2>1, SumIsInt
  <2>3. Lesser(budget, SumFunctionOnSet(c, N)) = budget
    BY <2>2, LesserIsLesser
  <2> QED BY <1>1, <1>14, <1>16, <2>3
<1>18. DOMAIN t.alloc = N /\ DOMAIN c = N
  BY <1>15
<1>19. IsFair(c, budget, t.alloc)
  BY <1>12, <1>13, <1>17, <1>18 DEF IsFair, SumFunction
<1> QED BY <1>6, <1>15, <1>19 DEF Divided, t

(* One turn, and all of them.                                              *)
Divisions(N) == [alloc : [N -> Int], remaining : Nat, active : SUBSET N]

Dividing(N, c, budget) ==
  {s \in Divisions(N) : Filling(N, c, budget, s) \/ Divided(N, c, budget, s)}

Stopped(s) == s.active = {} \/ s.remaining = 0

LEMMA TurnDivides ==
  ASSUME NEW N, Indices(N), NEW c \in [N -> Nat],
         NEW budget \in Nat, budget <= SumFunctionOnSet(c, N),
         NEW s \in Dividing(N, c, budget)
  PROVE  /\ Turn(c, s) \in Dividing(N, c, budget)
         /\ Stopped(s) => Turn(c, s) = s
         /\ ~Stopped(s) => \/ Stopped(Turn(c, s))
                           \/ Cardinality(Turn(c, s).active) < Cardinality(s.active)
<1>1. CASE Stopped(s)
  BY <1>1 DEF Turn, Stopped
<1>2. CASE ~Stopped(s)
  <2>1. Filling(N, c, budget, s) /\ s.active # {} /\ s.remaining # 0
    BY <1>2 DEF Dividing, Divided, Stopped
  <2>2. s.alloc \in [N -> Int] /\ s.active \in SUBSET N /\ IsFiniteSet(N)
    BY IndicesAreFinite DEF Dividing, Divisions
  <2>3. CASE Saturated(c, s) = {}
    <3>1. Turn(c, s) = Grant(s)
      BY <2>1, <2>3 DEF Turn
    <3>2. Divided(N, c, budget, Grant(s))
      BY <2>1, <2>3, GrantIsFair
    <3>3. Grant(s) \in Divisions(N)
      <4>1. Grant(s) = [alloc |-> Grant(s).alloc, remaining |-> 0, active |-> {}]
        BY DEF Grant
      <4>2. Grant(s).alloc \in [N -> Int]
        BY <3>2 DEF Divided
      <4> QED BY <4>1, <4>2 DEF Divisions
    <3>4. Stopped(Grant(s))
      BY <3>2 DEF Divided, Stopped
    <3> QED BY <1>2, <3>1, <3>2, <3>3, <3>4 DEF Dividing
  <2>4. CASE Saturated(c, s) # {}
    <3> DEFINE t == Saturate(c, s, Saturated(c, s))
    <3>1. Turn(c, s) = t
      BY <2>1, <2>4 DEF Turn
    <3>2. Filling(N, c, budget, t) /\ Cardinality(t.active) < Cardinality(s.active)
      BY <2>1, <2>2, <2>4, SaturateFills
    <3>3. t \in Divisions(N)
      <4>1. t = [alloc |-> t.alloc, remaining |-> t.remaining, active |-> t.active]
        BY DEF Saturate
      <4>2. t.alloc \in [N -> Int] /\ t.remaining \in Nat /\ t.active \in SUBSET N
        BY <3>2 DEF Filling, IsFilling
      <4> HIDE DEF t
      <4> QED BY <4>1, <4>2 DEF Divisions
    <3> HIDE DEF t
    <3> QED BY <1>2, <3>1, <3>2, <3>3 DEF Dividing
  <2> QED BY <2>3, <2>4
<1> QED BY <1>1, <1>2

FirstDivision(c, budget) ==
  [alloc |-> [i \in DOMAIN c |-> 0],
   remaining |-> Lesser(Greater(0, budget), SumFunction(c)),
   active |-> {i \in DOMAIN c : c[i] > 0}]

LEMMA DivisionBegins ==
  ASSUME NEW N, Indices(N), NEW c \in [N -> Nat], NEW budget \in Int
  PROVE  LET whole == Lesser(Greater(0, budget), SumFunctionOnSet(c, N))
         IN  /\ SumFunctionOnSet(c, N) \in Nat /\ whole \in Nat
             /\ whole <= SumFunctionOnSet(c, N)
             /\ whole = Lesser(whole, SumFunctionOnSet(c, N))
             /\ FirstDivision(c, budget) \in Dividing(N, c, whole)
<1> DEFINE whole == Lesser(Greater(0, budget), SumFunctionOnSet(c, N))
           s == FirstDivision(c, budget)
           zero == [i \in N |-> 0]
<1>1. IsFiniteSet(N) /\ \A i \in N : c[i] \in Int /\ zero[i] \in Int /\ zero[i] = 0
                                     /\ zero[i] <= c[i]
  BY IndicesAreFinite
<1>2. s.alloc = zero /\ s.remaining = whole /\ s.active = {i \in N : c[i] > 0}
      /\ s = [alloc |-> zero, remaining |-> whole, active |-> {i \in N : c[i] > 0}]
  BY DEF FirstDivision, SumFunction
<1>3. SumFunctionOnSet(c, N) \in Int /\ SumFunctionOnSet(zero, N) <= SumFunctionOnSet(c, N)
  <2> HIDE DEF zero
  <2> QED BY <1>1, SumIsInt, SumOfLess
<1>4. SumFunctionOnSet(zero, N) = 0
  <2>1. Cardinality(N) \in Nat
    BY <1>1, FS_CardinalityType
  <2> HIDE DEF zero
  <2>2. SumFunctionOnSet(zero, N) = 0 * Cardinality(N)
    BY <1>1, SumOfEqual
  <2> QED BY <2>1, <2>2
<1>5. Greater(0, budget) \in Nat
  BY GreaterIsGreater
<1>6. whole \in Nat /\ whole <= SumFunctionOnSet(c, N)
      /\ whole = Lesser(whole, SumFunctionOnSet(c, N))
  <2>1. whole = IF Greater(0, budget) <= SumFunctionOnSet(c, N)
                THEN Greater(0, budget) ELSE SumFunctionOnSet(c, N)
    BY <1>3, <1>5, LesserIsLesser
  <2>2. whole \in Nat /\ whole <= SumFunctionOnSet(c, N)
    BY <1>3, <1>4, <1>5, <2>1
  <2> HIDE DEF whole
  <2> QED BY <1>3, <2>2, LesserIsLesser
<1>7. /\ zero \in [N -> Int] /\ {i \in N : c[i] > 0} \in SUBSET N
  OBVIOUS
<1> HIDE DEF whole, s
<1>8. IsFilling(N, c, s)
  <2>1. \A i \in s.active : s.alloc[i] = 0 /\ c[i] > 0
    BY <1>1, <1>2
  <2>2. \A i \in N \ s.active : c[i] <= 0 /\ s.alloc[i] = c[i]
    <3>1. ASSUME NEW i \in N \ s.active PROVE c[i] = 0 /\ s.alloc[i] = 0
      <4>1. c[i] \in Nat /\ ~ (c[i] > 0)
        BY <1>2
      <4> QED BY <1>1, <1>2, <4>1
    <3> QED BY <3>1
  <2>3. Cardinality(s.active) \in Nat
    BY <1>1, <1>2, <1>7, ActiveAreCounted
  <2>4. 0 * Cardinality(s.active) <= s.remaining
    BY <1>2, <1>6, <2>3
  <2> QED BY <1>2, <1>6, <1>7, <2>1, <2>2, <2>4 DEF IsFilling
<1>9. s \in Divisions(N)
  BY <1>2, <1>6, <1>7 DEF Divisions
<1>10. SumFunctionOnSet(s.alloc, N) + s.remaining = whole
  BY <1>2, <1>4, <1>6
<1>11. s \in Dividing(N, c, whole)
  BY <1>8, <1>9, <1>10 DEF Dividing, Filling
<1> QED BY <1>3, <1>4, <1>6, <1>11 DEF whole, s

FoldsTurns(g, c, budget, n) ==
  g = [T \in SUBSET (1 .. n) |->
         IF T = {} THEN FirstDivision(c, budget) ELSE Turn(c, g[T \ {Max(T)}])]

LEMMA AllocationsAreChosen ==
  ASSUME NEW n \in Nat, NEW c, DOMAIN c = 1 .. n, NEW budget
  PROVE  FairAllocations(c, budget)
           = (CHOOSE g : FoldsTurns(g, c, budget, n + 1))[1 .. n + 1].alloc
<1>1. Len(c) = n
  BY LenOf
<1> QED BY <1>1 DEF FairAllocations, FoldLeft, MapThenFoldSet, FoldsTurns, FirstDivision

(* _fair_allocations divides any budget fairly.                            *)
LEMMA AllocationsAreFair ==
  ASSUME NEW n \in Nat, NEW c \in [1 .. n -> Nat], NEW budget \in Int
  PROVE  /\ FairAllocations(c, budget) \in [1 .. n -> Nat]
         /\ IsFair(c, Greater(0, budget), FairAllocations(c, budget))
<1> DEFINE N == 1 .. n
           total == SumFunctionOnSet(c, N)
           whole == Lesser(Greater(0, budget), total)
           first == FirstDivision(c, budget)
           X == Dividing(N, c, whole)
           F == [k \in 1 .. n + 1 |-> [s \in X |-> Turn(c, s)]]
           g == CHOOSE h : FoldsTurns(h, c, budget, n + 1)
           at(k) == g[1 .. k]
<1>1. Indices(N) /\ c \in [N -> Nat]
  BY DEF Indices
<1>2. IsFiniteSet(N) /\ Cardinality(N) = n
  BY FS_Interval
<1>3. DOMAIN c = N
  OBVIOUS
<1>4. FairAllocations(c, budget) = at(n + 1).alloc
  BY AllocationsAreChosen
<1> HIDE DEF N
<1>5. total \in Nat /\ whole \in Nat /\ whole <= total
      /\ whole = Lesser(whole, total) /\ first \in X
  BY <1>1, DivisionBegins
<1> HIDE DEF total
<1>6. ASSUME NEW s \in X
      PROVE  /\ Turn(c, s) \in X
             /\ Stopped(s) => Turn(c, s) = s
             /\ ~Stopped(s) => \/ Stopped(Turn(c, s))
                               \/ Cardinality(Turn(c, s).active) < Cardinality(s.active)
  <2> HIDE DEF whole
  <2> QED BY <1>1, <1>5, TurnDivides DEF total
<1> HIDE DEF X, first, whole
<1>7. F \in [1 .. n + 1 -> [X -> X]]
  BY <1>6
<1>8. FoldsTurns(g, c, budget, n + 1)
  <2>1. n + 1 \in Nat
    OBVIOUS
  <2>2. PICK h \in [SUBSET (1 .. n + 1) -> X] : FoldsBy(h, first, F, n + 1)
    <3> HIDE DEF F
    <3> QED BY <1>5, <1>7, <2>1, FoldExists
  <2>3. ASSUME NEW T \in SUBSET (1 .. n + 1), T # {}
        PROVE  h[T] = Turn(c, h[T \ {Max(T)}])
    <3>1. Max(T) \in 1 .. n + 1
      BY <2>1, <2>3, MaxIsIn
    <3>2. T \ {Max(T)} \in SUBSET (1 .. n + 1)
      OBVIOUS
    <3>3. h[T \ {Max(T)}] \in X
      BY <2>2, <3>2
    <3> QED BY <2>2, <2>3, <3>1, <3>3 DEF FoldsBy
  <2>4. \A T \in SUBSET (1 .. n + 1) :
          h[T] = IF T = {} THEN first ELSE Turn(c, h[T \ {Max(T)}])
    BY <2>2, <2>3 DEF FoldsBy
  <2>5. h = [T \in SUBSET (1 .. n + 1) |-> h[T]]
    BY <2>2
  <2>6. FoldsTurns(h, c, budget, n + 1)
    BY <2>4, <2>5 DEF FoldsTurns, first
  <2> QED BY <2>6
<1> HIDE DEF g, F
<1>9. at(0) = first
  <2>1. n + 1 \in Nat /\ n + 1 \in 1 .. n + 1
    OBVIOUS
  <2>2. 1 .. 0 = {} /\ 1 .. 0 \in SUBSET (1 .. n + 1)
    BY <2>1, FoldSteps
  <2> QED BY <1>8, <2>2 DEF FoldsTurns, first
<1>10. \A k \in 1 .. n + 1 : at(k) = Turn(c, at(k - 1))
  <2>1. SUFFICES ASSUME NEW k \in 1 .. n + 1 PROVE at(k) = Turn(c, at(k - 1))
    OBVIOUS
  <2>2. n + 1 \in Nat
    OBVIOUS
  <2>3. /\ 1 .. k \in SUBSET (1 .. n + 1) /\ 1 .. k # {} /\ Max(1 .. k) = k
        /\ (1 .. k) \ {k} = 1 .. k - 1
    BY <2>2, FoldSteps
  <2> QED BY <1>8, <2>3 DEF FoldsTurns
<1> HIDE DEF at
<1> DEFINE On(k) == /\ at(k) \in X
                    /\ Stopped(at(k)) \/ Cardinality(at(k).active) + k <= n
           C == {k \in Nat : k <= n + 1 => On(k)}
<1>11. \A s \in X : s.active \in SUBSET N /\ Cardinality(s.active) \in Nat
  BY <1>2, ActiveAreCounted DEF X, Dividing, Divisions
<1>12. 0 \in C
  <2>1. first.active \in SUBSET N
    BY <1>5, <1>11
  <2>2. Cardinality(first.active) <= n /\ Cardinality(first.active) \in Nat
    BY <1>2, <1>5, <1>11, <2>1, FS_Subset
  <2>3. On(0)
    BY <1>5, <1>9, <2>2
  <2> QED BY <2>3
<1>13. ASSUME NEW k \in Nat, k \in C PROVE k + 1 \in C
  <2>1. SUFFICES ASSUME k + 1 <= n + 1 PROVE On(k + 1)
    BY <1>13
  <2>2. On(k) /\ k + 1 \in 1 .. n + 1 /\ k + 1 - 1 = k
    BY <1>13, <2>1
  <2>3. at(k + 1) = Turn(c, at(k))
    BY <1>10, <2>2
  <2>4. at(k) \in X /\ at(k + 1) \in X
    BY <1>6, <2>2, <2>3
  <2>5. CASE Stopped(at(k))
    <3>1. at(k + 1) = at(k)
      BY <1>6, <2>3, <2>4, <2>5
    <3> QED BY <2>4, <2>5, <3>1
  <2>6. CASE ~Stopped(at(k))
    <3>1. Cardinality(at(k).active) + k <= n
      BY <2>2, <2>6
    <3>2. \/ Stopped(at(k + 1))
          \/ Cardinality(at(k + 1).active) < Cardinality(at(k).active)
      BY <1>6, <2>3, <2>4, <2>6
    <3>3. Cardinality(at(k).active) \in Nat /\ Cardinality(at(k + 1).active) \in Nat
      BY <1>11, <2>4
    <3>4. Stopped(at(k + 1)) \/ Cardinality(at(k + 1).active) + (k + 1) <= n
      BY <3>1, <3>2, <3>3
    <3> QED BY <2>4, <3>4
  <2> QED BY <2>5, <2>6
<1> HIDE DEF C
<1>14. n + 1 \in C
  <2>1. n + 1 \in Nat
    OBVIOUS
  <2> QED BY <1>12, <1>13, <2>1, SetInduction
<1>15. On(n + 1)
  <2>1. n + 1 <= n + 1
    OBVIOUS
  <2> QED BY <1>14, <2>1 DEF C
<1> DEFINE last == at(n + 1)
<1>16. last \in X /\ Stopped(last)
  <2>1. Cardinality(last.active) \in Nat
    BY <1>11, <1>15
  <2> QED BY <1>15, <2>1
<1> HIDE DEF last
<1>17. IsFair(c, whole, last.alloc) /\ last.alloc \in [N -> Int]
  <2>1. CASE Divided(N, c, whole, last)
    BY <2>1 DEF Divided
  <2>2. CASE Filling(N, c, whole, last)
    <3>1. last.active = {} \/ last.remaining = 0
      BY <1>16 DEF Stopped
    <3>2. IsFair(c, whole, last.alloc)
      BY <1>1, <1>2, <1>5, <2>2, <3>1, StoppedIsFair DEF total
    <3> QED BY <2>2, <3>2 DEF Filling, IsFilling
  <2> QED BY <1>16, <2>1, <2>2 DEF X, Dividing
<1>18. IsFair(c, Greater(0, budget), last.alloc)
  <2>1. SumFunction(last.alloc) = Lesser(whole, SumFunction(c))
    BY <1>17 DEF IsFair
  <2>2. SumFunction(c) = total
    BY <1>3 DEF SumFunction, total
  <2>3. SumFunction(last.alloc) = Lesser(Greater(0, budget), SumFunction(c))
    BY <1>5, <2>1, <2>2 DEF whole
  <2> QED BY <1>17, <2>3 DEF IsFair
<1>19. last.alloc \in [N -> Nat]
  <2>1. \A i \in N : last.alloc[i] \in Nat
    BY <1>3, <1>17 DEF IsFair
  <2> QED BY <1>17, <2>1
<1> QED BY <1>4, <1>18, <1>19 DEF last, N

-----------------------------------------------------------------------------
(* _section_allocations.                                                   *)

(* What fairness says of functions on N.                                   *)
LEMMA FairOn ==
  ASSUME NEW N, IsFiniteSet(N), NEW c \in [N -> Nat], NEW budget \in Nat,
         NEW a \in [N -> Nat]
  PROVE  /\ SumFunctionOnSet(c, N) \in Int /\ SumFunctionOnSet(a, N) \in Int
         /\ IsFair(c, budget, a) <=>
              /\ SumFunctionOnSet(a, N) = IF budget <= SumFunctionOnSet(c, N) THEN budget
                                          ELSE SumFunctionOnSet(c, N)
              /\ \A i \in N : a[i] <= c[i]
              /\ \A i, j \in N : a[i] < c[i] => a[j] <= a[i] + (IF j < i THEN 1 ELSE 0)
<1>1. DOMAIN c = N /\ DOMAIN a = N
  OBVIOUS
<1>2. \A i \in N : c[i] \in Nat /\ a[i] \in Nat /\ c[i] \in Int /\ a[i] \in Int /\ 0 <= a[i]
  OBVIOUS
<1>3. SumFunctionOnSet(c, N) \in Int /\ SumFunctionOnSet(a, N) \in Int
  BY <1>2, SumIsInt
<1>4. Lesser(budget, SumFunctionOnSet(c, N))
        = IF budget <= SumFunctionOnSet(c, N) THEN budget ELSE SumFunctionOnSet(c, N)
  BY <1>3, LesserIsLesser
<1> QED BY <1>1, <1>2, <1>3, <1>4 DEF IsFair, SumFunction

(* An index that has its reserve, and not all it can take, has no less     *)
(* than the reserve; and no other has more.                                *)
LEMMA AtTheReserve ==
  ASSUME NEW reserve \in Nat, NEW ci \in Nat, NEW cj \in Nat, NEW ai \in Nat, NEW aj \in Nat,
         NEW bi, NEW bj,
         bi = (IF ci <= reserve THEN ci ELSE reserve),
         bj = (IF cj <= reserve THEN cj ELSE reserve),
         ai = bi, ai < ci, aj <= bj
  PROVE  ai = reserve /\ aj <= reserve
  OBVIOUS

LEMMA LessOrEqual ==
  ASSUME NEW x \in Int, NEW y \in Int, x <= y
  PROVE  x < y \/ x = y
  OBVIOUS

LEMMA AboveTheReserve ==
  ASSUME NEW reserve \in Nat, NEW ci \in Nat, NEW cj \in Nat,
         NEW ai \in Nat, NEW aj \in Nat, NEW xi \in Nat, NEW xj \in Nat,
         ai = (IF ci <= reserve THEN ci ELSE reserve),
         aj = (IF cj <= reserve THEN cj ELSE reserve),
         ai + xi < ci, xj <= cj - aj,
         NEW e \in Nat, xi < ci - ai => xj <= xi + e
  PROVE  aj + xj <= ai + xi + e
  OBVIOUS

(* Two rounds of filling, the first up to a reserve, make one.             *)
TwoRounds(N, c, reserve, base, budget, a, left, b, d) ==
  /\ c \in [N -> Nat] /\ reserve \in Nat /\ budget \in Nat
  /\ base \in [N -> Nat] /\ \A i \in N : base[i] = IF c[i] <= reserve THEN c[i] ELSE reserve
  /\ a \in [N -> Nat] /\ IsFair(base, budget, a)
  /\ left \in [N -> Nat] /\ \A i \in N : left[i] = c[i] - a[i]
  /\ b \in [N -> Nat] /\ IsFair(left, budget - SumFunctionOnSet(a, N), b)
  /\ d \in [N -> Nat] /\ \A i \in N : d[i] = a[i] + b[i]

LEMMA TwoRoundsAreOne ==
  ASSUME NEW N, IsFiniteSet(N), NEW c, NEW reserve, NEW base, NEW budget,
         NEW a, NEW left, NEW b, NEW d, TwoRounds(N, c, reserve, base, budget, a, left, b, d)
  PROVE  IsFair(c, budget, d)
<1>0. /\ c \in [N -> Nat] /\ reserve \in Nat /\ budget \in Nat
      /\ base \in [N -> Nat] /\ \A i \in N : base[i] = IF c[i] <= reserve THEN c[i] ELSE reserve
      /\ a \in [N -> Nat] /\ IsFair(base, budget, a)
      /\ left \in [N -> Nat] /\ \A i \in N : left[i] = c[i] - a[i]
      /\ b \in [N -> Nat] /\ IsFair(left, budget - SumFunctionOnSet(a, N), b)
      /\ d \in [N -> Nat] /\ \A i \in N : d[i] = a[i] + b[i]
  BY DEF TwoRounds
<1> DEFINE sum(f) == SumFunctionOnSet(f, N)
<1>1. \A i \in N : /\ c[i] \in Nat /\ base[i] \in Nat /\ a[i] \in Nat
                   /\ left[i] \in Nat /\ b[i] \in Nat /\ d[i] \in Nat
  BY <1>0
<1>2. /\ \A i \in N : c[i] \in Int /\ a[i] \in Int /\ left[i] \in Int /\ c[i] = a[i] + left[i]
      /\ \A i \in N : a[i] \in Int /\ b[i] \in Int /\ d[i] = a[i] + b[i]
      /\ \A i \in N : base[i] \in Int /\ c[i] \in Int /\ base[i] <= c[i]
  BY <1>0, <1>1
<1>3. sum(c) = sum(a) + sum(left)
  BY <1>2, SumOfTwo
<1>4. sum(d) = sum(a) + sum(b)
  BY <1>2, SumOfTwo
<1>5. sum(base) <= sum(c)
  BY <1>2, SumOfLess
<1>6. /\ sum(a) \in Int /\ sum(base) \in Int /\ sum(c) \in Int
      /\ sum(a) = IF budget <= sum(base) THEN budget ELSE sum(base)
      /\ \A i \in N : a[i] <= base[i]
      /\ \A i, j \in N : a[i] < base[i] => a[j] <= a[i] + (IF j < i THEN 1 ELSE 0)
  BY <1>0, FairOn
<1>7. budget - sum(a) \in Nat
  BY <1>0, <1>6
<1>8. /\ sum(b) \in Int /\ sum(left) \in Int
      /\ sum(b) = IF budget - sum(a) <= sum(left) THEN budget - sum(a) ELSE sum(left)
      /\ \A i \in N : b[i] <= left[i]
      /\ \A i, j \in N : b[i] < left[i] => b[j] <= b[i] + (IF j < i THEN 1 ELSE 0)
  BY <1>0, <1>7, FairOn
<1> HIDE DEF sum
<1>9. sum(d) = IF budget <= sum(c) THEN budget ELSE sum(c)
  BY <1>0, <1>3, <1>4, <1>6, <1>8
<1>10. \A i \in N : d[i] <= c[i]
  BY <1>1, <1>2, <1>8
<1>11. ASSUME NEW i \in N, NEW j \in N, d[i] < c[i]
       PROVE  d[j] <= d[i] + (IF j < i THEN 1 ELSE 0)
  <2> DEFINE e == IF j < i THEN 1 ELSE 0
  <2>0. e \in Nat /\ (a[i] < base[i] => a[j] <= a[i] + e) /\ (b[i] < left[i] => b[j] <= b[i] + e)
    BY <1>6, <1>8
  <2> HIDE DEF e
  <2> SUFFICES d[j] <= d[i] + e
    BY DEF e
  <2>1. /\ d[i] = a[i] + b[i] /\ d[j] = a[j] + b[j]
        /\ c[i] \in Nat /\ c[j] \in Nat /\ a[i] \in Nat /\ a[j] \in Nat
        /\ b[i] \in Nat /\ b[j] \in Nat
        /\ base[i] = (IF c[i] <= reserve THEN c[i] ELSE reserve)
        /\ base[j] = (IF c[j] <= reserve THEN c[j] ELSE reserve)
        /\ left[i] = c[i] - a[i] /\ left[j] = c[j] - a[j] /\ b[j] <= left[j]
        /\ a[i] <= base[i] /\ a[j] <= base[j]
    BY <1>0, <1>1, <1>2, <1>6, <1>8
  <2>2. CASE budget <= sum(base)
    <3>1. sum(b) = 0
      BY <1>0, <1>3, <1>5, <1>6, <1>8, <2>2
    <3> DEFINE zero == [k \in N |-> 0]
    <3>2. \A k \in N : zero[k] = 0 /\ zero[k] \in Int /\ b[k] \in Int /\ zero[k] <= b[k]
      BY <1>1
    <3> HIDE DEF zero
    <3>3. sum(zero) = 0
      <4>1. Cardinality(N) \in Nat
        BY FS_CardinalityType
      <4>2. sum(zero) = 0 * Cardinality(N)
        BY <3>2, SumOfEqual DEF sum
      <4> QED BY <4>1, <4>2
    <3>4. \A k \in N : zero[k] = b[k]
      BY <3>1, <3>2, <3>3, SumOfLess DEF sum
    <3>5. b[i] = 0 /\ b[j] = 0
      BY <3>2, <3>4
    <3>7. d[i] = a[i] /\ d[j] = a[j]
      BY <2>1, <3>5
    <3>8. CASE a[i] < base[i]
      BY <2>0, <3>7, <3>8
    <3>9. CASE a[i] = base[i]
      <4>1. a[i] = reserve /\ a[j] <= reserve
        <5>1. a[i] < c[i]
          BY <1>11, <3>7
        <5> QED BY <5>1, <1>0, <2>1, <3>9, AtTheReserve
      <4> QED BY <1>0, <2>0, <2>1, <3>7, <4>1
    <3>10. a[i] < base[i] \/ a[i] = base[i]
      <4>1. a[i] \in Int /\ base[i] \in Int /\ a[i] <= base[i]
        BY <1>1, <1>6
      <4> QED BY <4>1, LessOrEqual
    <3> QED BY <3>8, <3>9, <3>10
  <2>3. CASE budget > sum(base)
    <3>1. sum(a) = sum(base)
      BY <1>6, <2>3
    <3>2. \A k \in N : a[k] \in Int /\ base[k] \in Int /\ a[k] <= base[k]
      BY <1>1, <1>6
    <3>3. \A k \in N : a[k] = base[k]
      BY <3>1, <3>2, SumOfLess DEF sum
    <3>4. a[i] = base[i] /\ a[j] = base[j]
      BY <3>3
    <3>5. a[i] + b[i] < c[i] /\ b[j] <= c[j] - a[j]
      BY <1>11, <2>1
    <3>6. b[i] < c[i] - a[i] => b[j] <= b[i] + e
      BY <2>0, <2>1
    <3>7. a[j] + b[j] <= a[i] + b[i] + e
      <4>1. /\ a[i] = (IF c[i] <= reserve THEN c[i] ELSE reserve)
            /\ a[j] = (IF c[j] <= reserve THEN c[j] ELSE reserve)
        BY <2>1, <3>4
      <4> QED BY <2>0, <2>1, <3>5, <3>6, <1>0, <4>1, AboveTheReserve
    <3> QED BY <2>1, <3>7
  <2> QED BY <1>0, <1>6, <2>2, <2>3
<1> QED BY <1>0, <1>9, <1>10, <1>11, FairOn DEF sum

-----------------------------------------------------------------------------
(* _section_allocations divides what a positive budget leaves fairly.      *)

LEMMA SectionsAreTyped ==
  ASSUME NEW sections \in Seq(Section), NEW n \in Nat, n = Len(sections)
  PROVE  /\ DOMAIN sections = 1 .. n
         /\ \A i \in 1 .. n : sections[i] \in Section
         /\ \A i \in 1 .. n : /\ sections[i].manifest \in BOOLEAN
                              /\ sections[i].length \in Nat
                              /\ Flexible(sections, i) \in Nat
         /\ Manifests(sections) = {i \in 1 .. n : sections[i].manifest}
         /\ Lengths(sections) = [i \in 1 .. n |-> sections[i].length]
<1>1. DOMAIN sections = 1 .. n /\ \A i \in 1 .. n : sections[i] \in Section
  OBVIOUS
<1>2. \A i \in 1 .. n : sections[i].manifest \in BOOLEAN /\ sections[i].length \in Nat
  BY <1>1 DEF Section
<1>3. \A i \in 1 .. n : Flexible(sections, i) \in Nat
  BY <1>2 DEF Flexible
<1> QED BY <1>1, <1>2, <1>3 DEF Manifests, Lengths

LEMMA SumIsNat ==
  ASSUME NEW f, NEW S, IsFiniteSet(S), \A i \in S : f[i] \in Nat
  PROVE  SumFunctionOnSet(f, S) \in Nat
<1> DEFINE zero == [i \in S |-> 0]
<1>1. \A i \in S : zero[i] = 0 /\ zero[i] \in Int /\ f[i] \in Int /\ zero[i] <= f[i]
  OBVIOUS
<1> HIDE DEF zero
<1>2. SumFunctionOnSet(zero, S) = 0 * Cardinality(S)
  <2>1. 0 \in Int
    OBVIOUS
  <2> QED BY <1>1, <2>1, SumOfEqual
<1>3. Cardinality(S) \in Nat
  BY FS_CardinalityType
<1>4. SumFunctionOnSet(zero, S) <= SumFunctionOnSet(f, S)
  BY <1>1, SumOfLess
<1>5. SumFunctionOnSet(f, S) \in Int
  BY <1>1, SumIsInt
<1> QED BY <1>2, <1>3, <1>4, <1>5

(* What is allocated on indices, of a budget that is none or more.         *)
LEMMA FairlyAllocated ==
  ASSUME NEW N, Indices(N), NEW c \in [N -> Nat], NEW budget \in Nat
  PROVE  /\ FairAllocations(c, budget) \in [N -> Nat]
         /\ IsFair(c, budget, FairAllocations(c, budget))
         /\ \A i \in N : FairAllocations(c, budget)[i] <= c[i]
         /\ SumFunctionOnSet(FairAllocations(c, budget), N) \in Nat
         /\ SumFunctionOnSet(FairAllocations(c, budget), N) <= budget
<1> DEFINE a == FairAllocations(c, budget)
<1>1. Greater(0, budget) = budget
  BY GreaterIsGreater
<1>2. a \in [N -> Nat] /\ IsFair(c, Greater(0, budget), a)
  <2>1. PICK n \in Nat : N = 1 .. n
    BY DEF Indices
  <2>2. c \in [1 .. n -> Nat] /\ budget \in Int
    BY <2>1
  <2>3. a \in [1 .. n -> Nat] /\ IsFair(c, Greater(0, budget), a)
    BY <2>2, AllocationsAreFair
  <2> QED BY <2>1, <2>3
<1> HIDE DEF a
<1>3. IsFiniteSet(N)
  BY IndicesAreFinite
<1>4. IsFair(c, budget, a)
  BY <1>1, <1>2
<1>5. /\ SumFunctionOnSet(c, N) \in Int
      /\ SumFunctionOnSet(a, N) = IF budget <= SumFunctionOnSet(c, N) THEN budget
                                  ELSE SumFunctionOnSet(c, N)
      /\ \A i \in N : a[i] <= c[i]
  BY <1>2, <1>3, <1>4, FairOn
<1>6. SumFunctionOnSet(a, N) \in Nat
  <2>1. \A i \in N : a[i] \in Nat
    BY <1>2
  <2> QED BY <1>3, <2>1, SumIsNat
<1> QED BY <1>2, <1>4, <1>5, <1>6 DEF a

(* A reserve for each, and then what is left.                              *)
Rounds(N, c, reserve, rest, base, reserved, left, extra, both) ==
  /\ base = [i \in N |-> Lesser(c[i], reserve)]
  /\ reserved = FairAllocations(base, rest)
  /\ left = [i \in N |-> c[i] - reserved[i]]
  /\ extra = FairAllocations(left, rest - SumFunction(reserved))
  /\ both = [i \in N |-> reserved[i] + extra[i]]

LEMMA ReservedThenRest ==
  ASSUME NEW N, Indices(N), NEW c \in [N -> Nat], NEW reserve \in Nat, NEW rest \in Nat,
         NEW base, NEW reserved, NEW left, NEW extra, NEW both,
         Rounds(N, c, reserve, rest, base, reserved, left, extra, both)
  PROVE  both \in [N -> Nat] /\ IsFair(c, rest, both)
<1>0. /\ base = [i \in N |-> Lesser(c[i], reserve)]
      /\ reserved = FairAllocations(base, rest)
      /\ left = [i \in N |-> c[i] - reserved[i]]
      /\ extra = FairAllocations(left, rest - SumFunction(reserved))
      /\ both = [i \in N |-> reserved[i] + extra[i]]
  BY DEF Rounds
<1>1. IsFiniteSet(N)
  BY IndicesAreFinite
<1>2. \A i \in N : base[i] = IF c[i] <= reserve THEN c[i] ELSE reserve
  <2>1. ASSUME NEW i \in N PROVE Lesser(c[i], reserve) = IF c[i] <= reserve THEN c[i] ELSE reserve
    BY LesserIsLesser
  <2> QED BY <1>0, <2>1
<1>3. base \in [N -> Nat]
  <2>1. \A i \in N : base[i] \in Nat
    BY <1>2
  <2> QED BY <1>0, <2>1
<1>4. /\ reserved \in [N -> Nat] /\ IsFair(base, rest, reserved)
      /\ \A i \in N : reserved[i] <= base[i]
      /\ SumFunctionOnSet(reserved, N) \in Nat /\ SumFunctionOnSet(reserved, N) <= rest
  BY <1>0, <1>3, FairlyAllocated
<1>5. DOMAIN reserved = N
  BY <1>4
<1>6. SumFunction(reserved) = SumFunctionOnSet(reserved, N)
  BY <1>5 DEF SumFunction
<1>7. rest - SumFunctionOnSet(reserved, N) \in Nat
  BY <1>4
<1>8. \A i \in N : left[i] = c[i] - reserved[i]
  BY <1>0
<1>9. left \in [N -> Nat]
  <2>1. ASSUME NEW i \in N PROVE c[i] - reserved[i] \in Nat
    <3>1. c[i] \in Nat /\ reserved[i] \in Nat /\ reserved[i] <= base[i]
          /\ base[i] = IF c[i] <= reserve THEN c[i] ELSE reserve
      BY <1>2, <1>4
    <3> QED BY <3>1
  <2>2. \A i \in N : left[i] \in Nat
    BY <1>8, <2>1
  <2> QED BY <1>0, <2>2
<1>10. extra = FairAllocations(left, rest - SumFunctionOnSet(reserved, N))
  BY <1>0, <1>6
<1>11. extra \in [N -> Nat] /\ IsFair(left, rest - SumFunctionOnSet(reserved, N), extra)
  BY <1>7, <1>9, <1>10, FairlyAllocated
<1>12. \A i \in N : both[i] = reserved[i] + extra[i]
  BY <1>0
<1>13. both \in [N -> Nat]
  <2>1. \A i \in N : both[i] \in Nat
    BY <1>4, <1>11, <1>12
  <2> QED BY <1>0, <2>1
<1>14. TwoRounds(N, c, reserve, base, rest, reserved, left, extra, both)
  BY <1>2, <1>3, <1>4, <1>8, <1>9, <1>11, <1>12, <1>13 DEF TwoRounds
<1>15. IsFair(c, rest, both)
  BY <1>1, <1>14, TwoRoundsAreOne
<1> QED BY <1>13, <1>15

LEMMA SectionsAreDividedFairly ==
  ASSUME NEW sections \in Seq(Section), NEW budget \in Nat
  PROVE  /\ SectionAllocations(sections, budget) \in [DOMAIN sections -> Nat]
         /\ DividesFairly(sections, budget, SectionAllocations(sections, budget))
<1> DEFINE N == DOMAIN sections
           M == Manifests(sections)
           manifest == ManifestTotal(sections)
           rest == budget - manifest
           shares == SectionAllocations(sections, budget)
<1>1. Indices(N) /\ IsFiniteSet(N)
  <2>1. Indices(N)
    BY DEF Indices
  <2> QED BY <2>1, IndicesAreFinite
<1>2. \A i \in N : /\ sections[i].manifest \in BOOLEAN
                   /\ sections[i].length \in Nat
                   /\ Flexible(sections, i) \in Nat
  BY SectionsAreTyped
<1> HIDE DEF N
<1>3. /\ M = {i \in N : sections[i].manifest}
      /\ Lengths(sections) = [i \in N |-> sections[i].length]
  BY DEF Manifests, Lengths, N
<1>4. manifest \in Nat
  <2>1. M \in SUBSET N
    BY <1>3
  <2>2. IsFiniteSet(M)
    BY <1>1, <2>1, FS_Subset
  <2>3. \A i \in M : Lengths(sections)[i] \in Nat
    BY <1>2, <1>3, <2>1
  <2> HIDE DEF M
  <2> QED BY <2>2, <2>3, SumIsNat DEF ManifestTotal, M
<1> HIDE DEF M, manifest
<1>5. CASE ~ manifest <= budget
  <2>1. shares = FairAllocations(Lengths(sections), budget)
    <3>1. rest < 0
      BY <1>4, <1>5
    <3> QED BY <3>1 DEF SectionAllocations, manifest
  <2>2. Lengths(sections) \in [N -> Nat]
    BY <1>2, <1>3
  <2> HIDE DEF shares
  <2>3. shares \in [N -> Nat] /\ IsFair(Lengths(sections), budget, shares)
    BY <1>1, <2>1, <2>2, FairlyAllocated
  <2> QED BY <1>5, <2>3 DEF DividesFairly, manifest, shares, N
<1>6. CASE manifest <= budget
  <2> DEFINE flexible == [i \in N |-> Flexible(sections, i)]
             base == [i \in N |-> Lesser(Flexible(sections, i), SampleReserve)]
             reserved == FairAllocations(base, rest)
             left == [i \in N |-> Flexible(sections, i) - reserved[i]]
             extra == FairAllocations(left, rest - SumFunction(reserved))
             both == [i \in N |-> reserved[i] + extra[i]]
  <2>1. rest \in Nat /\ ~ rest < 0
    BY <1>4, <1>6
  <2>2. SampleReserve \in Nat
    BY SharesAssumption
  <2>3. flexible \in [N -> Nat] /\ \A i \in N : flexible[i] = Flexible(sections, i)
    BY <1>2
  <2>4. shares = [i \in N |-> IF sections[i].manifest THEN sections[i].length
                              ELSE reserved[i] + extra[i]]
    BY <2>1 DEF SectionAllocations, manifest, N
  <2> HIDE DEF flexible
  <2>5. /\ base = [i \in N |-> Lesser(flexible[i], SampleReserve)]
        /\ left = [i \in N |-> flexible[i] - reserved[i]]
    BY <2>3
  <2> HIDE DEF base, rest, reserved, left, extra
  <2>6. reserved = FairAllocations(base, rest)
    BY DEF reserved
  <2>7. extra = FairAllocations(left, rest - SumFunction(reserved))
    BY DEF extra
  <2>8. both = [i \in N |-> reserved[i] + extra[i]]
    OBVIOUS
  <2> HIDE DEF both, shares
  <2>9. both \in [N -> Nat] /\ IsFair(flexible, rest, both)
    <3>1. Rounds(N, flexible, SampleReserve, rest, base, reserved, left, extra, both)
      BY <2>5, <2>6, <2>7, <2>8 DEF Rounds
    <3> QED BY <1>1, <2>1, <2>2, <2>3, <3>1, ReservedThenRest
  <2>10. both = [i \in N |-> IF sections[i].manifest THEN 0 ELSE shares[i]]
    <3>1. ASSUME NEW i \in N, sections[i].manifest PROVE both[i] = 0
      <4>1. flexible[i] = 0
        BY <2>3, <3>1 DEF Flexible
      <4>2. both[i] \in Nat /\ both[i] <= flexible[i]
        <5>1. DOMAIN flexible = N
          BY <2>3
        <5> QED BY <2>9, <5>1 DEF IsFair
      <4> QED BY <4>1, <4>2
    <3>2. ASSUME NEW i \in N, ~ sections[i].manifest PROVE both[i] = shares[i]
      BY <2>4, <2>8, <3>2
    <3>3. both = [i \in N |-> both[i]]
      BY <2>9
    <3> QED BY <3>1, <3>2, <3>3
  <2>11. \A i \in M : shares[i] = sections[i].length
    BY <1>3, <2>4
  <2>12. shares \in [N -> Nat]
    <3>1. ASSUME NEW i \in N PROVE shares[i] \in Nat
      <4>1. CASE sections[i].manifest
        BY <1>2, <2>4, <4>1
      <4>2. CASE ~ sections[i].manifest
        <5>1. shares[i] = both[i]
          BY <2>4, <2>8, <4>2
        <5> QED BY <2>9, <5>1
      <4> QED BY <4>1, <4>2
    <3>2. DOMAIN shares = N
      BY <2>4
    <3> QED BY <2>4, <3>1, <3>2
  <2>13. flexible = [i \in DOMAIN sections |-> Flexible(sections, i)]
         /\ both = [i \in DOMAIN sections |-> IF sections[i].manifest THEN 0 ELSE shares[i]]
    BY <2>10 DEF flexible, N
  <2> QED BY <1>6, <2>9, <2>11, <2>12, <2>13
         DEF DividesFairly, manifest, rest, M, N, shares
<1> QED BY <1>5, <1>6

-----------------------------------------------------------------------------
(* What is cut fits (_clip_child_section, _clip_section).                  *)

(* A payload with its line end; joined to a status it takes both's.        *)
LEMMA CapacityOfJoined ==
  ASSUME NEW s \in Nat, NEW n \in Nat
  PROVE  /\ Joined(s, n) \in Nat /\ Capacity(s) \in Nat /\ Capacity(n) \in Nat
         /\ Capacity(Joined(s, n)) = Capacity(s) + Capacity(n)
BY DEF Capacity, Joined

LEMMA PrefixFits ==
  ASSUME NEW payload \in Nat, NEW allocation \in Nat, NEW n \in PayloadPrefix(payload, allocation)
  PROVE  n \in Nat /\ Capacity(n) <= allocation
<1>1. LookBack \in Nat
  BY SharesAssumption
<1>2. CASE payload = 0 \/ allocation <= 1
  <2>1. n = 0
    BY <1>2 DEF PayloadPrefix
  <2> QED BY <2>1 DEF Capacity
<1>3. CASE ~(payload = 0 \/ allocation <= 1)
  <2> DEFINE kept == Lesser(payload, allocation - 1)
             from == Greater(0, allocation - 1 - LookBack)
  <2>1. kept \in Nat /\ kept <= allocation - 1
    <3>1. allocation - 1 \in Nat /\ payload \in Int /\ allocation - 1 \in Int
      BY <1>3
    <3>2. kept = IF payload <= allocation - 1 THEN payload ELSE allocation - 1
      BY <3>1, LesserIsLesser
    <3> QED BY <3>1, <3>2
  <2>2. from \in Nat
    <3>1. allocation - 1 - LookBack \in Int /\ 0 \in Int
      BY <1>1
    <3>2. from = IF 0 >= allocation - 1 - LookBack THEN 0 ELSE allocation - 1 - LookBack
      BY <3>1, GreaterIsGreater
    <3> QED BY <3>1, <3>2
  <2>3. n \in {kept} \cup (from .. kept - 1)
    BY <1>3 DEF PayloadPrefix
  <2> HIDE DEF kept, from
  <2>4. n \in Nat /\ n <= allocation - 1
    BY <2>1, <2>2, <2>3
  <2> QED BY <2>4 DEF Capacity
<1> QED BY <1>2, <1>3

(* The headings, and a capacity for each payload.                          *)
FirstIndices(N, n) == N = 1 .. n

Takes(N, p, each) ==
  p \in [N -> Nat] /\ each \in [N -> Nat] /\ \A i \in N : each[i] = Capacity(p[i])

LEMMA RenderedIs ==
  ASSUME NEW section \in Section, NEW n \in 0 .. Len(section.blocks),
         NEW N, FirstIndices(N, n), NEW p, NEW each, Takes(N, p, each)
  PROVE  /\ Headings(section, n) \in Nat
         /\ Rendered(section, p) = Headings(section, n) + SumFunctionOnSet(each, N)
<1> DEFINE zero == [i \in N |-> 0]
           omitted == IF n < Len(section.blocks) THEN 2 + OmissionLine ELSE 0
           block(q) == [i \in N |-> 2 + section.blocks[i].heading
                                      + (IF q[i] > 0 THEN 1 + q[i] ELSE 0)]
<1>0. p \in [N -> Nat] /\ each \in [N -> Nat] /\ \A i \in N : each[i] = Capacity(p[i])
  BY DEF Takes
<1>1. N = 1 .. n /\ IsFiniteSet(N) /\ n \in Nat
  BY FS_Interval DEF FirstIndices
<1>2. section.prefix \in Nat /\ section.blocks \in Seq(ChildBlock)
  BY DEF Section
<1>3. \A i \in N : section.blocks[i].heading \in Nat
  <2>1. N \subseteq DOMAIN section.blocks
    BY <1>1, <1>2
  <2>2. \A i \in N : section.blocks[i] \in ChildBlock
    BY <1>2, <2>1
  <2> QED BY <2>2 DEF ChildBlock
<1>4. omitted \in Nat
  <2>1. OmissionLine \in Nat
    BY SharesAssumption
  <2> QED BY <2>1
<1>5. ASSUME NEW q \in [N -> Nat]
      PROVE  Rendered(section, q) = section.prefix + SumFunctionOnSet(block(q), N) + omitted
  <2>1. DOMAIN q = N /\ Len(q) = n
    BY <1>1, LenOf
  <2>2. DOMAIN block(q) = N
    OBVIOUS
  <2> QED BY <2>1, <2>2 DEF Rendered, SumFunction
<1>6. Headings(section, n) = Rendered(section, zero)
  BY <1>1 DEF Headings
<1>7. zero \in [N -> Nat] /\ \A i \in N : zero[i] = 0
  OBVIOUS
<1>8. \A i \in N : /\ block(zero)[i] = 2 + section.blocks[i].heading
                   /\ block(p)[i] = block(zero)[i] + each[i]
                   /\ block(zero)[i] \in Nat /\ each[i] \in Nat
  <2>1. ASSUME NEW i \in N
        PROVE  /\ block(zero)[i] = 2 + section.blocks[i].heading
               /\ block(p)[i] = block(zero)[i] + each[i]
               /\ block(zero)[i] \in Nat /\ each[i] \in Nat
    <3>1. p[i] \in Nat /\ zero[i] = 0 /\ section.blocks[i].heading \in Nat /\ each[i] \in Nat
      BY <1>0, <1>3, <1>7
    <3>2. each[i] = IF p[i] > 0 THEN 1 + p[i] ELSE 0
      <4>1. each[i] = Capacity(p[i])
        BY <1>0
      <4> QED BY <3>1, <4>1 DEF Capacity
    <3>3. /\ block(p)[i] = 2 + section.blocks[i].heading + (IF p[i] > 0 THEN 1 + p[i] ELSE 0)
          /\ block(zero)[i] = 2 + section.blocks[i].heading + (IF zero[i] > 0 THEN 1 + zero[i] ELSE 0)
      OBVIOUS
    <3> HIDE DEF block
    <3>4. block(zero)[i] = 2 + section.blocks[i].heading
      BY <3>1, <3>3
    <3>5. block(p)[i] = 2 + section.blocks[i].heading + each[i]
      BY <3>1, <3>2, <3>3
    <3> QED BY <3>1, <3>4, <3>5
  <2> QED BY <2>1
<1>9. /\ Rendered(section, zero) = section.prefix + SumFunctionOnSet(block(zero), N) + omitted
      /\ Rendered(section, p) = section.prefix + SumFunctionOnSet(block(p), N) + omitted
  BY <1>0, <1>5, <1>7
<1> HIDE DEF zero, block, omitted
<1>10. SumFunctionOnSet(block(p), N)
         = SumFunctionOnSet(block(zero), N) + SumFunctionOnSet(each, N)
  <2>1. \A i \in N : block(zero)[i] \in Int /\ each[i] \in Int
                     /\ block(p)[i] = block(zero)[i] + each[i]
    BY <1>8
  <2> QED BY <1>1, <2>1, SumOfTwo
<1>11. SumFunctionOnSet(block(zero), N) \in Nat /\ SumFunctionOnSet(each, N) \in Nat
  BY <1>1, <1>8, SumIsNat
<1> QED BY <1>2, <1>4, <1>6, <1>9, <1>10, <1>11

(* Whatever prefixes are chosen, the children fit.                         *)
LEMMA ChildrenFit ==
  ASSUME NEW section \in Section, NEW available \in Nat,
         NEW n \in Shown(section, available), NEW q, q = [i \in 1 .. n |-> q[i]],
         \A i \in 1 .. n : q[i] \in Payloads(section, n, available)[i]
  PROVE  Rendered(section, q) \in Nat /\ Rendered(section, q) <= available
<1> DEFINE N == 1 .. n
           blocks == SubSeq(section.blocks, 1, n)
           status == [i \in N |-> blocks[i].status]
           whole == [i \in N |-> Joined(blocks[i].status, blocks[i].body)]
           wants == [i \in N |-> Capacity(blocks[i].body)]
           wantsAll == [i \in N |-> Capacity(whole[i])]
           bodies == FairAllocations(wants, available - Rendered(section, status))
           shares == FairAllocations(wantsAll, available - Headings(section, n))
           each == [i \in N |-> Capacity(q[i])]
           lines == [i \in N |-> Capacity(status[i])]
           room == available - Headings(section, n)
<1>1. n \in 0 .. Len(section.blocks) /\ Headings(section, n) <= available
  BY DEF Shown
<1>2. /\ section.blocks \in Seq(ChildBlock) /\ n \in Nat
      /\ Indices(N) /\ FirstIndices(N, n) /\ IsFiniteSet(N)
  <2>1. section.blocks \in Seq(ChildBlock) /\ n \in Nat
    BY <1>1 DEF Section
  <2>2. Indices(N) /\ FirstIndices(N, n)
    BY <2>1 DEF Indices, FirstIndices
  <2>3. IsFiniteSet(N)
    BY <2>2, IndicesAreFinite
  <2> QED BY <2>1, <2>2, <2>3
<1>3. \A i \in N : blocks[i].status \in Nat /\ blocks[i].body \in Nat
  <2>1. ASSUME NEW i \in N PROVE blocks[i] = section.blocks[i] /\ section.blocks[i] \in ChildBlock
    <3>1. i \in DOMAIN section.blocks /\ i \in Nat /\ i >= 1 /\ i <= n /\ n <= Len(section.blocks)
      BY <1>1, <1>2
    <3> QED BY <1>1, <1>2, <3>1
  <2> QED BY <2>1 DEF ChildBlock
<1> HIDE DEF blocks
<1>4. \A i \in N : /\ status[i] = blocks[i].status /\ status[i] \in Nat
                   /\ whole[i] = Joined(blocks[i].status, blocks[i].body)
                   /\ whole[i] \in Nat
  BY <1>3, CapacityOfJoined
<1>5. /\ \A i \in N : wants[i] \in Nat
      /\ \A i \in N : wantsAll[i] \in Nat
      /\ \A i \in N : lines[i] = Capacity(status[i]) /\ lines[i] \in Nat
      /\ \A i \in N : each[i] = Capacity(q[i])
  <2>1. \A k \in Nat : Capacity(k) \in Nat
    BY CapacityOfJoined
  <2> QED BY <1>3, <1>4, <2>1
<1>6. /\ wants \in [N -> Nat] /\ wantsAll \in [N -> Nat] /\ lines \in [N -> Nat]
      /\ status \in [N -> Nat] /\ q = [i \in N |-> q[i]] /\ each = [i \in N |-> each[i]]
  BY <1>4, <1>5
<1>7. \A i \in N : q[i] \in IF Rendered(section, status) <= available
                            THEN {Joined(status[i], k) : k \in PayloadPrefix(blocks[i].body, bodies[i])}
                            ELSE PayloadPrefix(whole[i], shares[i])
  BY DEF Payloads, blocks
<1> HIDE DEF N, status, whole, wants, wantsAll, lines, each
<1>8. /\ Headings(section, n) \in Nat
      /\ Rendered(section, status) = Headings(section, n) + SumFunctionOnSet(lines, N)
  <2>1. Takes(N, status, lines)
    BY <1>5, <1>6 DEF Takes
  <2> QED BY <1>1, <1>2, <2>1, RenderedIs
<1>9. SumFunctionOnSet(lines, N) \in Nat
  BY <1>2, <1>5, SumIsNat
<1>10. \E most \in [N -> Nat] :
         /\ \A i \in N : q[i] \in Nat /\ Capacity(q[i]) <= most[i]
         /\ SumFunctionOnSet(most, N) <= room
  <2>1. CASE Rendered(section, status) <= available
    <3>1. available - Rendered(section, status) \in Nat
      BY <1>8, <1>9, <2>1
    <3>2. /\ bodies \in [N -> Nat] /\ SumFunctionOnSet(bodies, N) \in Nat
          /\ SumFunctionOnSet(bodies, N) <= available - Rendered(section, status)
      BY <1>2, <1>6, <3>1, FairlyAllocated
    <3> DEFINE both == [i \in N |-> lines[i] + bodies[i]]
    <3> HIDE DEF bodies
    <3>3. ASSUME NEW i \in N PROVE q[i] \in Nat /\ Capacity(q[i]) <= lines[i] + bodies[i]
      <4>1. PICK k \in PayloadPrefix(blocks[i].body, bodies[i]) : q[i] = Joined(status[i], k)
        BY <1>7, <2>1
      <4>2. blocks[i].body \in Nat /\ bodies[i] \in Nat /\ status[i] \in Nat
        BY <1>3, <1>4, <3>2
      <4>3. k \in Nat /\ Capacity(k) <= bodies[i]
        BY <4>2, PrefixFits
      <4>4. /\ q[i] \in Nat /\ Capacity(q[i]) = Capacity(status[i]) + Capacity(k)
            /\ Capacity(k) \in Nat
        BY <4>1, <4>2, <4>3, CapacityOfJoined
      <4>5. Capacity(q[i]) = lines[i] + Capacity(k) /\ lines[i] \in Nat
        BY <1>5, <4>4
      <4> QED BY <4>2, <4>3, <4>4, <4>5
    <3>4. \A i \in N : lines[i] \in Int /\ bodies[i] \in Int /\ both[i] = lines[i] + bodies[i]
                       /\ both[i] \in Nat
      BY <1>5, <3>2
    <3>5. both \in [N -> Nat]
      BY <3>4
    <3> HIDE DEF both
    <3>6. SumFunctionOnSet(both, N) = SumFunctionOnSet(lines, N) + SumFunctionOnSet(bodies, N)
      BY <1>2, <3>4, SumOfTwo
    <3>7. SumFunctionOnSet(both, N) <= room
      BY <1>8, <1>9, <3>2, <3>6
    <3>8. \A i \in N : q[i] \in Nat /\ Capacity(q[i]) <= both[i]
      BY <3>3, <3>4
    <3> QED BY <3>5, <3>7, <3>8
  <2>2. CASE ~ Rendered(section, status) <= available
    <3>1. room \in Nat
      BY <1>1, <1>8
    <3>2. shares \in [N -> Nat] /\ SumFunctionOnSet(shares, N) <= room
      BY <1>2, <1>6, <3>1, FairlyAllocated
    <3> HIDE DEF shares
    <3>3. ASSUME NEW i \in N PROVE q[i] \in Nat /\ Capacity(q[i]) <= shares[i]
      <4>1. q[i] \in PayloadPrefix(whole[i], shares[i])
        BY <1>7, <2>2
      <4>2. whole[i] \in Nat /\ shares[i] \in Nat
        BY <1>4, <3>2
      <4> QED BY <4>1, <4>2, PrefixFits
    <3> QED BY <3>2, <3>3
  <2> QED BY <2>1, <2>2
<1> HIDE DEF room
<1>11. PICK most \in [N -> Nat] :
         /\ \A i \in N : q[i] \in Nat /\ Capacity(q[i]) <= most[i]
         /\ SumFunctionOnSet(most, N) <= room
  BY <1>10
<1>12. \A i \in N : each[i] \in Nat /\ most[i] \in Nat /\ each[i] <= most[i]
  <2>1. \A k \in Nat : Capacity(k) \in Nat
    BY CapacityOfJoined
  <2> QED BY <1>5, <1>11, <2>1
<1>13. Rendered(section, q) = Headings(section, n) + SumFunctionOnSet(each, N)
  <2>1. q \in [N -> Nat] /\ each \in [N -> Nat]
    BY <1>6, <1>11, <1>12
  <2>2. Takes(N, q, each)
    BY <1>5, <2>1 DEF Takes
  <2> QED BY <1>1, <1>2, <2>2, RenderedIs
<1>14. SumFunctionOnSet(each, N) <= SumFunctionOnSet(most, N)
  <2>1. \A i \in N : each[i] \in Int /\ most[i] \in Int /\ each[i] <= most[i]
    BY <1>12
  <2> QED BY <1>2, <2>1, SumOfLess
<1>15. SumFunctionOnSet(each, N) \in Nat /\ SumFunctionOnSet(most, N) \in Nat
  BY <1>2, <1>12, SumIsNat
<1> QED BY <1>8, <1>11, <1>13, <1>14, <1>15 DEF room

(* A section that is cut takes no more than its share.                     *)
LEMMA ClippedFits ==
  ASSUME NEW section \in Section, NEW budget \in Nat, NEW x \in Clipped(section, budget)
  PROVE  x \in Int /\ x <= budget
<1>1. /\ section.length \in Nat /\ section.heading \in Nat /\ SectionMarker \in Nat
      /\ FallbackMarker \in Nat /\ LookBack \in Nat
  BY SharesAssumption DEF Section
<1>2. CASE section.length <= budget
  <2>1. x = section.length
    BY <1>2 DEF Clipped
  <2> QED BY <1>1, <1>2, <2>1
<1>3. CASE ~ section.length <= budget /\ budget <= 0
  <2>1. x = 0
    BY <1>3 DEF Clipped
  <2> QED BY <2>1
<1>4. CASE /\ ~ section.length <= budget /\ ~ budget <= 0
           /\ budget <= section.heading + SectionMarker
  <2>1. x = Lesser(budget, section.heading + FallbackMarker)
    BY <1>4 DEF Clipped
  <2>2. section.heading + FallbackMarker \in Int /\ budget \in Int
    BY <1>1
  <2>3. x = IF budget <= section.heading + FallbackMarker THEN budget
            ELSE section.heading + FallbackMarker
    BY <2>1, <2>2, LesserIsLesser
  <2> QED BY <2>2, <2>3
<1>5. CASE /\ ~ section.length <= budget /\ ~ budget <= 0
           /\ ~ budget <= section.heading + SectionMarker
  <2> DEFINE available == budget - SectionMarker
             children == IF section.blocks = <<>> THEN {}
                         ELSE ClippedChildren(section, available)
  <2>1. available \in Nat
    BY <1>1, <1>5
  <2>2. PICK m \in IF children # {} THEN children ELSE ClippedPrefix(section, available) :
          x = m + SectionMarker
    BY <1>5 DEF Clipped
  <2>3. CASE children # {}
    <3>1. m \in ClippedChildren(section, available)
      BY <2>2, <2>3
    <3> HIDE DEF children, available
    <3>2. PICK n \in Shown(section, available) :
            m \in LET may == Payloads(section, n, available)
                  IN  {Rendered(section, p) :
                         p \in {q \in [1 .. n -> UNION {may[i] : i \in 1 .. n}] :
                                  \A i \in 1 .. n : q[i] \in may[i]}}
      BY <3>1, Zenon DEF ClippedChildren
    <3>3. PICK q : /\ m = Rendered(section, q) /\ q = [i \in 1 .. n |-> q[i]]
                   /\ \A i \in 1 .. n : q[i] \in Payloads(section, n, available)[i]
      BY <3>2
    <3>4. m \in Nat /\ m <= available
      BY <2>1, <3>3, ChildrenFit
    <3> QED BY <1>1, <2>2, <3>4 DEF available
  <2>4. CASE ~ children # {}
    <3>1. m \in {available} \cup (Greater(section.heading, available - LookBack) .. available - 1)
      BY <2>2, <2>4 DEF ClippedPrefix
    <3> HIDE DEF children, available
    <3>2. available - LookBack \in Int /\ section.heading \in Int
      BY <1>1, <2>1
    <3>3. Greater(section.heading, available - LookBack) \in Int
      BY <3>2, GreaterIsGreater
    <3>4. m \in Int /\ m <= available
      BY <2>1, <3>1, <3>3
    <3> QED BY <1>1, <2>2, <3>4 DEF available
  <2> QED BY <2>3, <2>4
<1> QED BY <1>2, <1>3, <1>4, <1>5

(* The shares are no more than there is.                                   *)
LEMMA SharesAreWithin ==
  ASSUME NEW sections \in Seq(Section), NEW budget \in Nat
  PROVE  /\ SectionAllocations(sections, budget) \in [DOMAIN sections -> Nat]
         /\ SumFunctionOnSet(SectionAllocations(sections, budget), DOMAIN sections) <= budget
<1> DEFINE N == DOMAIN sections
           shares == SectionAllocations(sections, budget)
<1>1. shares \in [N -> Nat] /\ DividesFairly(sections, budget, shares)
  BY SectionsAreDividedFairly
<1>2. IsFiniteSet(N)
  <2>1. Indices(N)
    BY DEF Indices
  <2> QED BY <2>1, IndicesAreFinite
<1> HIDE DEF shares
<1> DEFINE M == Manifests(sections)
           manifest == ManifestTotal(sections)
           flexible == [i \in N |-> Flexible(sections, i)]
           others == [i \in N |-> IF sections[i].manifest THEN 0 ELSE shares[i]]
<1>3. \A i \in N : sections[i].manifest \in BOOLEAN /\ sections[i].length \in Nat
                   /\ Flexible(sections, i) \in Nat
  BY SectionsAreTyped
<1>4. /\ M = {i \in N : sections[i].manifest}
      /\ Lengths(sections) = [i \in N |-> sections[i].length]
  BY DEF Manifests, Lengths
<1>5. \A i \in N : flexible[i] \in Int /\ others[i] \in Nat
  BY <1>1, <1>3
<1> SUFFICES SumFunctionOnSet(shares, N) <= budget
  BY <1>1 DEF shares
<1>6. CASE manifest <= budget
  <2>1. (\A i \in M : shares[i] = sections[i].length) /\ IsFair(flexible, budget - manifest, others)
    BY <1>1, <1>6 DEF DividesFairly
  <2> HIDE DEF M, manifest, flexible
  <2>2. SumFunctionOnSet(flexible, N) \in Int
    BY <1>2, <1>5, SumIsInt
  <2>3. M \in SUBSET N /\ N \ M \in SUBSET N /\ IsFiniteSet(M) /\ IsFiniteSet(N \ M)
    <3>1. M \in SUBSET N /\ N \ M \in SUBSET N
      BY <1>4
    <3> QED BY <1>2, <3>1, FS_Subset
  <2>4. manifest \in Int /\ manifest = SumFunctionOnSet(shares, M)
    <3>1. \A i \in M : Lengths(sections)[i] \in Int /\ Lengths(sections)[i] = shares[i]
      BY <1>3, <1>4, <2>1, <2>3
    <3>2. SumFunctionOnSet(Lengths(sections), M) \in Int
      BY <2>3, <3>1, SumIsInt
    <3>3. SumFunctionOnSet(Lengths(sections), M) = SumFunctionOnSet(shares, M)
      BY <2>3, <3>1, SumOfSame
    <3> QED BY <3>2, <3>3 DEF manifest, ManifestTotal, M
  <2>5. SumFunctionOnSet(others, N) <= budget - manifest
    <3>1. DOMAIN others = N /\ DOMAIN flexible = N
      BY DEF flexible
    <3>2. SumFunctionOnSet(others, N) = Lesser(budget - manifest, SumFunctionOnSet(flexible, N))
      BY <2>1, <3>1 DEF IsFair, SumFunction
    <3>3. budget - manifest \in Int
      BY <2>4
    <3>4. SumFunctionOnSet(others, N) = IF budget - manifest <= SumFunctionOnSet(flexible, N)
                                        THEN budget - manifest ELSE SumFunctionOnSet(flexible, N)
      BY <2>2, <3>2, <3>3, LesserIsLesser
    <3> QED BY <2>2, <3>3, <3>4
  <2>6. /\ \A i \in N : others[i] \in Int /\ shares[i] \in Int
        /\ \A i \in M : others[i] = 0
        /\ \A i \in N \ M : others[i] \in Int /\ others[i] = shares[i]
    <3>1. \A i \in N : shares[i] \in Int
      BY <1>1
    <3>2. \A i \in M : others[i] = 0
      BY <1>4, <2>3
    <3>3. \A i \in N \ M : others[i] = shares[i]
      BY <1>3, <1>4
    <3> QED BY <1>5, <3>1, <3>2, <3>3
  <2> HIDE DEF others
  <2>7. SumFunctionOnSet(others, M) = 0
    <3>1. Cardinality(M) \in Nat /\ 0 \in Int
      BY <2>3, FS_CardinalityType
    <3>2. SumFunctionOnSet(others, M) = 0 * Cardinality(M)
      BY <2>3, <2>6, <3>1, SumOfEqual
    <3> QED BY <3>1, <3>2
  <2>8. SumFunctionOnSet(others, N \ M) = SumFunctionOnSet(shares, N \ M)
    BY <2>3, <2>6, SumOfSame
  <2>9. SumFunctionOnSet(others, N) = SumFunctionOnSet(others, M) + SumFunctionOnSet(others, N \ M)
    BY <1>2, <2>3, <2>6, SumOfParts
  <2>10. SumFunctionOnSet(shares, N) = SumFunctionOnSet(shares, M) + SumFunctionOnSet(shares, N \ M)
    BY <1>2, <2>3, <2>6, SumOfParts
  <2>11. SumFunctionOnSet(shares, N \ M) \in Int
    <3>1. \A i \in N \ M : shares[i] \in Int
      BY <2>6
    <3> QED BY <2>3, <3>1, SumIsInt
  <2> QED BY <1>1, <2>4, <2>5, <2>7, <2>8, <2>9, <2>10, <2>11
<1>7. CASE ~ manifest <= budget
  <2>1. IsFair(Lengths(sections), budget, shares)
    BY <1>1, <1>7 DEF DividesFairly
  <2>2. DOMAIN Lengths(sections) = N /\ DOMAIN shares = N
    BY <1>1, <1>4
  <2>3. SumFunctionOnSet(Lengths(sections), N) \in Int
    <3>1. \A i \in N : Lengths(sections)[i] \in Int
      BY <1>3, <1>4
    <3> QED BY <1>2, <3>1, SumIsInt
  <2>4. SumFunctionOnSet(shares, N) = Lesser(budget, SumFunctionOnSet(Lengths(sections), N))
    BY <2>1, <2>2 DEF IsFair, SumFunction
  <2>5. SumFunctionOnSet(shares, N)
          = IF budget <= SumFunctionOnSet(Lengths(sections), N) THEN budget
            ELSE SumFunctionOnSet(Lengths(sections), N)
    BY <2>3, <2>4, LesserIsLesser
  <2> QED BY <1>1, <2>3, <2>5
<1> QED BY <1>6, <1>7

-----------------------------------------------------------------------------
(* _clip_context: the sums of what the sections may take.                  *)

FoldsSums(g, may, n) ==
  g = [T \in SUBSET (1 .. n) |->
         IF T = {} THEN {ContextMarker} ELSE SumsOf(g[T \ {Max(T)}], may[Max(T)])]

LEMMA SumsAreChosen ==
  ASSUME NEW n \in Nat, NEW may, DOMAIN may = 1 .. n
  PROVE  Totals(may) = (CHOOSE g : FoldsSums(g, may, n))[1 .. n]
BY DEF Totals, FoldLeft, MapThenFoldSet, FoldsSums, SumsOf

(* Each of n sets has nothing above its bound: no sum is above the sum of  *)
(* the bounds.                                                             *)
LEMMA SumsAreWithin ==
  ASSUME NEW n \in Nat, NEW may, DOMAIN may = 1 .. n, NEW bound \in [1 .. n -> Nat],
         \A i \in 1 .. n : \A x \in may[i] : x \in Int /\ x <= bound[i],
         NEW g, g = (CHOOSE h : FoldsSums(h, may, n))
  PROVE  \A x \in g[1 .. n] :
           x \in Int /\ x <= ContextMarker + SumFunctionOnSet(bound, 1 .. n)
<1> DEFINE X == SUBSET Int
           F == [k \in 1 .. n |-> [s \in X |-> SumsOf(s, may[k])]]
           at(k) == g[1 .. k]
           sum(k) == SumFunctionOnSet(bound, 1 .. k)
<1>1. ContextMarker \in Nat
  BY SharesAssumption
<1>2. ASSUME NEW s \in X, NEW k \in 1 .. n PROVE SumsOf(s, may[k]) \in X
  BY <1>2 DEF SumsOf
<1>3. F \in [1 .. n -> [X -> X]]
  <2> HIDE DEF X
  <2> QED BY <1>2
<1>4. FoldsSums(g, may, n)
  <2>1. {ContextMarker} \in X
    BY <1>1
  <2>2. PICK h \in [SUBSET (1 .. n) -> X] : FoldsBy(h, {ContextMarker}, F, n)
    <3> HIDE DEF F, X
    <3> QED BY <1>3, <2>1, FoldExists
  <2>3. ASSUME NEW T \in SUBSET (1 .. n), T # {}
        PROVE  h[T] = SumsOf(h[T \ {Max(T)}], may[Max(T)])
    <3>1. Max(T) \in 1 .. n
      BY <2>3, MaxIsIn
    <3>2. T \ {Max(T)} \in SUBSET (1 .. n)
      OBVIOUS
    <3> HIDE DEF X
    <3>3. h[T \ {Max(T)}] \in X
      BY <2>2, <3>2
    <3> QED BY <2>2, <2>3, <3>1, <3>3 DEF FoldsBy
  <2>4. \A T \in SUBSET (1 .. n) :
          h[T] = IF T = {} THEN {ContextMarker} ELSE SumsOf(h[T \ {Max(T)}], may[Max(T)])
    BY <2>2, <2>3 DEF FoldsBy
  <2>5. h = [T \in SUBSET (1 .. n) |-> h[T]]
    BY <2>2
  <2>6. FoldsSums(h, may, n)
    BY <2>4, <2>5 DEF FoldsSums
  <2> QED BY <2>6
<1>5. at(0) = {ContextMarker}
  <2>1. 1 .. 0 = {} /\ 1 .. 0 \in SUBSET (1 .. n)
    BY SMT
  <2> QED BY <1>4, <2>1 DEF FoldsSums
<1>6. \A k \in 1 .. n : at(k) = SumsOf(at(k - 1), may[k])
  <2>1. SUFFICES ASSUME NEW k \in 1 .. n PROVE at(k) = SumsOf(at(k - 1), may[k])
    OBVIOUS
  <2>2. /\ 1 .. k \in SUBSET (1 .. n) /\ 1 .. k # {} /\ Max(1 .. k) = k
        /\ (1 .. k) \ {k} = 1 .. k - 1
    BY FoldSteps
  <2> QED BY <1>4, <2>2 DEF FoldsSums
<1>7. sum(0) = 0
  <2>1. 1 .. 0 = {}
    BY SMT
  <2> QED BY <2>1, SumOfNone
<1>8. \A k \in Nat : k + 1 <= n => sum(k + 1) = bound[k + 1] + sum(k) /\ sum(k) \in Int
  <2>1. SUFFICES ASSUME NEW k \in Nat, k + 1 <= n
                 PROVE  sum(k + 1) = bound[k + 1] + sum(k) /\ sum(k) \in Int
    OBVIOUS
  <2> DEFINE K == 1 .. k
  <2>2. IsFiniteSet(K) /\ k + 1 \notin K /\ \A i \in K \cup {k + 1} : bound[i] \in Int
    BY <2>1, FS_Interval
  <2>3. 1 .. k + 1 = K \cup {k + 1}
    BY SMT
  <2> HIDE DEF K
  <2>4. SumFunctionOnSet(bound, K \cup {k + 1}) = bound[k + 1] + SumFunctionOnSet(bound, K)
    BY <2>2, SumGrows
  <2>5. SumFunctionOnSet(bound, K) \in Int
    <3>1. \A i \in K : bound[i] \in Int
      BY <2>2
    <3> QED BY <2>2, <3>1, SumIsInt
  <2> QED BY <2>3, <2>4, <2>5, Zenon DEF K
<1> HIDE DEF at, sum
<1> DEFINE within(k) == \A x \in at(k) : x \in Int /\ x <= ContextMarker + sum(k)
           C == {k \in Nat : k <= n => within(k)}
<1>9. 0 \in C
  BY <1>1, <1>5, <1>7
<1>10. ASSUME NEW k \in Nat, k \in C PROVE k + 1 \in C
  <2>1. SUFFICES ASSUME k + 1 <= n, NEW x \in at(k + 1)
                 PROVE  x \in Int /\ x <= ContextMarker + sum(k + 1)
    BY <1>10
  <2>2. within(k) /\ k + 1 \in 1 .. n /\ k + 1 - 1 = k
    BY <1>10, <2>1
  <2>3. at(k + 1) = SumsOf(at(k), may[k + 1])
    BY <1>6, <2>2
  <2>4. PICK a \in at(k), b \in may[k + 1] : x = a + b
    BY <2>1, <2>3 DEF SumsOf
  <2>5. a \in Int /\ a <= ContextMarker + sum(k)
    BY <2>2
  <2>6. b \in Int /\ b <= bound[k + 1] /\ bound[k + 1] \in Int
    BY <2>2
  <2>7. sum(k + 1) = bound[k + 1] + sum(k) /\ sum(k) \in Int
    BY <1>8, <2>1
  <2> QED BY <1>1, <2>4, <2>5, <2>6, <2>7
<1> HIDE DEF C
<1>11. n \in C
  BY <1>9, <1>10, SetInduction
<1>12. within(n)
  <2>1. n <= n
    OBVIOUS
  <2> QED BY <1>11, <2>1 DEF C
<1> QED BY <1>12 DEF at, sum

LEMMA TotalsAreWithin ==
  ASSUME NEW n \in Nat, NEW N, FirstIndices(N, n), NEW may, DOMAIN may = N,
         NEW bound \in [N -> Nat], \A i \in N : \A x \in may[i] : x \in Int /\ x <= bound[i]
  PROVE  \A x \in Totals(may) : x \in Int /\ x <= ContextMarker + SumFunctionOnSet(bound, N)
<1>1. N = 1 .. n
  BY DEF FirstIndices
<1>2. Totals(may) = (CHOOSE g : FoldsSums(g, may, n))[1 .. n]
  BY <1>1, SumsAreChosen
<1> DEFINE g == CHOOSE h : FoldsSums(h, may, n)
<1>3. Totals(may) = g[1 .. n]
  BY <1>2
<1>4. \A x \in g[1 .. n] :
        x \in Int /\ x <= ContextMarker + SumFunctionOnSet(bound, 1 .. n)
  BY <1>1, SumsAreWithin
<1> HIDE DEF g
<1> QED BY <1>1, <1>3, <1>4

(* _clip_context keeps to any positive budget, and to none.                *)
LEMMA ContextIsWithin ==
  ASSUME NEW sections \in Seq(Section), NEW budget \in Nat, NEW x \in ContextLengths(sections, budget)
  PROVE  x <= budget
<1> DEFINE n == Len(sections)
           N == 1 .. n
           full == SumFunction(Lengths(sections))
           shares == SectionAllocations(sections, budget - ContextMarker)
           may == [i \in DOMAIN sections |-> Clipped(sections[i], shares[i])]
<1>1. ContextMarker \in Nat
  BY SharesAssumption
<1>2. CASE full <= budget
  <2>1. x = full
    BY <1>2 DEF ContextLengths
  <2> QED BY <1>2, <2>1
<1>3. CASE ~ full <= budget /\ budget <= ContextMarker
  <2>1. x = Lesser(budget, ContextMarker - 1)
    BY <1>3 DEF ContextLengths
  <2>2. budget \in Int /\ ContextMarker - 1 \in Int
    BY <1>1
  <2>3. x = IF budget <= ContextMarker - 1 THEN budget ELSE ContextMarker - 1
    BY <2>1, <2>2, LesserIsLesser
  <2> QED BY <2>2, <2>3
<1>4. CASE ~ full <= budget /\ ~ budget <= ContextMarker
  <2>1. budget - ContextMarker \in Nat
    BY <1>1, <1>4
  <2>2. n \in Nat /\ N = DOMAIN sections /\ FirstIndices(N, n) /\ IsFiniteSet(N)
    <3>1. Indices(N)
      BY DEF Indices
    <3> QED BY <3>1, IndicesAreFinite DEF FirstIndices
  <2>3. \A i \in N : sections[i] \in Section
    OBVIOUS
  <2> HIDE DEF N
  <2>4. shares \in [N -> Nat] /\ SumFunctionOnSet(shares, N) <= budget - ContextMarker
    BY <2>1, <2>2, SharesAreWithin
  <2>5. (\A i \in N : may[i] = Clipped(sections[i], shares[i])) /\ DOMAIN may = N
    BY <2>2
  <2>6. x \in Totals(may)
    BY <1>4 DEF ContextLengths
  <2> HIDE DEF shares, may
  <2>7. \A i \in N : \A y \in may[i] : y \in Int /\ y <= shares[i]
    <3>1. ASSUME NEW i \in N, NEW y \in may[i] PROVE y \in Int /\ y <= shares[i]
      <4>1. sections[i] \in Section /\ shares[i] \in Nat
        BY <2>3, <2>4
      <4> QED BY <2>5, <4>1, ClippedFits
    <3> QED BY <3>1
  <2>8. x \in Int /\ x <= ContextMarker + SumFunctionOnSet(shares, N)
    BY <2>2, <2>4, <2>5, <2>6, <2>7, TotalsAreWithin
  <2>9. SumFunctionOnSet(shares, N) \in Nat
    <3>1. \A i \in N : shares[i] \in Nat
      BY <2>4
    <3> QED BY <2>2, <3>1, SumIsNat
  <2> QED BY <1>1, <2>4, <2>8, <2>9
<1> QED BY <1>2, <1>3, <1>4

LEMMA DivisionsAreFair == EveryDivisionIsFair
BY SectionsAreDividedFairly, ContextsAssumption DEF EveryDivisionIsFair

LEMMA ContextsFit == EveryContextFits
BY ContextIsWithin, ContextsAssumption DEF EveryContextFits

(* _section_allocations divides any positive budget among any sections     *)
(* fairly: the manifest is whole where it fits, the rest of the budget is  *)
(* used up, and two rounds of filling make one.                            *)
THEOREM SharesStayFair == Spec => []SharesAreFair
<1>1. SharesAreFair
  BY DivisionsAreFair DEF SharesAreFair
<1> QED BY <1>1, PTL

(* _clip_context keeps to any positive budget, whatever the sections and   *)
(* their children are and wherever a text may be cut.                      *)
THEOREM ContextsStayWithin == Spec => []ContextFits
<1>1. ContextFits
  BY ContextsFit DEF ContextFits
<1> QED BY <1>1, PTL
=============================================================================
