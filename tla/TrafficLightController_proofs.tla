-------------------- MODULE TrafficLightController_proofs --------------------
(***************************************************************************)
(* Proofs about TrafficLightController, for every plan and every number of *)
(* buses.                                                                  *)
(***************************************************************************)
EXTENDS TrafficLightController, FiniteSetTheorems, WellFoundedInduction, TLAPS

(***************************************************************************)
(* Naturals.                                                               *)
(***************************************************************************)
(* A set of naturals that is not empty has a smallest element.             *)
LEMMA SmallestOfSet ==
  ASSUME NEW S, S \subseteq Nat, S # {}
  PROVE  \E i \in S : \A j \in S : i <= j
<1> DEFINE R == {p \in Nat \X Nat : p[1] < p[2]}
<1>1. IsWellFoundedOn(R, Nat)
  BY NatLessThanWellFounded DEF OpToRel
<1> HIDE DEF R
<1>2. PICK i \in S : \A j \in S : <<j, i>> \notin R
  BY <1>1, WFMin
<1>3. ASSUME NEW j \in S PROVE i <= j
  <2>1. <<j, i>> \in R <=> j < i
    BY DEF R
  <2> QED BY <1>2, <2>1
<1> QED BY <1>3

(* A set of naturals with 0 and every successor is the whole of Nat.         *)
LEMMA EveryNatural ==
  ASSUME NEW S \in SUBSET Nat, 0 \in S, \A n \in S : n + 1 \in S
  PROVE  S = Nat
<1> SUFFICES ASSUME Nat \ S # {} PROVE FALSE
  OBVIOUS
<1>1. PICK i \in Nat \ S : \A j \in Nat \ S : i <= j
  BY SmallestOfSet
<1>2. i # 0 /\ i - 1 \in Nat /\ i - 1 \notin Nat \ S
  BY <1>1
<1> QED
  BY <1>1, <1>2

(***************************************************************************)
(* Sums over finite sets: MapThenSumSet takes the elements in an order of  *)
(* its own, which does not matter.                                         *)
(***************************************************************************)
Pick(s) == CHOOSE x \in s : TRUE
SumBy(it, g, s) == IF s = {} THEN 0 ELSE g[Pick(s)] + it[s \ {Pick(s)}]

(* The function that a sum of g over S evaluates, and the sum itself.      *)
Summing(it, S, g) == it = [s \in SUBSET S |-> SumBy(it, g, s)]
IsSum(v, S, g) == \E it : Summing(it, S, g) /\ v = it[S]

(* Subsets of a finite set lose their elements one by one.                 *)
LEMMA SummingSets ==
  ASSUME NEW S, IsFiniteSet(S)
  PROVE  /\ \A s \in SUBSET S : IsFiniteSet(s) /\ Cardinality(s) \in Nat
         /\ \A s \in SUBSET S : s # {} => Pick(s) \in s
         /\ \A s \in SUBSET S : \A e \in s :
              s \ {e} \in SUBSET S /\ Cardinality(s \ {e}) = Cardinality(s) - 1
<1>1. \A s \in SUBSET S : IsFiniteSet(s) /\ Cardinality(s) \in Nat
  BY FS_Subset, FS_CardinalityType
<1>2. \A s \in SUBSET S : s # {} => Pick(s) \in s
  BY DEF Pick
<1>3. ASSUME NEW s \in SUBSET S, NEW e \in s
      PROVE  s \ {e} \in SUBSET S /\ Cardinality(s \ {e}) = Cardinality(s) - 1
  BY <1>1, FS_RemoveElement
<1> QED
  BY <1>1, <1>2, <1>3

(* The sum over the subsets of a finite set exists.                        *)
LEMMA SummingExists ==
  ASSUME NEW S, IsFiniteSet(S), NEW g
  PROVE  \E it : Summing(it, S, g)
<1> DEFINE Sized(k) == {s \in SUBSET S : Cardinality(s) <= k}
           Upto(it, k) == \A s \in Sized(k) : it[s] = SumBy(it, g, s)
           N == {k \in Nat : \E it : Upto(it, k)}
<1>1. /\ \A s \in SUBSET S : IsFiniteSet(s) /\ Cardinality(s) \in Nat
      /\ \A s \in SUBSET S : s # {} =>
           /\ s \ {Pick(s)} \in SUBSET S
           /\ Cardinality(s \ {Pick(s)}) = Cardinality(s) - 1
  BY SummingSets
<1>2. 0 \in N
  <2> DEFINE it == [s \in SUBSET S |-> 0]
  <2>1. \A s \in Sized(0) : s = {}
    BY <1>1, FS_EmptySet
  <2>2. Upto(it, 0)
    BY <2>1 DEF SumBy
  <2> HIDE DEF Upto, it
  <2> QED
    BY <2>2
<1>3. ASSUME NEW k \in N PROVE k + 1 \in N
  <2>1. PICK f : Upto(f, k)
    OBVIOUS
  <2> DEFINE h == [s \in Sized(k + 1) |-> SumBy(f, g, s)]
  <2>2. ASSUME NEW s \in Sized(k + 1) PROVE h[s] = SumBy(h, g, s)
    <3>1. CASE s = {}
      BY <3>1 DEF SumBy
    <3>2. CASE s # {}
      <4> DEFINE r == s \ {Pick(s)}
      <4>1. r \in Sized(k) /\ r \in Sized(k + 1)
        BY <1>1, <3>2
      <4>2. f[r] = SumBy(f, g, r)
        BY <2>1, <4>1
      <4>3. h[r] = SumBy(f, g, r)
        BY <4>1
      <4>4. h[s] = SumBy(f, g, s)
        OBVIOUS
      <4> HIDE DEF h
      <4> QED
        BY <3>2, <4>2, <4>3, <4>4 DEF SumBy
    <3> QED
      BY <3>1, <3>2
  <2> HIDE DEF h
  <2>3. Upto(h, k + 1)
    BY <2>2
  <2>4. k + 1 \in Nat
    OBVIOUS
  <2> HIDE DEF Upto
  <2> QED
    BY <2>3, <2>4
<1>4. Cardinality(S) \in N
  <2> HIDE DEF N
  <2>1. N \in SUBSET Nat
    BY DEF N
  <2>2. N = Nat
    BY <1>2, <1>3, <2>1, EveryNatural
  <2> QED
    BY <2>2, FS_CardinalityType
<1>5. PICK f : Upto(f, Cardinality(S))
  BY <1>4
<1>6. \A s \in SUBSET S : s \in Sized(Cardinality(S))
  BY FS_Subset
<1> DEFINE h == [s \in SUBSET S |-> f[s]]
<1>7. Summing(h, S, g)
  <2>1. ASSUME NEW s \in SUBSET S PROVE h[s] = SumBy(h, g, s)
    <3>1. f[s] = SumBy(f, g, s)
      BY <1>5, <1>6
    <3>2. s # {} => h[s \ {Pick(s)}] = f[s \ {Pick(s)}]
      BY <1>1
    <3>3. h[s] = f[s]
      OBVIOUS
    <3> HIDE DEF h
    <3> QED
      BY <3>1, <3>2, <3>3 DEF SumBy
  <2>2. h = [s \in SUBSET S |-> h[s]]
    OBVIOUS
  <2> HIDE DEF h
  <2> QED
    BY <2>1, <2>2 DEF Summing
<1> QED
  BY <1>7

AnyOrder(it, S, g) ==
  \A s \in SUBSET S : it[s] \in Int /\ \A e \in s : it[s] = g[e] + it[s \ {e}]

(* Whatever element is taken out of a set, its value is what the sum loses. *)
LEMMA SummingAnyOrder ==
  ASSUME NEW S, IsFiniteSet(S), NEW g, \A x \in S : g[x] \in Int,
         NEW it, Summing(it, S, g)
  PROVE  AnyOrder(it, S, g)
<1> DEFINE Sums(s) == it[s] \in Int /\ \A e \in s : it[s] = g[e] + it[s \ {e}]
           N == {k \in Nat : \A s \in SUBSET S : Cardinality(s) <= k => Sums(s)}
<1>1. /\ \A s \in SUBSET S : IsFiniteSet(s) /\ Cardinality(s) \in Nat
      /\ \A s \in SUBSET S : s # {} => Pick(s) \in s
      /\ \A s \in SUBSET S : \A e \in s :
           s \ {e} \in SUBSET S /\ Cardinality(s \ {e}) = Cardinality(s) - 1
  BY SummingSets
<1>2. \A s \in SUBSET S : it[s] = IF s = {} THEN 0 ELSE g[Pick(s)] + it[s \ {Pick(s)}]
  BY DEF Summing, SumBy
<1>3. 0 \in N
  <2>1. \A s \in SUBSET S : Cardinality(s) <= 0 => s = {}
    BY <1>1, FS_EmptySet
  <2>2. it[{}] = 0
    BY <1>2
  <2>3. \A s \in SUBSET S : s = {} => Sums(s)
    BY <2>2
  <2> HIDE DEF Sums
  <2> QED
    BY <2>1, <2>3
<1>4. ASSUME NEW k \in N PROVE k + 1 \in N
  <2> SUFFICES ASSUME NEW s \in SUBSET S, Cardinality(s) = k + 1 PROVE Sums(s)
    BY <1>1
  <2> DEFINE x == Pick(s)
  <2>1. s # {}
    <3>1. Cardinality({}) = 0
      BY FS_EmptySet
    <3> QED
      BY <3>1
  <2>2. x \in s /\ it[s] = g[x] + it[s \ {x}]
    BY <1>1, <1>2, <2>1
  <2> HIDE DEF x
  <2>3. \A e \in s : Sums(s \ {e})
    BY <1>1
  <2>4. it[s] \in Int
    BY <2>2, <2>3
  <2>5. ASSUME NEW e \in s, e # x PROVE it[s] = g[e] + it[s \ {e}]
    <3>1. it[s \ {x}] = g[e] + it[(s \ {x}) \ {e}]
      BY <2>2, <2>3, <2>5
    <3>2. it[s \ {e}] = g[x] + it[(s \ {e}) \ {x}]
      BY <2>2, <2>3, <2>5
    <3>3. (s \ {x}) \ {e} = (s \ {e}) \ {x}
      OBVIOUS
    <3>4. it[(s \ {x}) \ {e}] \in Int
      <4>1. s \ {x} \in SUBSET S /\ Cardinality(s \ {x}) = k /\ e \in s \ {x}
        BY <1>1, <2>2, <2>5
      <4> DEFINE r == s \ {x}
      <4>2. r \in SUBSET S /\ Cardinality(r) = k /\ e \in r
        BY <4>1
      <4> HIDE DEF r
      <4>3. r \ {e} \in SUBSET S /\ Cardinality(r \ {e}) = k - 1
        BY <1>1, <4>2
      <4> DEFINE q == r \ {e}
      <4>4. q \in SUBSET S /\ Cardinality(q) <= k
        BY <4>3
      <4> HIDE DEF q
      <4>5. it[q] \in Int
        BY <4>4
      <4> QED
        BY <4>5 DEF q, r
    <3>5. g[e] \in Int /\ g[x] \in Int
      BY <2>2
    <3> DEFINE a == it[(s \ {x}) \ {e}]
               ge == g[e]
               gx == g[x]
    <3>6. a \in Int /\ ge \in Int /\ gx \in Int
      BY <3>4, <3>5
    <3>7. it[s] = gx + (ge + a) /\ it[s \ {e}] = gx + a
      BY <2>2, <3>1, <3>2, <3>3
    <3> HIDE DEF a, ge, gx
    <3>8. gx + (ge + a) = ge + (gx + a)
      BY <3>6
    <3> QED
      BY <3>7, <3>8 DEF ge
  <2> QED
    BY <2>2, <2>4, <2>5
<1>5. N = Nat
  <2> HIDE DEF N
  <2>1. N \in SUBSET Nat
    BY DEF N
  <2> QED
    BY <1>3, <1>4, <2>1, EveryNatural
<1>6. \A s \in SUBSET S : Sums(s)
  BY <1>1, <1>5
<1> QED
  BY <1>6 DEF AnyOrder

(* The same values have the same sum, in a larger set as in a smaller one.  *)
LEMMA SummingAgrees ==
  ASSUME NEW S, IsFiniteSet(S), NEW T \in SUBSET S, NEW g, NEW h,
         \A x \in S : g[x] \in Int, \A x \in T : g[x] = h[x],
         NEW it, Summing(it, S, g), NEW jt, Summing(jt, T, h)
  PROVE  jt[T] = it[T]
<1> DEFINE N == {k \in Nat : \A s \in SUBSET T : Cardinality(s) <= k => jt[s] = it[s]}
<1>1. /\ \A s \in SUBSET S : IsFiniteSet(s) /\ Cardinality(s) \in Nat
      /\ \A s \in SUBSET S : s # {} => Pick(s) \in s
      /\ \A s \in SUBSET S : \A e \in s :
           s \ {e} \in SUBSET S /\ Cardinality(s \ {e}) = Cardinality(s) - 1
  BY SummingSets
<1>2. \A s \in SUBSET S : it[s] = IF s = {} THEN 0 ELSE g[Pick(s)] + it[s \ {Pick(s)}]
  BY DEF Summing, SumBy
<1>3. \A s \in SUBSET T : jt[s] = IF s = {} THEN 0 ELSE h[Pick(s)] + jt[s \ {Pick(s)}]
  BY DEF Summing, SumBy
<1>4. 0 \in N
  <2>1. \A s \in SUBSET T : Cardinality(s) <= 0 => s = {}
    BY <1>1, FS_EmptySet
  <2> QED
    BY <1>2, <1>3, <2>1
<1>5. ASSUME NEW k \in N PROVE k + 1 \in N
  <2> SUFFICES ASSUME NEW s \in SUBSET T, Cardinality(s) = k + 1 PROVE jt[s] = it[s]
    BY <1>1
  <2>0. k \in Nat
    OBVIOUS
  <2>1. s # {} /\ s \in SUBSET S
    <3>1. Cardinality({}) = 0
      BY FS_EmptySet
    <3>2. Cardinality(s) # 0
      BY <2>0
    <3> QED
      BY <3>1, <3>2
  <2>2. Pick(s) \in s /\ g[Pick(s)] = h[Pick(s)]
    BY <1>1, <2>1
  <2>3. s \ {Pick(s)} \in SUBSET T /\ Cardinality(s \ {Pick(s)}) <= k
    BY <1>1, <2>1, <2>2
  <2>4. jt[s \ {Pick(s)}] = it[s \ {Pick(s)}]
    BY <2>3
  <2> QED
    BY <1>2, <1>3, <2>1, <2>2, <2>4
<1>6. N = Nat
  <2> HIDE DEF N
  <2>1. N \in SUBSET Nat
    BY DEF N
  <2> QED
    BY <1>4, <1>5, <2>1, EveryNatural
<1>7. Cardinality(T) \in N /\ Cardinality(T) \in Nat
  BY <1>1, <1>6
<1> QED
  BY <1>7

(* The sum over no element is zero.                                        *)
LEMMA SumOfNone ==
  ASSUME NEW v, NEW g, IsSum(v, {}, g)
  PROVE  v = 0
BY DEF IsSum, Summing, SumBy

(* A sum is the sum over the other elements and the value of one.           *)
LEMMA SumWithout ==
  ASSUME NEW S, IsFiniteSet(S), NEW e \in S, NEW R, R = S \ {e}, NEW g, NEW h,
         \A x \in S : g[x] \in Int, \A x \in R : g[x] = h[x],
         NEW v, IsSum(v, S, g), NEW w, IsSum(w, R, h)
  PROVE  v \in Int /\ w \in Int /\ v = w + g[e]
<1>1. PICK it : Summing(it, S, g) /\ v = it[S]
  BY DEF IsSum
<1>2. PICK jt : Summing(jt, S \ {e}, h) /\ w = jt[S \ {e}]
  BY DEF IsSum
<1>3. \A s \in SUBSET S : it[s] \in Int /\ \A x \in s : it[s] = g[x] + it[s \ {x}]
  <2>1. AnyOrder(it, S, g)
    BY <1>1, SummingAnyOrder
  <2> QED
    BY <2>1 DEF AnyOrder
<1>4. S \ {e} \in SUBSET S
  OBVIOUS
<1>5. w = it[S \ {e}]
  BY <1>1, <1>2, <1>4, SummingAgrees
<1>6. v \in Int /\ w \in Int /\ v = g[e] + w /\ g[e] \in Int
  BY <1>1, <1>3, <1>4, <1>5
<1> QED
  BY <1>6

(***************************************************************************)
(* The normal plan: sequence k starts at Offset(k), the cycle ends at      *)
(* Offset(Len(Plan) + 1).                                                  *)
(***************************************************************************)
Offset(k) == MapThenSumSet(Length, 1 .. k - 1)

(* The lengths of the sequences are summed in some order.                  *)
LEMMA LengthSum ==
  ASSUME NEW S, IsFiniteSet(S)
  PROVE  IsSum(MapThenSumSet(Length, S), S, [i \in S |-> Length(i)])
<1> DEFINE g == [i \in S |-> Length(i)]
           F(it) == [s \in SUBSET S |-> IF s = {} THEN 0
                       ELSE LET x == CHOOSE x \in s : TRUE
                            IN  Length(x) + it[s \ {x}]]
           jt == CHOOSE it : it = F(it)
<1>1. MapThenSumSet(Length, S) = jt[S]
  BY DEF MapThenSumSet, MapThenFoldSet
<1>2. ASSUME NEW it, NEW s \in SUBSET S
      PROVE  SumBy(it, g, s) = IF s = {} THEN 0 ELSE LET x == CHOOSE x \in s : TRUE
                                                     IN  Length(x) + it[s \ {x}]
  BY DEF SumBy, Pick
<1>3. ASSUME NEW it PROVE Summing(it, S, g) <=> it = F(it)
  <2>1. F(it) = [s \in SUBSET S |-> SumBy(it, g, s)]
    BY <1>2
  <2> QED
    BY <2>1 DEF Summing
<1>4. PICK h : Summing(h, S, g)
  BY SummingExists
<1>5. h = F(h)
  BY <1>3, <1>4
<1>6. jt = F(jt)
  <2> HIDE DEF F
  <2> QED
    BY <1>5
<1>7. Summing(jt, S, g)
  BY <1>3, <1>6
<1> QED
  BY <1>1, <1>7 DEF IsSum

(* What is assumed of the plan.                                            *)
LEMMA PlanType ==
  /\ Len(Plan) \in Nat /\ Len(Plan) >= 2 /\ Num = 1 .. Len(Plan)
  /\ \A i \in Num : /\ Length(i) \in Nat \ {0} /\ Plan[i].delay \in Nat
                    /\ Plan[i].green \in Nat
                    /\ Length(i) = Plan[i].length
  /\ VertMin \in Nat /\ Rouge \in Nat
<1>1. Len(Plan) \in Nat /\ Num = 1 .. Len(Plan) /\ Len(Plan) >= 2
      /\ VertMin \in Nat /\ Rouge \in Nat
  BY PlanAssumption DEF Num
<1>2. ASSUME NEW i \in Num
      PROVE  Plan[i] \in [length : Nat \ {0}, green : Nat, delay : Nat]
  <2> DEFINE R == [length : Nat \ {0}, green : Nat, delay : Nat]
  <2>1. Plan \in Seq(R)
    BY PlanAssumption
  <2> HIDE DEF R
  <2>2. Plan[i] \in R
    BY <1>1, <2>1
  <2> QED
    BY <2>2 DEF R
<1>3. \A i \in Num : /\ Length(i) \in Nat \ {0} /\ Plan[i].delay \in Nat
                    /\ Plan[i].green \in Nat /\ Length(i) = Plan[i].length
  BY <1>2 DEF Length
<1> QED
  BY <1>1, <1>3

(* The first sequence starts the cycle.                                    *)
LEMMA OffsetFirst == Offset(1) = 0
<1>1. 1 .. 1 - 1 = {}
  OBVIOUS
<1>2. IsSum(Offset(1), {}, [i \in {} |-> Length(i)])
  BY <1>1, LengthSum, FS_EmptySet DEF Offset
<1> QED
  BY <1>2, SumOfNone

(* A sequence starts when the one before ends.                             *)
LEMMA OffsetNext ==
  ASSUME NEW k \in Num
  PROVE  Offset(k + 1) \in Int /\ Offset(k) \in Int /\ Offset(k + 1) = Offset(k) + Length(k)
<1> DEFINE S == 1 .. k
           g == [i \in S |-> Length(i)]
           h == [i \in S \ {k} |-> Length(i)]
<1>0. k \in Nat \ {0} /\ k \in S /\ 1 .. (k + 1) - 1 = S /\ 1 .. k - 1 = S \ {k}
  BY PlanType
<1>1. IsFiniteSet(S) /\ IsFiniteSet(S \ {k})
  <2>1. IsFiniteSet(1 .. k)
    BY <1>0, FS_Interval
  <2> QED
    BY <2>1, FS_RemoveElement
<1>2. IsSum(Offset(k + 1), S, g) /\ IsSum(Offset(k), S \ {k}, h)
  BY <1>0, <1>1, LengthSum DEF Offset
<1>3. \A x \in S : g[x] \in Int
  BY PlanType
<1>4. (\A x \in S \ {k} : g[x] = h[x]) /\ g[k] = Length(k)
  BY <1>0
<1> DEFINE v == Offset(k + 1)
           w == Offset(k)
           R == S \ {k}
<1>5. k \in S /\ IsSum(v, S, g) /\ IsSum(w, R, h) /\ R = S \ {k} /\ IsFiniteSet(S)
      /\ \A x \in R : g[x] = h[x]
  BY <1>0, <1>1, <1>2, <1>4
<1> HIDE DEF S, g, h, v, w, R
<1>6. v \in Int /\ w \in Int /\ v = w + g[k]
  BY <1>3, <1>5, SumWithout
<1> QED
  BY <1>4, <1>6 DEF v, w

(* Sequences start one after the other within the cycle.                   *)
LEMMA OffsetsGrow ==
  /\ \A k \in 1 .. Len(Plan) + 1 : Offset(k) \in Nat
  /\ \A j, k \in 1 .. Len(Plan) + 1 : j <= k => Offset(j) <= Offset(k)
  /\ \A k \in Num : Offset(k + 1) = Offset(k) + Length(k)
  /\ Offset(1) = 0 /\ Offset(Len(Plan) + 1) = CycleLength /\ CycleLength \in Nat \ {0}
<1> DEFINE N == {k \in Nat : k \in 1 .. Len(Plan) + 1 =>
                   /\ Offset(k) \in Nat
                   /\ \A j \in 1 .. k : Offset(j) <= Offset(k)}
<1>0. Len(Plan) \in Nat /\ Len(Plan) >= 2 /\ Num = 1 .. Len(Plan)
      /\ \A i \in Num : Length(i) \in Nat \ {0}
  BY PlanType
<1>1. 0 \in N
  OBVIOUS
<1>2. ASSUME NEW k \in N PROVE k + 1 \in N
  <2> SUFFICES ASSUME k + 1 \in 1 .. Len(Plan) + 1
               PROVE  /\ Offset(k + 1) \in Nat
                      /\ \A j \in 1 .. k + 1 : Offset(j) <= Offset(k + 1)
    OBVIOUS
  <2>1. CASE k = 0
    BY <2>1, OffsetFirst
  <2>2. CASE k # 0
    <3>1. k \in Num /\ Offset(k) \in Nat /\ \A j \in 1 .. k : Offset(j) <= Offset(k)
      BY <1>0, <2>2
    <3>2. Offset(k + 1) = Offset(k) + Length(k) /\ Length(k) \in Nat
      BY <1>0, <3>1, OffsetNext
    <3>3. ASSUME NEW j \in 1 .. k + 1 PROVE Offset(j) <= Offset(k + 1)
      <4>1. CASE j = k + 1
        BY <3>1, <3>2, <4>1
      <4>2. CASE j \in 1 .. k
        <5>1. Offset(j) \in Int
          <6>1. j \in Num
            BY <1>0, <3>1, <4>2
          <6> QED
            BY <6>1, OffsetNext
        <5> QED
          BY <3>1, <3>2, <4>2, <5>1
      <4> QED
        BY <4>1, <4>2
    <3> QED
      BY <3>1, <3>2, <3>3
  <2> QED
    BY <2>1, <2>2
<1>3. N = Nat
  <2> HIDE DEF N
  <2>1. N \in SUBSET Nat
    BY DEF N
  <2> QED
    BY <1>1, <1>2, <2>1, EveryNatural
<1>4. \A k \in 1 .. Len(Plan) + 1 :
        Offset(k) \in Nat /\ \A j \in 1 .. k : Offset(j) <= Offset(k)
  BY <1>0, <1>3
<1>5. \A j, k \in 1 .. Len(Plan) + 1 : j <= k => Offset(j) <= Offset(k)
  BY <1>0, <1>4
<1>6. \A k \in Num : Offset(k + 1) = Offset(k) + Length(k)
  BY OffsetNext
<1>7. Offset(Len(Plan) + 1) = CycleLength
  <2>1. 1 .. (Len(Plan) + 1) - 1 = Num
    BY <1>0
  <2> QED
    BY <2>1 DEF Offset, CycleLength
<1>8. CycleLength \in Nat \ {0}
  <2>1. 1 \in Num /\ 2 \in 1 .. Len(Plan) + 1 /\ Len(Plan) + 1 \in 1 .. Len(Plan) + 1
    BY <1>0
  <2>2. Offset(2) = Length(1)
    <3>1. Offset(1 + 1) = Offset(1) + Length(1)
      BY <1>6, <2>1
    <3> QED
      BY <1>0, <2>1, <3>1, OffsetFirst
  <2>3. Offset(2) <= CycleLength
    BY <1>0, <1>5, <1>7, <2>1
  <2> QED
    BY <1>0, <1>4, <1>7, <2>1, <2>2, <2>3
<1> QED
  BY <1>4, <1>5, <1>6, <1>7, <1>8, OffsetFirst

(* Every instant of the cycle is in one sequence of the plan.                *)
LEMMA SequenceFound ==
  ASSUME NEW p \in 0 .. CycleLength - 1
  PROVE  /\ GetSequence(p) \in Num
         /\ StartOf(GetSequence(p)) = Offset(GetSequence(p))
         /\ Offset(GetSequence(p)) <= p
         /\ p < Offset(GetSequence(p)) + Length(GetSequence(p))
<1>0. Len(Plan) \in Nat /\ Len(Plan) >= 2 /\ Num = 1 .. Len(Plan)
      /\ \A i \in Num : Length(i) \in Nat \ {0}
  BY PlanType
<1>1. \A i \in Num : StartOf(i) = Offset(i)
  BY DEF StartOf, Starts, Offset
<1> DEFINE Ends == {k \in Num : p < Offset(k + 1)}
<1>2. Len(Plan) \in Ends
  BY <1>0, OffsetsGrow
<1>3. Ends \subseteq Nat
  BY <1>0
<1>4. PICK i \in Ends : \A j \in Ends : i <= j
  BY <1>2, <1>3, SmallestOfSet
<1>5. i \in Num /\ p < Offset(i) + Length(i)
  BY <1>4, OffsetsGrow
<1>6. Offset(i) <= p
  <2>1. CASE i = 1
    BY <2>1, OffsetFirst
  <2>2. CASE i # 1
    <3>0. i \in Nat /\ i - 1 \in Num
      BY <1>0, <1>5, <2>2
    <3>1. i - 1 \in Num /\ i - 1 \notin Ends
      <4>1. ~(i <= i - 1)
        BY <3>0
      <4> QED
        BY <1>4, <3>0, <4>1
    <3>2. ~(p < Offset(i))
      BY <3>0, <3>1
    <3>3. Offset(i) \in Nat
      BY <1>0, <1>5, OffsetsGrow
    <3> QED
      BY <3>2, <3>3
  <2> QED
    BY <2>1, <2>2
<1>7. \E k \in Num : StartOf(k) <= p /\ p < StartOf(k) + Length(k)
  BY <1>1, <1>5, <1>6
<1> DEFINE k == CHOOSE k \in Num : StartOf(k) <= p /\ p < StartOf(k) + Length(k)
<1>8. k \in Num /\ StartOf(k) <= p /\ p < StartOf(k) + Length(k)
  BY <1>7
<1>9. GetSequence(p) = k
  BY DEF GetSequence, SequenceAt
<1> HIDE DEF k
<1> QED
  BY <1>1, <1>8, <1>9

(***************************************************************************)
(* The way from an instant of the normal plan to the end of a sequence:    *)
(* the rest of the sequence of that instant, then those After it.          *)
(***************************************************************************)
Nth(act, j) == ((act + j - 1) % Len(Plan)) + 1
After(act, m) == MapThenSumSet(LAMBDA j : Length(Nth(act, j)), 1 .. m)

(* The remainder of a natural below twice the divisor.                     *)
LEMMA Remainder ==
  ASSUME NEW a \in Nat, NEW n \in Nat \ {0}
  PROVE  /\ a % n \in 0 .. n - 1
         /\ a < n => a % n = a
         /\ n <= a /\ a < 2 * n => a % n = a - n
OBVIOUS

(* The remainder of a negative integer above minus the divisor.            *)
LEMMA NegativeRemainder ==
  ASSUME NEW a \in Int, NEW n \in Nat \ {0}, a < 0, 0 <= a + n
  PROVE  a % n = a + n
OBVIOUS

(* The sequence j after act, once around the cycle.                        *)
LEMMA NthFacts ==
  ASSUME NEW act \in Num, NEW j \in Nat \ {0}
  PROVE  /\ Nth(act, j) \in Num
         /\ act + j <= Len(Plan) => Nth(act, j) = act + j
         /\ act + j > Len(Plan) /\ act + j <= 2 * Len(Plan) =>
              Nth(act, j) = act + j - Len(Plan)
<1> DEFINE n == Len(Plan)
           a == act + j - 1
<1>1. n \in Nat \ {0} /\ Num = 1 .. n /\ act \in 1 .. n
  BY PlanType
<1>2. a \in Nat
  BY <1>1
<1>3. /\ a % n \in 0 .. n - 1
      /\ a < n => a % n = a
      /\ n <= a /\ a < 2 * n => a % n = a - n
  <2> HIDE DEF a, n
  <2> QED
    BY <1>1, <1>2, Remainder
<1> DEFINE r == a % n
<1>4. Nth(act, j) = r + 1
  BY DEF Nth
<1> HIDE DEF r
<1> QED
  BY <1>1, <1>3, <1>4 DEF r

(* The time after a sequence is a sum of lengths.                          *)
LEMMA AfterSum ==
  ASSUME NEW act, NEW m \in Nat
  PROVE  IsSum(After(act, m), 1 .. m, [j \in 1 .. m |-> Length(Nth(act, j))])
<1> DEFINE S == 1 .. m
           g == [j \in S |-> Length(Nth(act, j))]
           F(it) == [s \in SUBSET S |-> IF s = {} THEN 0
                       ELSE LET x == CHOOSE x \in s : TRUE
                            IN  Length(Nth(act, x)) + it[s \ {x}]]
           jt == CHOOSE it : it = F(it)
<1>0. IsFiniteSet(S)
  BY FS_Interval
<1>1. After(act, m) = jt[S]
  BY DEF After, MapThenSumSet, MapThenFoldSet
<1>2. ASSUME NEW it, NEW s \in SUBSET S
      PROVE  SumBy(it, g, s) = IF s = {} THEN 0 ELSE LET x == CHOOSE x \in s : TRUE
                                                     IN  Length(Nth(act, x)) + it[s \ {x}]
  BY DEF SumBy, Pick
<1>3. ASSUME NEW it PROVE Summing(it, S, g) <=> it = F(it)
  <2>1. F(it) = [s \in SUBSET S |-> SumBy(it, g, s)]
    BY <1>2
  <2> QED
    BY <2>1 DEF Summing
<1>4. PICK h : Summing(h, S, g)
  <2> HIDE DEF g, S
  <2> QED
    BY <1>0, SummingExists
<1>5. h = F(h)
  BY <1>3, <1>4
<1>6. jt = F(jt)
  <2> HIDE DEF F
  <2> QED
    BY <1>5
<1>7. Summing(jt, S, g)
  BY <1>3, <1>6
<1> QED
  BY <1>1, <1>7 DEF IsSum

(* No sequence takes no time.                                              *)
LEMMA AfterNone == ASSUME NEW act PROVE After(act, 0) = 0
<1>1. 1 .. 0 = {}
  OBVIOUS
<1>2. IsSum(After(act, 0), {}, [j \in {} |-> Length(Nth(act, j))])
  BY <1>1, AfterSum
<1> QED
  BY <1>2, SumOfNone

(* One more sequence takes its length.                                     *)
LEMMA AfterNext ==
  ASSUME NEW act \in Num, NEW m \in Nat
  PROVE  /\ After(act, m + 1) \in Int /\ After(act, m) \in Int
         /\ After(act, m + 1) = After(act, m) + Length(Nth(act, m + 1))
<1> DEFINE S == 1 .. m + 1
           R == 1 .. m
           e == m + 1
           g == [j \in S |-> Length(Nth(act, j))]
           h == [j \in R |-> Length(Nth(act, j))]
           v == After(act, m + 1)
           w == After(act, m)
<1>1. e \in S /\ R = S \ {e} /\ IsFiniteSet(S)
  <2>1. IsFiniteSet(S)
    BY FS_Interval
  <2>2. e \in S /\ R = S \ {e}
    OBVIOUS
  <2> QED
    BY <2>1, <2>2
<1>2. IsSum(v, S, g) /\ IsSum(w, R, h)
  <2>1. m + 1 \in Nat
    OBVIOUS
  <2> QED
    BY <2>1, AfterSum
<1>3. \A x \in S : g[x] \in Int
  <2>1. \A x \in S : Nth(act, x) \in Num
    BY NthFacts
  <2> QED
    BY <2>1, PlanType
<1>4. (\A x \in R : g[x] = h[x]) /\ g[e] = Length(Nth(act, m + 1))
  BY <1>1
<1> HIDE DEF S, R, e, g, h, v, w
<1>5. v \in Int /\ w \in Int /\ v = w + g[e]
  BY <1>1, <1>2, <1>3, <1>4, SumWithout
<1> QED
  BY <1>4, <1>5 DEF v, w

(* The sequences after act up to the m-th lead to the end of that one, in   *)
(* this cycle or in the next one.                                           *)
Lap(act, m) ==
  /\ After(act, m) \in Nat
  /\ Offset(act + 1) + After(act, m) =
       IF act + m <= Len(Plan) THEN Offset(act + m + 1)
                               ELSE CycleLength + Offset(act + m - Len(Plan) + 1)

(* The sequences after act end at their offsets, modulo the cycle.         *)
LEMMA Laps ==
  ASSUME NEW act \in Num, NEW k \in 0 .. Len(Plan)
  PROVE  Lap(act, k)
<1> DEFINE n == Len(Plan)
           N == {m \in Nat : m <= n => Lap(act, m)}
<1>0. /\ n \in Nat /\ n >= 2 /\ Num = 1 .. n /\ act \in 1 .. n
      /\ \A i \in Num : Length(i) \in Nat
  BY PlanType
<1>1. Offset(act + 1) \in Nat
  BY <1>0, OffsetsGrow
<1>2. 0 \in N
  BY <1>0, <1>1, AfterNone DEF Lap
<1>3. ASSUME NEW m \in N PROVE m + 1 \in N
  <2> SUFFICES ASSUME m + 1 <= n PROVE Lap(act, m + 1)
    OBVIOUS
  <2>1. Lap(act, m)
    BY <1>0
  <2> DEFINE j == Nth(act, m + 1)
  <2>2. /\ j \in Num
        /\ act + m + 1 <= n => j = act + m + 1
        /\ act + m + 1 > n => j = act + m + 1 - n
    <3>1. m + 1 \in Nat \ {0}
      OBVIOUS
    <3> QED
      BY <1>0, <3>1, NthFacts
  <2>3. After(act, m + 1) = After(act, m) + Length(j)
    BY AfterNext
  <2> HIDE DEF j
  <2>4. Length(j) \in Nat /\ Offset(j + 1) = Offset(j) + Length(j)
    BY <1>0, <2>2, OffsetsGrow
  <2>5. Offset(j) \in Nat /\ CycleLength \in Nat /\ After(act, m) \in Nat
    BY SMTT(30), <1>0, <2>1, <2>2, OffsetsGrow DEF Lap
  <2>6. CASE act + m + 1 <= n
    <3>1. j = act + m + 1 /\ act + m <= n /\ act + (m + 1) <= n
      BY <1>0, <2>2, <2>6
    <3>2. Offset(act + 1) + After(act, m) = Offset(j)
      BY <2>1, <3>1 DEF Lap
    <3>3. Offset(act + (m + 1) + 1) = Offset(j + 1)
      <4>1. act + (m + 1) + 1 = j + 1
        BY <1>0, <3>1
      <4> QED
        BY <4>1
    <3> QED
      BY <1>1, <2>3, <2>4, <2>5, <3>1, <3>2, <3>3 DEF Lap
  <2>7. CASE act + m = n
    <3>1. j = 1 /\ act + m <= n /\ ~(act + (m + 1) <= n) /\ act + (m + 1) - n + 1 = j + 1
      BY <1>0, <2>2, <2>7
    <3>2. Offset(act + 1) + After(act, m) = Offset(n + 1)
      BY <2>1, <2>7, <3>1 DEF Lap
    <3>3. Offset(n + 1) = CycleLength /\ Offset(j) = 0
      BY <3>1, OffsetsGrow
    <3>4. Offset(act + (m + 1) - n + 1) = Length(j)
      BY <2>4, <2>5, <3>1, <3>3
    <3> QED
      BY <1>1, <2>3, <2>4, <2>5, <3>1, <3>2, <3>3, <3>4 DEF Lap
  <2>8. CASE act + m > n
    <3>1. j = act + m - n + 1 /\ ~(act + m <= n) /\ ~(act + (m + 1) <= n)
          /\ act + (m + 1) - n + 1 = j + 1
      BY <1>0, <2>2, <2>8
    <3>2. Offset(act + 1) + After(act, m) = CycleLength + Offset(j)
      BY <2>1, <3>1 DEF Lap
    <3>4. Offset(act + (m + 1) - n + 1) = Offset(j) + Length(j)
      BY <2>4, <3>1
    <3>5. After(act, m + 1) \in Nat
          /\ Offset(act + 1) + After(act, m + 1) = CycleLength + (Offset(j) + Length(j))
      BY <1>1, <2>3, <2>4, <2>5, <3>2
    <3> QED
      BY <3>1, <3>4, <3>5 DEF Lap
  <2> QED
    BY <1>0, <2>6, <2>7, <2>8
<1>4. N = Nat
  <2> HIDE DEF N
  <2>1. N \in SUBSET Nat
    BY DEF N
  <2> QED
    BY <1>2, <1>3, <2>1, EveryNatural
<1> QED
  BY <1>0, <1>4

(***************************************************************************)
(* The return plan.                                                        *)
(***************************************************************************)
(* k units after p of the cycle is s, in this cycle or one of the next two. *)
Meets(p, k, s) == p + k \in {s, s + CycleLength, s + 2 * CycleLength}

(* The sequence that follows, in the cycle.                                *)
LEMMA NextFacts ==
  ASSUME NEW i \in Num
  PROVE  /\ GetNextSequence(i) \in Num /\ GetNextSequence(i) # i
         /\ GetNextSequence(i) = IF i < Len(Plan) THEN i + 1 ELSE 1
<1> DEFINE n == Len(Plan)
           r == i % n
<1>1. n \in Nat /\ n >= 2 /\ Num = 1 .. n /\ i \in Nat \ {0} /\ i <= n
  BY PlanType
<1>2. r = IF i < n THEN i ELSE 0
  <2> HIDE DEF n
  <2>1. n \in Nat \ {0} /\ i \in Nat
    BY <1>1
  <2>2. (i < n => r = i) /\ (n <= i /\ i < 2 * n => r = i - n)
    BY <2>1, Remainder
  <2>3. i = n => n <= i /\ i < 2 * n /\ i - n = 0
    BY <1>1
  <2> QED
    BY <1>1, <2>2, <2>3
<1>3. GetNextSequence(i) = r + 1
  BY DEF GetNextSequence
<1> HIDE DEF r
<1> QED
  BY <1>1, <1>2, <1>3

Steps(i, act) == IF i = act THEN Len(Plan) ELSE (i - act) % Len(Plan)

(* The number of sequences from one to another.                            *)
LEMMA StepsFacts ==
  ASSUME NEW i \in Num, NEW act \in Num
  PROVE  /\ Steps(i, act) \in 1 .. Len(Plan)
         /\ Steps(i, act) = IF i > act THEN i - act ELSE i - act + Len(Plan)
<1> DEFINE n == Len(Plan)
           d == i - act
           r == d % n
<1>1. n \in Nat /\ n >= 2 /\ i \in 1 .. n /\ act \in 1 .. n
  BY PlanType
<1>2. d \in Int /\ (i > act => d \in Nat /\ d < n) /\ (i < act => d < 0 /\ 0 <= d + n)
  BY <1>1
<1>3. (i > act => r = d) /\ (i < act => r = d + n)
  <2> HIDE DEF n, d
  <2>1. n \in Nat \ {0}
    BY <1>1
  <2>2. i > act => r = d
    BY <1>2, <2>1, Remainder
  <2>3. i < act => r = d + n
    BY <1>2, <2>1, NegativeRemainder
  <2> QED
    BY <2>2, <2>3
<1>4. Steps(i, act) = IF i = act THEN n ELSE r
  BY DEF Steps
<1> HIDE DEF r
<1> QED
  BY <1>1, <1>3, <1>4

(* The time left until the end of a sequence is exact.                     *)
LEMMA TimeToEnd ==
  ASSUME NEW p \in 0 .. CycleLength - 1, NEW i \in Num,
         NEW act, act = GetSequence(p), NEW elapsed, elapsed = p - StartOf(act),
         NEW t, t = TimeToEndOf(i, act, elapsed)
  PROVE  /\ act \in Num /\ elapsed \in Nat /\ elapsed < Length(act)
         /\ t = Length(act) - elapsed + After(act, Steps(i, act))
         /\ After(act, Steps(i, act)) \in Nat
         /\ t \in Nat \ {0}
         /\ Meets(p, t, StartOf(GetNextSequence(i)))
<1> DEFINE m == Steps(i, act)
           n == Len(Plan)
           a == After(act, m)
           next == GetNextSequence(i)
<1>1. t = Length(act) - elapsed + a
  BY DEF TimeToEndOf, After, Nth, Steps
<1>2. /\ act \in Num /\ StartOf(act) = Offset(act)
      /\ Offset(act) <= p /\ p < Offset(act) + Length(act)
  BY SequenceFound
<1>3. /\ n \in Nat /\ n >= 2 /\ Num = 1 .. n /\ Length(act) \in Nat
      /\ Offset(act) \in Nat /\ Offset(act + 1) = Offset(act) + Length(act)
      /\ Offset(1) = 0 /\ Offset(n + 1) = CycleLength /\ CycleLength \in Nat
      /\ Offset(i + 1) \in Nat
  BY <1>2, PlanType, OffsetsGrow
<1>4. m \in 1 .. n /\ m = IF i > act THEN i - act ELSE i - act + n
  BY <1>2, StepsFacts
<1>5. a \in Nat /\ Offset(act + 1) + a =
        IF act + m <= n THEN Offset(act + m + 1) ELSE CycleLength + Offset(act + m - n + 1)
  <2>1. m \in 0 .. n
    BY <1>3, <1>4
  <2>2. Lap(act, m)
    BY <1>2, <2>1, Laps
  <2> QED
    BY <2>2 DEF Lap
<1>6. next \in Num /\ next = IF i < n THEN i + 1 ELSE 1
  BY NextFacts
<1>7. StartOf(next) = Offset(next)
  BY <1>6 DEF StartOf, Starts, Offset
<1> HIDE DEF m, n, a, next
<1>8. Offset(act + 1) + a \in {Offset(i + 1), CycleLength + Offset(i + 1)}
  <2>1. CASE i > act
    <3>1. act + m = i /\ i <= n
      BY <1>2, <1>3, <1>4, <2>1
    <3> QED
      BY <1>5, <3>1
  <2>2. CASE ~(i > act)
    <3>1. act + m = i + n
      BY SMTT(30), <1>2, <1>3, <1>4, <2>2
    <3>2. ~(act + m <= n) /\ act + m - n + 1 = i + 1
      <4>1. i \in Nat \ {0} /\ act \in Nat /\ m \in Nat
        BY SMTT(30), <1>2, <1>3, <1>4
      <4> QED
        BY SMTT(30), <1>3, <3>1, <4>1
    <3> QED
      BY <1>5, <3>2
  <2> QED
    BY <2>1, <2>2
<1>9. Offset(i + 1) \in {Offset(next), CycleLength + Offset(next)}
  <2>1. CASE i < n
    BY <1>6, <2>1
  <2>2. CASE i = n
    <3>1. next = 1
      BY <1>3, <1>6, <2>2
    <3> QED
      BY <1>3, <2>2, <3>1
  <2> QED
    BY <1>3, <2>1, <2>2
<1>10. elapsed \in Nat /\ elapsed < Length(act)
  BY <1>2, <1>3
<1>11. p + t = Offset(act + 1) + a /\ t \in Nat \ {0}
  <2> DEFINE o == Offset(act)
             l == Length(act)
             o1 == Offset(act + 1)
  <2>1. /\ o \in Nat /\ l \in Nat /\ a \in Nat /\ p \in Nat /\ p < o + l
        /\ elapsed = p - o /\ o1 = o + l /\ t = l - elapsed + a
    BY <1>1, <1>2, <1>3, <1>5
  <2> HIDE DEF o, l, o1
  <2>2. p + t = o1 + a /\ t \in Nat \ {0}
    BY <2>1
  <2> QED
    BY <2>2 DEF o1
<1>12. Offset(next) \in Nat
  BY <1>3, <1>6, OffsetsGrow
<1>13. Meets(p, t, Offset(next))
  BY <1>3, <1>8, <1>9, <1>11, <1>12 DEF Meets
<1> QED
  BY <1>1, <1>2, <1>5, <1>7, <1>10, <1>11, <1>13 DEF m, a, next

Total(q) == MapThenSumSet(LAMBDA j : q[j], DOMAIN q)

(* The total of a list is a sum.                                           *)
LEMMA TotalIs ==
  ASSUME NEW q, IsFiniteSet(DOMAIN q)
  PROVE  IsSum(Total(q), DOMAIN q, q)
<1> DEFINE S == DOMAIN q
           F(it) == [s \in SUBSET S |-> IF s = {} THEN 0
                       ELSE LET x == CHOOSE x \in s : TRUE IN q[x] + it[s \ {x}]]
           jt == CHOOSE it : it = F(it)
<1>1. Total(q) = jt[S]
  BY DEF Total, MapThenSumSet, MapThenFoldSet
<1>2. ASSUME NEW it PROVE Summing(it, S, q) <=> it = F(it)
  <2>1. F(it) = [s \in SUBSET S |-> SumBy(it, q, s)]
    BY DEF SumBy, Pick
  <2> QED
    BY <2>1 DEF Summing
<1>3. PICK h : Summing(h, S, q)
  <2> HIDE DEF S
  <2> QED
    BY SummingExists DEF S
<1>4. h = F(h)
  <2> HIDE DEF F
  <2> QED
    BY <1>2, <1>3
<1>5. jt = F(jt)
  <2> HIDE DEF F
  <2> QED
    BY <1>4
<1>6. Summing(jt, S, q)
  BY <1>2, <1>5
<1> QED
  BY <1>1, <1>6 DEF IsSum

(* The total of the lists of two or three elements a plan has.             *)
LEMMA TotalFacts ==
  ASSUME NEW q \in Seq(Int)
  PROVE  /\ Total(q) \in Int
         /\ Len(q) = 2 => Total(q) = q[1] + q[2]
         /\ Len(q) = 3 => Total(q) = q[1] + q[2] + q[3]
<1> DEFINE S == DOMAIN q
<1>1. Len(q) \in Nat /\ S = 1 .. Len(q) /\ \A x \in S : q[x] \in Int
  OBVIOUS
<1>2. IsFiniteSet(S)
  BY <1>1, FS_Interval
<1>3. IsSum(Total(q), S, q)
  BY <1>2, TotalIs
<1>4. PICK it : Summing(it, S, q) /\ Total(q) = it[S]
  BY <1>3 DEF IsSum
<1> HIDE DEF S
<1>5. AnyOrder(it, S, q)
  BY <1>1, <1>2, <1>4, SummingAnyOrder
<1>6. it[S] \in Int
  BY <1>5 DEF AnyOrder
<1>7. ASSUME Len(q) = 2 PROVE it[S] = q[1] + q[2]
  <2>1. S = {1, 2}
    BY <1>1, <1>7
  <2>2. it[{1, 2}] = q[2] + it[{1, 2} \ {2}] /\ it[{1}] = q[1] + it[{1} \ {1}]
    BY <1>5, <2>1 DEF AnyOrder
  <2>3. {1, 2} \ {2} = {1} /\ {1} \ {1} = {}
    OBVIOUS
  <2>4. it[{}] = 0
    BY <1>4 DEF Summing, SumBy
  <2>5. q[1] \in Int /\ q[2] \in Int
    BY <1>1, <2>1
  <2>6. it[{1}] = q[1] + 0 /\ it[{1, 2}] = q[2] + it[{1}]
    BY <2>2, <2>3, <2>4
  <2> QED
    BY <2>1, <2>5, <2>6
<1>8. ASSUME Len(q) = 3 PROVE it[S] = q[1] + q[2] + q[3]
  <2>1. S = {1, 2, 3}
    BY <1>1, <1>8
  <2>2. /\ it[{1, 2, 3}] = q[3] + it[{1, 2, 3} \ {3}]
        /\ it[{1, 2}] = q[2] + it[{1, 2} \ {2}] /\ it[{1}] = q[1] + it[{1} \ {1}]
    BY <1>5, <2>1 DEF AnyOrder
  <2>3. {1, 2, 3} \ {3} = {1, 2} /\ {1, 2} \ {2} = {1} /\ {1} \ {1} = {}
    OBVIOUS
  <2>4. it[{}] = 0
    BY <1>4 DEF Summing, SumBy
  <2>5. q[1] \in Int /\ q[2] \in Int /\ q[3] \in Int
    BY <1>1, <2>1
  <2>6. /\ it[{1, 2, 3}] = q[3] + it[{1, 2}]
        /\ it[{1, 2}] = q[2] + it[{1}] /\ it[{1}] = q[1] + 0
    BY <2>2, <2>3, <2>4
  <2> QED
    BY <2>1, <2>5, <2>6
<1> QED
  BY <1>4, <1>6, <1>7, <1>8

Returns == [kind : {"return"}, den : Nat \ {0}, lengths : Seq(Int), greens : Seq(Int)]

(* Products of integers.                                                   *)
LEMMA ProductsPositive ==
  /\ \A a, b \in Nat \ {0} : a * b \in Nat \ {0}
  /\ \A a, b \in Nat : a * b \in Nat
  /\ \A a, b \in Int : a * b \in Int
<1>1. \A a, b \in Int : a * b \in Int
  OBVIOUS
<1>2. \A a, b \in Nat : a * b \in Nat
  OBVIOUS
<1>3. \A a, b \in Nat \ {0} : a * b # 0
  OBVIOUS
<1> QED
  BY <1>1, <1>2, <1>3

(* A way to the end of r2 that is shorter than both sequences starts in the *)
(* first of them: it has lost just the time elapsed.                        *)
LEMMA ShortReturn ==
  ASSUME NEW p \in 0 .. CycleLength - 1, NEW r1 \in Num, NEW r2, r2 = GetNextSequence(r1),
         NEW act, act = GetSequence(p), NEW elapsed, elapsed = p - StartOf(act),
         NEW retour, retour = TimeToEndOf(r2, act, elapsed),
         NEW den, den = Length(r1) + Length(r2), retour < den
  PROVE  act = r1 /\ retour = den - elapsed
<1> DEFINE m == Steps(r2, act)
           n == Len(Plan)
<1>1. /\ n \in Nat /\ n >= 2 /\ Num = 1 .. n /\ \A i \in Num : Length(i) \in Nat
  BY PlanType
<1>2. /\ r2 \in Num /\ r2 # r1 /\ r2 = IF r1 < n THEN r1 + 1 ELSE 1
  BY NextFacts
<1>3. /\ act \in Num /\ elapsed \in Nat /\ elapsed < Length(act)
      /\ retour = Length(act) - elapsed + After(act, m)
  BY <1>2, TimeToEnd
<1>4. m \in 1 .. n /\ m = IF r2 > act THEN r2 - act ELSE r2 - act + n
  BY <1>2, <1>3, StepsFacts
<1>5. ASSUME NEW j \in 1 .. n
      PROVE  /\ After(act, j) \in Nat /\ After(act, j - 1) \in Nat
             /\ After(act, j) = After(act, j - 1) + Length(Nth(act, j))
             /\ act + j <= n => Nth(act, j) = act + j
             /\ act + j > n => Nth(act, j) = act + j - n
  <2>1. j - 1 \in Nat /\ j - 1 \in 0 .. n /\ j \in 0 .. n /\ (j - 1) + 1 = j /\ j \in Nat \ {0}
    BY <1>1
  <2>2. After(act, (j - 1) + 1) = After(act, j - 1) + Length(Nth(act, (j - 1) + 1))
    BY <1>3, <2>1, AfterNext
  <2>3. Lap(act, j) /\ Lap(act, j - 1)
    BY <1>3, <2>1, Laps
  <2>4. /\ act + j <= n => Nth(act, j) = act + j
        /\ act + j > n /\ act + j <= 2 * n => Nth(act, j) = act + j - n
    BY <1>3, <2>1, NthFacts
  <2>5. act + j <= 2 * n
    BY <1>1, <1>3
  <2> QED
    BY <2>1, <2>2, <2>3, <2>4, <2>5 DEF Lap
<1> HIDE DEF m, n
<1>6. Nth(act, m) = r2
  <2>1. act \in 1 .. n /\ r2 \in 1 .. n /\ m \in 1 .. n
    BY <1>1, <1>2, <1>3, <1>4
  <2>2. /\ act + m <= n => Nth(act, m) = act + m
        /\ act + m > n => Nth(act, m) = act + m - n
    BY <1>5, <2>1
  <2>3. CASE r2 > act
    <3>1. act + m = r2 /\ act + m <= n
      BY <1>1, <1>4, <2>1, <2>3, SMTT(30)
    <3> QED
      BY <2>2, <3>1
  <2>4. CASE ~(r2 > act)
    <3>1. m = r2 - act + n
      BY <1>4, <2>4
    <3>2. act \in Int /\ r2 \in Nat \ {0} /\ m \in Int
      BY <1>1, <2>1
    <3>3. act + m = r2 + n
      BY <1>1, <3>1, <3>2
    <3>4. act + m > n /\ act + m - n = r2
      BY <1>1, <3>2, <3>3, SMTT(30)
    <3> QED
      BY <2>2, <3>4
  <2> QED
    BY <2>3, <2>4
<1>7. act = r1
  <2> SUFFICES ASSUME act # r1 PROVE FALSE
    OBVIOUS
  <2>0. act \in 1 .. n /\ r1 \in 1 .. n /\ r2 \in 1 .. n /\ act # r1
    BY <1>1, <1>2, <1>3
  <2>1. m - 1 \in 1 .. n
    <3>1. CASE r2 > act
      BY <1>1, <1>2, <1>4, <2>0, <3>1, SMTT(30)
    <3>2. CASE ~(r2 > act)
      <4>1. m = r2 - act + n
        BY <1>4, <3>2
      <4>2. m # 1
        BY <1>1, <1>2, <2>0, <4>1
      <4> QED
        BY <1>1, <1>4, <4>2
    <3> QED
      BY <3>1, <3>2
  <2>2. Nth(act, m - 1) = r1
    <3> DEFINE k == m - 1
    <3>1. k \in 1 .. n
      BY <2>1
    <3> HIDE DEF k
    <3>2. /\ act + k <= n => Nth(act, k) = act + k
          /\ act + k > n => Nth(act, k) = act + k - n
      BY <1>5, <3>1
    <3>3. act + k = r1 \/ act + k = r1 + n
      <4>1. k = r2 - act - 1 \/ k = r2 - act + n - 1
        BY <1>1, <1>4, <2>0 DEF k
      <4>2. r2 = r1 + 1 \/ (r2 = 1 /\ r1 = n)
        BY <1>1, <1>2, <2>0
      <4>3. act \in Nat \ {0} /\ k \in Nat \ {0} /\ r1 \in Nat \ {0} /\ n \in Nat
        BY <1>1, <2>0, <3>1
      <4>4. CASE k = r2 - act - 1
        BY <4>2, <4>3, <4>4
      <4>5. CASE k = r2 - act + n - 1
        BY <4>2, <4>3, <4>5
      <4> QED
        BY <4>1, <4>4, <4>5
    <3>4. CASE act + k = r1
      <4>1. act + k <= n
        BY <1>1, <2>0, <3>4
      <4> QED
        BY <3>2, <3>4, <4>1 DEF k
    <3>5. CASE act + k = r1 + n
      <4>1. r1 \in Nat \ {0} /\ n \in Nat /\ act \in Nat /\ k \in Nat
        BY <1>1, <2>0, <3>1
      <4>3. act + k > n /\ act + k - n = r1
        BY <3>5, <4>1
      <4> QED
        BY <3>2, <4>3 DEF k
    <3> QED
      BY <3>3, <3>4, <3>5
  <2>3. /\ After(act, m) = After(act, m - 1) + Length(r2)
        /\ After(act, m - 1) = After(act, (m - 1) - 1) + Length(r1)
        /\ After(act, (m - 1) - 1) \in Nat
    BY <1>4, <1>5, <1>6, <2>1, <2>2
  <2>4. Length(r1) \in Nat /\ Length(r2) \in Nat /\ Length(act) \in Nat
    BY <1>1, <1>2, <1>3
  <2> DEFINE a == After(act, (m - 1) - 1)
             l1 == Length(r1)
             l2 == Length(r2)
             l == Length(act)
  <2>5. /\ retour = l - elapsed + (a + l1 + l2) /\ den = l1 + l2 /\ a \in Nat
        /\ l1 \in Nat /\ l2 \in Nat /\ l \in Nat /\ elapsed < l /\ elapsed \in Nat
    BY <1>3, <2>3, <2>4
  <2> HIDE DEF a, l1, l2, l
  <2>6. retour >= den
    BY <2>5
  <2> QED
    BY <2>5, <2>6
<1>8. retour = den - elapsed
  <2>1. m = 1
    BY <1>1, <1>2, <1>3, <1>4, <1>7
  <2>2. After(act, 1) = After(act, 1 - 1) + Length(r2) /\ After(act, 1 - 1) = 0
    <3>1. 1 \in 1 .. n /\ 1 - 1 = 0
      BY <1>1
    <3>2. After(act, 1) = After(act, 1 - 1) + Length(Nth(act, 1))
      BY <1>5, <3>1
    <3> QED
      BY <1>6, <2>1, <3>1, <3>2, AfterNone
  <2>3. Length(r1) \in Nat /\ Length(r2) \in Nat
    BY <1>1, <1>2
  <2> QED
    BY <1>3, <1>7, <2>1, <2>2, <2>3
<1> QED
  BY <1>7, <1>8

(* A return is over after a positive time; a return in two sequences takes  *)
(* just the time to the end of the second one.                              *)
LEMMA ReturnPlanFacts ==
  ASSUME NEW p \in 0 .. CycleLength - 1, NEW r1 \in Num,
         NEW r2, r2 = GetNextSequence(r1), NEW q, q = ReturnPlan(p, r1, r2)
  PROVE  /\ q \in Returns /\ Total(q.lengths) \in Int /\ Total(q.lengths) > 0
         /\ Len(q.lengths) = 2 =>
              \E t \in Nat \ {0} : /\ Total(q.lengths) = q.den * t
                                   /\ Meets(p, t, StartOf(GetNextSequence(r2)))
<1> DEFINE act == GetSequence(p)
           elapsed == p - StartOf(act)
           retour == TimeToEndOf(r2, act, elapsed)
           den == Length(r1) + Length(r2)
           l(i) == Length(i) * retour
           g(i) == Plan[i].green * den + l(i) - Length(i) * den
           short(i) == g(i) < VertMin * den
           r3 == GetNextSequence(r2)
           fixed(i) == IF short(i) THEN l(i) + VertMin * den - g(i) ELSE Length(i) * den
           green(i) == IF short(i) THEN VertMin * den ELSE g(i)
           retour3 == fixed(r1) + fixed(r2) + Length(r3) * den
           seqRet == den + Length(r3) - elapsed
           l3(i) == Length(i) * retour3
           g3(i, v) == v * seqRet + l3(i) - Length(i) * den * seqRet
           G1 == g3(r1, green(r1))
           G2 == g3(r2, green(r2))
           G3 == g3(r3, Plan[r3].green * den)
           three == [kind |-> "return", den |-> den * seqRet,
                     lengths |-> <<l3(r1), l3(r2), l3(r3)>>, greens |-> <<G1, G2, G3>>]
           two == [kind |-> "return", den |-> den,
                   lengths |-> <<l(r1), l(r2)>>, greens |-> <<g(r1), g(r2)>>]
<1>1. q = IF retour < den /\ (short(r1) \/ short(r2)) THEN three ELSE two
  BY DEF ReturnPlan
<1>2. r2 \in Num /\ r3 \in Num
  BY NextFacts
<1>3. /\ \A i \in Num : /\ Length(i) \in Nat \ {0} /\ Plan[i].green \in Nat
                        /\ Plan[i].green <= Length(i)
      /\ VertMin \in Nat
  <2>1. ASSUME NEW i \in Num PROVE Plan[i].green <= Length(i)
    <3>1. Plan[i].delay + Plan[i].green <= Length(i)
      BY PlanAssumption DEF Length
    <3> QED
      BY <3>1, PlanType
  <2> QED
    BY <2>1, PlanType
<1>4. /\ act \in Num /\ elapsed \in Nat /\ elapsed < Length(act)
      /\ retour \in Nat \ {0} /\ Meets(p, retour, StartOf(r3))
      /\ retour = Length(act) - elapsed + After(act, Steps(r2, act))
      /\ After(act, Steps(r2, act)) \in Nat
  BY <1>2, TimeToEnd
<1>5. den \in Nat \ {0}
  BY <1>2, <1>3
<1> HIDE DEF act, elapsed, retour, den, r3
<1>6. \A i \in Num : l(i) \in Int /\ l(i) > 0 /\ g(i) \in Int
  BY <1>3, <1>4, <1>5, ProductsPositive
<1>7. ASSUME NEW i \in Num PROVE fixed(i) \in Nat
  <2>1. l(i) - g(i) = Length(i) * den - Plan[i].green * den
    BY <1>3, <1>5, <1>6
  <2>2. Length(i) * den - Plan[i].green * den = (Length(i) - Plan[i].green) * den
    BY <1>3, <1>5
  <2>3. (Length(i) - Plan[i].green) * den \in Nat
    BY <1>3, <1>5, ProductsPositive
  <2>4. VertMin * den \in Nat /\ Length(i) * den \in Nat
    BY <1>3, <1>5, ProductsPositive
  <2>5. l(i) + VertMin * den - g(i) = VertMin * den + (Length(i) - Plan[i].green) * den
    BY <1>6, <2>1, <2>2, <2>3, <2>4
  <2> QED
    BY <2>3, <2>4, <2>5
<1>8. green(r1) \in Int /\ green(r2) \in Int
  BY <1>2, <1>3, <1>5, <1>6, ProductsPositive
<1>9. retour3 \in Nat \ {0}
  <2>1. Length(r3) * den \in Nat \ {0}
    BY <1>2, <1>3, <1>5, ProductsPositive
  <2>2. fixed(r1) \in Nat /\ fixed(r2) \in Nat
    BY <1>2, <1>7
  <2> HIDE DEF fixed
  <2> QED
    BY <2>1, <2>2
<1>10. ASSUME retour < den PROVE seqRet \in Nat \ {0}
  <2>1. act = r1
    <3>1. r1 \in Num /\ r2 = GetNextSequence(r1)
      OBVIOUS
    <3> QED
      BY <1>10, <3>1, ShortReturn DEF act, elapsed, retour, den
  <2> QED
    BY <1>2, <1>3, <1>4, <2>1 DEF den
<1>11. CASE retour < den /\ (short(r1) \/ short(r2))
  <2>1. q = three
    BY <1>1, <1>11
  <2>2. seqRet \in Nat \ {0}
    BY <1>10, <1>11
  <2>3. \A i \in Num : l3(i) \in Nat \ {0}
    <3> HIDE DEF retour3
    <3> QED
      BY <1>3, <1>9, ProductsPositive
  <2>4. den * seqRet \in Nat \ {0}
    BY <1>5, <2>2, ProductsPositive
  <2>5. \A i \in Num, v \in Int : g3(i, v) \in Int
    <3> HIDE DEF l3, seqRet
    <3> QED
      BY <1>3, <1>5, <2>2, <2>3, ProductsPositive
  <2>6. Plan[r3].green * den \in Int
    BY <1>2, <1>3, <1>5, ProductsPositive
  <2> HIDE DEF l3, seqRet, g3, green
  <2>7. G1 \in Int /\ G2 \in Int /\ G3 \in Int
    BY <1>2, <1>8, <2>5, <2>6
  <2>8. l3(r1) \in Nat \ {0} /\ l3(r2) \in Nat \ {0} /\ l3(r3) \in Nat \ {0}
    BY <1>2, <2>3
  <2> HIDE DEF G1, G2, G3
  <2>9. q \in Returns
    BY <2>1, <2>4, <2>7, <2>8 DEF Returns
  <2>10. Total(q.lengths) = l3(r1) + l3(r2) + l3(r3) /\ Len(q.lengths) = 3
    <3> DEFINE s == q.lengths
    <3>1. s \in Seq(Int) /\ Len(s) = 3 /\ s[1] = l3(r1) /\ s[2] = l3(r2) /\ s[3] = l3(r3)
      BY <2>1, <2>8
    <3> HIDE DEF s
    <3>2. Total(s) = l3(r1) + l3(r2) + l3(r3) /\ Len(s) = 3
      BY <3>1, TotalFacts
    <3> QED
      BY <3>2 DEF s
  <2> QED
    BY <2>8, <2>9, <2>10
<1>12. CASE ~(retour < den /\ (short(r1) \/ short(r2)))
  <2>1. q = two
    BY <1>1, <1>12
  <2>2. l(r1) \in Int /\ l(r2) \in Int /\ l(r1) > 0 /\ l(r2) > 0
        /\ g(r1) \in Int /\ g(r2) \in Int
    BY <1>2, <1>6
  <2>3. l(r1) + l(r2) = den * retour
    BY <1>2, <1>3, <1>4 DEF den
  <2> HIDE DEF l, g
  <2>4. q \in Returns /\ q.den = den
    BY <1>5, <2>1, <2>2 DEF Returns
  <2>5. Total(q.lengths) = l(r1) + l(r2)
    <3> DEFINE s == q.lengths
    <3>1. s \in Seq(Int) /\ Len(s) = 2 /\ s[1] = l(r1) /\ s[2] = l(r2)
      BY <2>1, <2>2
    <3> HIDE DEF s
    <3>2. Total(s) = l(r1) + l(r2)
      BY <3>1, TotalFacts
    <3> QED
      BY <3>2 DEF s
  <2>6. Total(q.lengths) = q.den * retour
    BY <2>3, <2>4, <2>5
  <2> QED
    BY <1>4, <2>2, <2>4, <2>5, <2>6 DEF r3
<1> QED
  BY <1>11, <1>12

(***************************************************************************)
(* The control of the lights, through the calls of Update.                 *)
(***************************************************************************)
Priorities == [kind : {"priority"}, deb : Int, lengths : Seq(Int), copied : Num,
               before : Int, served : SUBSET Buses]
Plans == {NoPlan} \cup Priorities \cup Returns
Controls == [mode : {"N", "O", "P", "Q"}, vgps : SUBSET Buses, plan : Plans, fin : Int,
             den : Nat \ {0}, retour1 : Num \cup {0}, retour2 : Num \cup {0}]

(* Buses are handled in the modes O and P, under a plan with a signal for   *)
(* each of them; the sequences of the return follow each other.             *)
Sane(c) ==
  /\ c \in Controls
  /\ c.mode \in {"O", "P"} <=> c.vgps # {}
  /\ c.vgps # {} => c.plan \in Priorities /\ c.vgps \subseteq c.plan.served
  /\ c.mode # "N" => c.retour1 \in Num /\ c.retour2 = GetNextSequence(c.retour1)

(* A return in two sequences still takes the time to the start of the one   *)
(* after them in the normal plan.                                           *)
Countdown(c, p) ==
  c.mode = "Q" /\ c.plan.kind = "return" /\ Len(c.plan.lengths) = 2 =>
    \E t \in Nat : /\ c.fin = c.den * t
                   /\ Meets(p, t, StartOf(GetNextSequence(c.retour2)))

(* The plan of a priority serves the buses seen.                           *)
LEMMA PriorityPlanFacts ==
  ASSUME NEW p \in 0 .. CycleLength - 1, NEW tz \in Nat, NEW seen \in SUBSET Buses
  PROVE  /\ PriorityPlan(p, tz, seen) \in Priorities
         /\ PriorityPlan(p, tz, seen).served = seen
<1> DEFINE act == GetSequence(p)
           elapsed == p - StartOf(act)
           arrival == (p + tz) % CycleLength
           zone == GetSequence(arrival)
           since == arrival - StartOf(zone)
           lprev == Length(PrevSequence(zone))
           apply == tz - since - lprev
           deb == IF apply >= 0 THEN apply ELSE 0
           early == GetMinDuree(zone)
           plan(d, lengths, i, before) ==
             [kind |-> "priority", deb |-> d, lengths |-> lengths, copied |-> i,
              before |-> before, served |-> seen]
           one == plan(deb, <<tz - deb - Rouge>>, zone, IF deb = 0 THEN elapsed ELSE 0)
           two == plan(deb - elapsed, <<early, Rouge>>, zone, 0)
           three == plan(deb - elapsed, <<tz - (deb - elapsed)>>, act, 0)
<1>1. PriorityPlan(p, tz, seen) \in {one, two, three}
  BY DEF PriorityPlan
<1>2. act \in Num /\ elapsed \in Int
  <2>1. act \in Num /\ StartOf(act) = Offset(act)
    BY SequenceFound
  <2>2. Offset(act) \in Nat
    BY <2>1, PlanType, OffsetsGrow
  <2> HIDE DEF act
  <2> QED
    BY <2>1, <2>2
<1>3. zone \in Num /\ since \in Int
  <2>1. CycleLength \in Nat \ {0}
    BY OffsetsGrow
  <2>2. arrival \in 0 .. CycleLength - 1
    BY <2>1, Remainder
  <2> HIDE DEF arrival
  <2>3. zone \in Num /\ StartOf(zone) = Offset(zone)
    BY <2>2, SequenceFound
  <2>4. Offset(zone) \in Nat
    BY <2>3, PlanType, OffsetsGrow
  <2> HIDE DEF zone
  <2> QED
    BY <2>1, <2>2, <2>3, <2>4
<1> HIDE DEF act, elapsed, zone, since
<1>4. lprev \in Int /\ early \in Int /\ Rouge \in Int
  <2>1. PrevSequence(zone) \in Num
    BY <1>3, PlanType DEF PrevSequence
  <2> QED
    BY <1>3, <2>1, PlanType DEF GetMinDuree
<1> HIDE DEF lprev, early
<1>5. apply \in Int
  BY <1>3, <1>4
<1> HIDE DEF apply
<1>6. deb \in Int
  BY <1>5
<1> HIDE DEF deb
<1>7. one \in Priorities /\ two \in Priorities /\ three \in Priorities
  BY <1>2, <1>3, <1>4, <1>6 DEF Priorities
<1>8. one.served = seen /\ two.served = seen /\ three.served = seen
  OBVIOUS
<1> HIDE DEF one, two, three
<1> QED
  BY <1>1, <1>7, <1>8

(* Buses that are detected join those to serve.                            *)
LEMMA DetectFacts ==
  ASSUME NEW c, Sane(c), NEW seen \in SUBSET Buses, NEW tz \in Nat,
         phase' \in 0 .. CycleLength - 1
  PROVE  /\ Sane(Detect(c, seen, tz)) /\ Detect(c, seen, tz).vgps = c.vgps \cup seen
         /\ Detect(c, seen, tz).mode \in {"N", "Q"} => Detect(c, seen, tz) = c
<1> DEFINE d == Detect(c, seen, tz)
           act == GetSequence(phase')
           r1 == GetNextSequence(act)
           r2 == GetNextSequence(r1)
           plan == PriorityPlan(phase', tz, seen)
<1>1. c \in Controls
  BY DEF Sane
<1>2. CASE seen = {}
  BY <1>2 DEF Detect
<1>3. CASE seen # {} /\ c.vgps # {}
  <2>1. d = [c EXCEPT !.vgps = @ \cup seen, !.plan.served = @ \cup seen]
    BY <1>3 DEF Detect
  <2>2. c.plan \in Priorities /\ c.vgps \subseteq c.plan.served
    BY <1>3 DEF Sane
  <2> DEFINE q == [c.plan EXCEPT !.served = @ \cup seen]
  <2>3. q \in Priorities /\ q.served = c.plan.served \cup seen /\ q \in Plans
    BY <2>2 DEF Priorities, Plans
  <2>4. d = [c EXCEPT !.vgps = @ \cup seen, !.plan = q]
    BY <1>1, <2>1 DEF Controls
  <2> HIDE DEF d, q
  <2>5. d \in Controls /\ d.vgps = c.vgps \cup seen /\ d.plan = q /\ d.mode = c.mode
        /\ d.retour1 = c.retour1 /\ d.retour2 = c.retour2
    BY <1>1, <2>3, <2>4 DEF Controls
  <2>6. Sane(d) /\ d.mode \notin {"N", "Q"}
    BY <1>3, <2>2, <2>3, <2>5 DEF Sane
  <2> QED
    BY <2>5, <2>6 DEF d
<1>4. CASE seen # {} /\ c.vgps = {}
  <2>1. d = [c EXCEPT !.mode = "O", !.vgps = seen, !.fin = 0, !.den = 1, !.plan = plan,
                      !.retour1 = r1, !.retour2 = r2]
    BY <1>4 DEF Detect
  <2>2. plan \in Priorities /\ plan.served = seen /\ plan \in Plans
    BY PriorityPlanFacts DEF Plans
  <2>3. act \in Num
    BY SequenceFound
  <2>4. r1 \in Num /\ r2 \in Num /\ r2 = GetNextSequence(r1)
    <3> HIDE DEF act
    <3>1. r1 \in Num
      BY <2>3, NextFacts
    <3> QED
      BY <3>1, NextFacts
  <2> HIDE DEF d, plan, r1, r2
  <2>5. d \in Controls /\ d.vgps = seen /\ d.plan = plan /\ d.mode = "O"
        /\ d.retour1 = r1 /\ d.retour2 = r2
    <3>1. 0 \in Int /\ 1 \in Nat \ {0} /\ r1 \in Num \cup {0} /\ r2 \in Num \cup {0}
      BY <2>4
    <3> QED
      BY <1>1, <2>1, <2>2, <3>1 DEF Controls
  <2>6. Sane(d)
    BY <1>4, <2>2, <2>4, <2>5 DEF Sane
  <2> QED
    BY <1>4, <2>5, <2>6 DEF d
<1> QED
  BY <1>2, <1>3, <1>4

(* Buses that enter the zone keep the controller sane.                     *)
LEMMA EnterFacts ==
  ASSUME NEW c, Sane(c), NEW entered
  PROVE  /\ Sane(Enter(c, entered)) /\ Enter(c, entered).vgps = c.vgps
         /\ Enter(c, entered).mode \in {"N", "Q"} => Enter(c, entered) = c
<1> DEFINE d == Enter(c, entered)
<1>1. CASE c.mode = "O" /\ c.vgps \cap entered # {}
  <2>1. d = [c EXCEPT !.mode = "P"]
    BY <1>1 DEF Enter
  <2> HIDE DEF d
  <2>2. d \in Controls /\ d.mode = "P" /\ d.vgps = c.vgps /\ d.plan = c.plan
        /\ d.retour1 = c.retour1 /\ d.retour2 = c.retour2
    BY <2>1 DEF Sane, Controls
  <2>3. Sane(d)
    BY <1>1, <2>2 DEF Sane
  <2> QED
    BY <2>2, <2>3 DEF d
<1>2. CASE ~(c.mode = "O" /\ c.vgps \cap entered # {})
  BY <1>2 DEF Enter
<1> QED
  BY <1>1, <1>2

(* Buses that leave are served; a return starts its countdown.             *)
LEMMA ExitFacts ==
  ASSUME NEW c, Sane(c), NEW out, phase' \in 0 .. CycleLength - 1
  PROVE  /\ Sane(Exit(c, out)) /\ c.vgps \ out \subseteq Exit(c, out).vgps
         /\ Exit(c, out).mode = "N" => Exit(c, out) = c
         /\ Exit(c, out).mode = "Q" =>
              \/ Exit(c, out) = c
              \/ Exit(c, out).fin > 0 /\ Countdown(Exit(c, out), phase')
<1> DEFINE d == Exit(c, out)
           left == c.vgps \ out
           plan == ReturnPlan(phase', c.retour1, c.retour2)
<1>1. c \in Controls
  BY DEF Sane
<1>2. CASE c.mode # "P"
  BY <1>2 DEF Exit
<1>3. CASE c.mode = "P" /\ left # {}
  <2>1. d = [c EXCEPT !.vgps = left]
    BY <1>3 DEF Exit
  <2> HIDE DEF d
  <2>2. d \in Controls /\ d.mode = "P" /\ d.vgps = left /\ d.plan = c.plan
        /\ d.retour1 = c.retour1 /\ d.retour2 = c.retour2
    BY <1>1, <1>3, <2>1 DEF Controls
  <2>3. Sane(d)
    BY <1>3, <2>2 DEF Sane
  <2> QED
    BY <2>2, <2>3 DEF d
<1>4. CASE c.mode = "P" /\ left = {}
  <2>1. d = [c EXCEPT !.vgps = {}, !.mode = "Q", !.plan = plan, !.den = plan.den,
                      !.fin = Total(plan.lengths)]
    BY <1>4 DEF Exit, Total
  <2>2. c.retour1 \in Num /\ c.retour2 = GetNextSequence(c.retour1)
    BY <1>4 DEF Sane
  <2>3. /\ plan \in Returns /\ Total(plan.lengths) \in Int /\ Total(plan.lengths) > 0
        /\ Len(plan.lengths) = 2 =>
             \E t \in Nat \ {0} : /\ Total(plan.lengths) = plan.den * t
                                  /\ Meets(phase', t, StartOf(GetNextSequence(c.retour2)))
    BY <2>2, ReturnPlanFacts
  <2> HIDE DEF d, plan
  <2>4. plan.den \in Nat \ {0} /\ plan \in Plans
    BY <2>3 DEF Returns, Plans
  <2>5. /\ d \in Controls /\ d.mode = "Q" /\ d.vgps = {} /\ d.plan = plan
        /\ d.den = plan.den /\ d.fin = Total(plan.lengths)
        /\ d.retour1 = c.retour1 /\ d.retour2 = c.retour2
    BY <1>1, <2>1, <2>3, <2>4 DEF Controls
  <2>6. Sane(d)
    BY <2>2, <2>5 DEF Sane
  <2>7. d.fin > 0 /\ Countdown(d, phase')
    BY <2>3, <2>5 DEF Countdown
  <2> QED
    BY <1>4, <2>5, <2>6, <2>7 DEF d
<1> QED
  BY <1>2, <1>3, <1>4

(* A plan ends only when its time is over.                                 *)
LEMMA FinishFacts ==
  ASSUME NEW c, Sane(c)
  PROVE  /\ Sane(Finish(c)) /\ Finish(c).vgps = c.vgps
         /\ Finish(c).mode = "Q" => Finish(c) = c /\ c.fin > 0
         /\ Finish(c).mode = "N" => c.mode = "N" \/ (c.mode = "Q" /\ c.fin <= 0)
<1> DEFINE d == Finish(c)
<1>1. c \in Controls /\ c.fin \in Int
  BY DEF Sane, Controls
<1>2. CASE c.mode = "Q" /\ c.fin <= 0
  <2>1. d = [c EXCEPT !.mode = "N", !.plan = NoPlan, !.fin = 0, !.den = 1, !.vgps = {}]
    BY <1>2 DEF Finish
  <2>2. c.vgps = {}
    BY <1>2 DEF Sane
  <2> HIDE DEF d
  <2>3. d \in Controls /\ d.mode = "N" /\ d.vgps = {}
    <3>1. 0 \in Int /\ 1 \in Nat \ {0} /\ NoPlan \in Plans
      BY DEF Plans
    <3> QED
      BY <1>1, <2>1, <3>1 DEF Controls
  <2>4. Sane(d)
    BY <2>3 DEF Sane
  <2> QED
    BY <1>2, <2>2, <2>3, <2>4 DEF d
<1>3. CASE ~(c.mode = "Q" /\ c.fin <= 0)
  <2>1. d = c
    BY <1>3 DEF Finish
  <2> HIDE DEF d
  <2>2. d.mode = "Q" => d.fin > 0
    BY <1>1, <1>3, <2>1
  <2>3. d.mode = "N" => c.mode = "N"
    BY <2>1
  <2> QED
    BY <2>1, <2>2, <2>3 DEF d
<1> QED
  BY <1>2, <1>3

(* The look-ahead changes neither the buses nor the countdown.             *)
LEMMA LookAheadFacts ==
  ASSUME NEW c, Sane(c), NEW h
  PROVE  /\ Sane(LookAhead(c, h)) /\ LookAhead(c, h).vgps = c.vgps
         /\ LookAhead(c, h).mode = c.mode /\ LookAhead(c, h).fin = c.fin
         /\ \A p : Countdown(c, p) => Countdown(LookAhead(c, h), p)
<1> DEFINE d == LookAhead(c, h)
<1>1. CASE ~piloted /\ c.plan.kind = "return" /\ h * c.den > c.fin
  <2>1. d = [c EXCEPT !.plan = NoPlan]
    BY <1>1 DEF LookAhead
  <2>2. c.vgps = {}
    BY <1>1 DEF Sane, Priorities
  <2> HIDE DEF d
  <2>3. d \in Controls /\ d.mode = c.mode /\ d.vgps = c.vgps /\ d.plan = NoPlan
        /\ d.fin = c.fin /\ d.retour1 = c.retour1 /\ d.retour2 = c.retour2
    <3>1. NoPlan \in Plans
      BY DEF Plans
    <3> QED
      BY <2>1, <3>1 DEF Sane, Controls
  <2>4. Sane(d)
    BY <2>2, <2>3 DEF Sane
  <2>5. \A p : Countdown(d, p)
    BY <2>3 DEF Countdown, NoPlan
  <2> QED
    BY <2>3, <2>4, <2>5 DEF d
<1>2. CASE ~(~piloted /\ c.plan.kind = "return" /\ h * c.den > c.fin)
  BY <1>2 DEF LookAhead
<1> QED
  BY <1>1, <1>2

(***************************************************************************)
(* The inductive invariant.                                                *)
(***************************************************************************)
Stages == Upstream .. Beyond

(* Every bus between the two sensors is handled, or missed by the first.     *)
Handled(st, out, c) ==
  \A b \in Buses : st[b] \in {Approach, Zone} /\ b \notin out => b \in c.vgps

IInv ==
  /\ phase \in 0 .. CycleLength - 1
  /\ stage \in [Buses -> Stages] /\ gone \in SUBSET Buses /\ unseen \in SUBSET Buses
  /\ piloted \in BOOLEAN
  /\ Sane(cdf) /\ Handled(stage, gone \cup unseen, cdf)
  /\ cdf.mode = "Q" => cdf.fin > 0
  /\ ~piloted => Countdown(cdf, phase)

(* The invariant holds at first.                                           *)
LEMMA InitInv == Init => IInv
<1> SUFFICES ASSUME Init PROVE IInv
  OBVIOUS
<1>1. /\ phase \in 0 .. CycleLength - 1 /\ stage = [b \in Buses |-> Upstream]
      /\ gone = {} /\ unseen = {} /\ piloted = FALSE
      /\ cdf = [mode |-> "N", vgps |-> {}, plan |-> NoPlan, fin |-> 0, den |-> 1,
                retour1 |-> 0, retour2 |-> 0]
  BY DEF Init
<1>2. NoPlan \in Plans /\ 1 \in Nat \ {0}
  BY DEF Plans
<1>3. cdf \in Controls /\ cdf.mode = "N" /\ cdf.vgps = {}
  BY <1>1, <1>2 DEF Controls
<1>4. Sane(cdf)
  BY <1>3 DEF Sane
<1>5. stage \in [Buses -> Stages] /\ \A b \in Buses : stage[b] = 0
  BY <1>1 DEF Stages, Upstream, Beyond
<1>6. Handled(stage, gone \cup unseen, cdf)
  BY <1>5 DEF Handled, Approach, Zone
<1>7. Countdown(cdf, phase)
  BY <1>3 DEF Countdown
<1> QED
  BY <1>1, <1>3, <1>4, <1>5, <1>6, <1>7 DEF IInv

(* One unit later one unit less is left.                                    *)
LEMMA MeetsNext ==
  ASSUME NEW p \in 0 .. CycleLength - 1, NEW t \in Nat \ {0},
         NEW i \in Num, Meets(p, t, StartOf(i))
  PROVE  /\ (p + 1) % CycleLength \in 0 .. CycleLength - 1
         /\ Meets((p + 1) % CycleLength, t - 1, StartOf(i))
<1> DEFINE C == CycleLength
           s == StartOf(i)
           q == (p + 1) % C
<1>1. C \in Nat \ {0}
  BY OffsetsGrow
<1>2. s \in Nat /\ s < C
  <2>1. s = Offset(i) /\ i \in 1 .. Len(Plan) /\ Len(Plan) \in Nat
    BY PlanType DEF StartOf, Starts, Offset
  <2>2. /\ Offset(i) \in Nat /\ Offset(i + 1) = Offset(i) + Length(i)
        /\ Offset(i + 1) <= C /\ Length(i) \in Nat \ {0}
    <3>1. i \in 1 .. Len(Plan) + 1 /\ i + 1 \in 1 .. Len(Plan) + 1
          /\ Len(Plan) + 1 \in 1 .. Len(Plan) + 1 /\ i + 1 <= Len(Plan) + 1
      BY <2>1
    <3> QED
      BY <3>1, OffsetsGrow, PlanType
  <2> HIDE DEF C, s
  <2> QED
    BY <1>1, <2>1, <2>2
<1>3. p + t \in {s, s + C, s + 2 * C}
  BY DEF Meets
<1>4. q = IF p + 1 < C THEN p + 1 ELSE 0
  <2> DEFINE a == p + 1
  <2>1. a \in Nat /\ a <= C
    BY <1>1
  <2>2. q = a % C
    OBVIOUS
  <2> HIDE DEF C, q, a
  <2>3. (a < C => a % C = a) /\ (C <= a /\ a < 2 * C => a % C = a - C)
    BY <1>1, <2>1, Remainder
  <2>4. a = C => C <= a /\ a < 2 * C /\ a - C = 0
    BY <1>1
  <2>5. q = IF a < C THEN a ELSE 0
    BY <1>1, <2>1, <2>2, <2>3, <2>4
  <2> QED
    BY <2>5 DEF a
<1>5. p \in Nat /\ p + 1 <= C
  BY <1>1
<1> HIDE DEF C, s, q
<1>6. q \in 0 .. C - 1
  BY <1>1, <1>4, <1>5
<1>7. q + (t - 1) \in {s, s + C, s + 2 * C}
  BY <1>1, <1>2, <1>3, <1>4, <1>5
<1> QED
  BY <1>6, <1>7 DEF Meets, C, s, q

(* A product of naturals, one factor less.                                 *)
LEMMA ProductDown ==
  ASSUME NEW d \in Nat \ {0}, NEW t \in Nat
  PROVE  /\ t # 0 => d * t - d = d * (t - 1)
         /\ d * t <= 0 => t = 0
<1>1. d * t - d = d * (t - 1)
  OBVIOUS
<1>2. t # 0 => d * t > 0
  <2>1. t # 0 => d * t \in Nat \ {0}
    BY ProductsPositive
  <2> QED
    BY <2>1
<1>3. d * t \in Int
  BY ProductsPositive
<1> QED
  BY <1>1, <1>2, <1>3

(* The buses the sensors count.                                             *)
LEMMA HandledNext ==
  ASSUME IInv, Move, NEW reach \in Reaches, NEW c,
         Passes(Approach, reach) \cup cdf.vgps \subseteq c \cup (Passes(Beyond, reach) \cup gone'),
         unseen' = {b \in Buses \ gone' :
                      /\ stage'[b] \in {Approach, Zone}
                      /\ IF stage[b] = Upstream THEN b \notin Passes(Approach, reach)
                         ELSE b \in unseen}
  PROVE  \A b \in Buses : stage'[b] \in {Approach, Zone} /\ b \notin gone' \cup unseen' => b \in c
<1> SUFFICES ASSUME NEW b \in Buses, stage'[b] \in {Approach, Zone}, b \notin gone',
                    b \notin unseen'
             PROVE  b \in c
  OBVIOUS
<1>1. /\ stage[b] \in 0 .. 3 /\ stage'[b] \in {1, 2}
      /\ \/ stage'[b] >= stage[b] /\ (b \in gone => stage'[b] = stage[b])
         \/ stage'[b] = 0
  BY DEF IInv, Move, Stages, Upstream, Approach, Zone, Beyond
<1>2. b \in gone => b \in gone'
  <2>1. stage'[b] # Upstream
    BY <1>1 DEF Upstream
  <2> QED
    BY <2>1 DEF Move
<1>3. b \notin gone /\ stage'[b] >= stage[b]
  BY <1>1, <1>2
<1>4. b \notin Passes(Beyond, reach)
  <2>1. reach[b] \in 0 .. 3 /\ (reach[b] = stage'[b] \/ reach[b] < stage'[b])
    BY DEF Reaches, Upstream, Beyond
  <2>2. ~(reach[b] >= 3)
    BY <1>1, <2>1
  <2> QED
    BY <2>2 DEF Passes, Beyond
<1>5. CASE stage[b] = 0
  <2>1. b \in Passes(Approach, reach)
    BY <1>5 DEF Upstream
  <2> QED
    BY <1>4, <2>1
<1>6. CASE stage[b] # 0
  <2>1. stage[b] \in {Approach, Zone}
    BY <1>1, <1>3, <1>6 DEF Approach, Zone
  <2>2. b \notin unseen
    BY <1>6 DEF Upstream
  <2>3. b \in cdf.vgps
    BY <1>3, <2>1, <2>2 DEF IInv, Handled
  <2> QED
    BY <1>4, <2>3
<1> QED
  BY <1>5, <1>6

(* What Update does to the control: everyone who must be handled is, and    *)
(* the return counts down to the instant it was made for.                   *)
LEMMA UpdateFacts ==
  ASSUME IInv, NEW tz \in Nat, NEW reach, Update(tz, reach),
         phase' = (phase + 1) % CycleLength, phase' \in 0 .. CycleLength - 1,
         Passes(Approach, reach) \in SUBSET Buses
  PROVE  /\ Sane(cdf')
         /\ Passes(Approach, reach) \cup cdf.vgps
              \subseteq cdf'.vgps \cup (Passes(Beyond, reach) \cup gone')
         /\ cdf'.mode = "Q" => cdf'.fin > 0
         /\ ~piloted => Countdown(cdf', phase')
         /\ cdf.mode = "Q" /\ cdf'.mode = "N" /\ ~piloted /\ cdf.plan.kind = "return"
            /\ Len(cdf.plan.lengths) = 2
              => phase' = StartOf(GetNextSequence(cdf.retour2))
<1> DEFINE c == [cdf EXCEPT !.fin = IF cdf.mode = "Q" THEN @ - cdf.den ELSE @]
           seen == Passes(Approach, reach)
           out == Passes(Beyond, reach) \cup gone'
           d == Detect(c, seen, tz)
           e == Enter(d, Passes(Zone, reach))
           x == Exit(e, out)
           f == Finish(x)
<1>1. cdf' = f \/ \E h : cdf' = LookAhead(f, h)
  BY DEF Update
<1>2. /\ c \in Controls /\ c.mode = cdf.mode /\ c.vgps = cdf.vgps /\ c.plan = cdf.plan
      /\ c.den = cdf.den /\ c.retour1 = cdf.retour1 /\ c.retour2 = cdf.retour2
      /\ c.fin = IF cdf.mode = "Q" THEN cdf.fin - cdf.den ELSE cdf.fin
  <2>1. cdf \in Controls
    BY DEF IInv, Sane
  <2>2. cdf.fin \in Int /\ cdf.den \in Nat
    BY <2>1 DEF Controls
  <2>3. (IF cdf.mode = "Q" THEN cdf.fin - cdf.den ELSE cdf.fin) \in Int
    BY <2>2
  <2> QED
    BY <2>1, <2>3 DEF Controls
<1> HIDE DEF c, seen, out
<1>3. Sane(c)
  BY <1>2 DEF IInv, Sane
<1>4. ~piloted => Countdown(c, phase')
  <2> SUFFICES ASSUME ~piloted, c.mode = "Q", c.plan.kind = "return",
                      Len(c.plan.lengths) = 2
               PROVE  \E t \in Nat : /\ c.fin = c.den * t
                                     /\ Meets(phase', t, StartOf(GetNextSequence(c.retour2)))
    BY DEF Countdown
  <2>1. PICK t \in Nat : /\ cdf.fin = cdf.den * t
                         /\ Meets(phase, t, StartOf(GetNextSequence(cdf.retour2)))
    BY <1>2 DEF IInv, Countdown
  <2>2. cdf.den \in Nat \ {0} /\ cdf.fin > 0
    BY <1>2 DEF IInv, Sane, Controls
  <2>3. t # 0
    BY <2>1, <2>2
  <2> DEFINE i == GetNextSequence(cdf.retour2)
  <2>4. i \in Num
    <3>1. cdf.retour2 \in Num
      BY <1>2, NextFacts DEF IInv, Sane
    <3> QED
      BY <3>1, NextFacts
  <2>5. Meets(phase', t - 1, StartOf(i))
    <3>1. Meets(phase, t, StartOf(i)) /\ phase \in 0 .. CycleLength - 1 /\ t \in Nat \ {0}
      BY <2>1, <2>3 DEF IInv
    <3> HIDE DEF i
    <3> QED
      BY <2>4, <3>1, MeetsNext
  <2>6. t - 1 \in Nat /\ c.fin = c.den * (t - 1)
    <3>1. cdf.den * t - cdf.den = cdf.den * (t - 1)
      BY <2>2, <2>3, ProductDown
    <3> QED
      BY <1>2, <2>1, <2>3, <3>1
  <2> QED
    BY <1>2, <2>5, <2>6
<1>5. /\ Sane(d) /\ d.vgps = c.vgps \cup seen
      /\ d.mode \in {"N", "Q"} => d = c
  BY <1>3, DetectFacts DEF seen
<1> HIDE DEF d
<1>6. /\ Sane(e) /\ e.vgps = d.vgps /\ (e.mode \in {"N", "Q"} => e = d)
  BY <1>5, EnterFacts
<1> HIDE DEF e
<1>7. /\ Sane(x) /\ e.vgps \ out \subseteq x.vgps /\ (x.mode = "N" => x = e)
      /\ x.mode = "Q" => x = e \/ (x.fin > 0 /\ Countdown(x, phase'))
  BY <1>6, ExitFacts
<1> HIDE DEF x
<1>8. /\ Sane(f) /\ f.vgps = x.vgps
      /\ f.mode = "Q" => f = x /\ x.fin > 0
      /\ f.mode = "N" => x.mode = "N" \/ (x.mode = "Q" /\ x.fin <= 0)
  BY <1>7, FinishFacts
<1> HIDE DEF f
<1>9. x.mode = "Q" => x = c \/ (x.fin > 0 /\ Countdown(x, phase'))
  BY <1>5, <1>6, <1>7
<1>10. x.mode = "N" => x = c
  BY <1>5, <1>6, <1>7
<1>11. f.mode = "Q" => f.fin > 0 /\ (~piloted => Countdown(f, phase'))
  BY <1>4, <1>8, <1>9
<1>12. f.mode # "Q" => Countdown(f, phase')
  BY DEF Countdown
<1>13. /\ Sane(cdf') /\ cdf'.vgps = f.vgps /\ cdf'.mode = f.mode /\ cdf'.fin = f.fin
       /\ Countdown(f, phase') => Countdown(cdf', phase')
  BY <1>1, <1>8, LookAheadFacts
<1>14. seen \cup cdf.vgps \subseteq cdf'.vgps \cup out
  BY <1>2, <1>5, <1>6, <1>7, <1>8, <1>13
<1>15. ASSUME cdf.mode = "Q", cdf'.mode = "N", ~piloted, cdf.plan.kind = "return",
              Len(cdf.plan.lengths) = 2
       PROVE  phase' = StartOf(GetNextSequence(cdf.retour2))
  <2>1. x = c /\ x.mode = "Q" /\ x.fin <= 0
    <3>1. x.mode # "N"
      BY <1>2, <1>10, <1>15
    <3>2. x.mode = "Q" /\ x.fin <= 0
      BY <1>8, <1>13, <1>15, <3>1
    <3>3. x.fin \in Int
      BY <1>7 DEF Sane, Controls
    <3> QED
      BY <1>9, <3>2, <3>3
  <2>2. PICK t \in Nat : /\ c.fin = c.den * t
                         /\ Meets(phase', t, StartOf(GetNextSequence(c.retour2)))
    BY <1>2, <1>4, <1>15 DEF Countdown
  <2>3. t = 0
    <3>1. c.den \in Nat \ {0}
      BY <1>2 DEF Controls
    <3> QED
      BY <2>1, <2>2, <3>1, ProductDown
  <2> DEFINE s == StartOf(GetNextSequence(cdf.retour2))
  <2>4. phase' + 0 \in {s, s + CycleLength, s + 2 * CycleLength}
    BY <1>2, <2>2, <2>3 DEF Meets
  <2>5. s \in Nat
    <3>1. cdf.retour2 \in Num
      BY <1>15, NextFacts DEF IInv, Sane
    <3> DEFINE i == GetNextSequence(cdf.retour2)
    <3>2. i \in Num
      BY <3>1, NextFacts
    <3>3. StartOf(i) = Offset(i) /\ Offset(i) \in Nat
      <4> HIDE DEF i
      <4> QED
        BY <3>2, PlanType, OffsetsGrow DEF StartOf, Starts, Offset
    <3> QED
      BY <3>3
  <2>6. CycleLength \in Nat \ {0}
    BY OffsetsGrow
  <2> HIDE DEF s
  <2>7. phase' = s
    BY <2>4, <2>5, <2>6
  <2> QED
    BY <2>7 DEF s
<1> QED
  BY <1>11, <1>12, <1>13, <1>14, <1>15 DEF seen, out

(* A step keeps the invariant and ends the return in phase.                *)
LEMMA StepInv ==
  ASSUME IInv, Step
  PROVE  /\ IInv'
         /\ cdf.mode = "Q" /\ cdf'.mode = "N" /\ ~piloted /\ cdf.plan.kind = "return"
            /\ Len(cdf.plan.lengths) = 2
              => phase' = StartOf(GetNextSequence(cdf.retour2))
<1>1. Move /\ phase' = (phase + 1) % CycleLength /\ piloted' = piloted
  BY DEF Step
<1>2. phase' \in 0 .. CycleLength - 1
  <2>1. CycleLength \in Nat \ {0} /\ phase + 1 \in Nat
    BY OffsetsGrow DEF IInv
  <2> QED
    BY <1>1, <2>1, Remainder
<1>3. stage' \in [Buses -> Stages] /\ gone' \in SUBSET Buses
  BY <1>1 DEF Move, IInv, Stages
<1>4. \A reach : Passes(Approach, reach) \in SUBSET Buses
  BY DEF Passes
<1>5. PICK reach \in Reaches, tz \in Nat :
        /\ Update(tz, reach)
        /\ unseen' = {b \in Buses \ gone' :
                       /\ stage'[b] \in {Approach, Zone}
                       /\ IF stage[b] = Upstream THEN b \notin Passes(Approach, reach)
                          ELSE b \in unseen}
  <2>1. TravelTimes \subseteq Nat /\ 0 \in Nat
    BY PlanAssumption
  <2> QED
    BY <2>1 DEF Step
<1>6. /\ Sane(cdf')
      /\ Passes(Approach, reach) \cup cdf.vgps
           \subseteq cdf'.vgps \cup (Passes(Beyond, reach) \cup gone')
      /\ cdf'.mode = "Q" => cdf'.fin > 0
      /\ ~piloted => Countdown(cdf', phase')
      /\ cdf.mode = "Q" /\ cdf'.mode = "N" /\ ~piloted /\ cdf.plan.kind = "return"
         /\ Len(cdf.plan.lengths) = 2
           => phase' = StartOf(GetNextSequence(cdf.retour2))
  BY <1>1, <1>2, <1>4, <1>5, UpdateFacts
<1>7. Handled(stage, gone \cup unseen, cdf)'
  BY <1>1, <1>5, <1>6, HandledNext DEF Handled
<1>8. unseen' \in SUBSET Buses
  BY <1>5
<1> QED
  BY <1>1, <1>2, <1>3, <1>6, <1>7, <1>8 DEF IInv

(* Every step keeps the invariant and ends the return in phase.            *)
LEMMA NextInv ==
  ASSUME IInv, [Next]_vars
  PROVE  /\ IInv'
         /\ [cdf.mode = "Q" /\ cdf'.mode = "N" /\ ~piloted /\ cdf.plan.kind = "return"
             /\ Len(cdf.plan.lengths) = 2
               => phase' = StartOf(GetNextSequence(cdf.retour2))]_vars
<1>1. CASE Step
  BY <1>1, StepInv
<1>2. CASE MesoQuery
  <2>1. PICK h : cdf' = LookAhead(cdf, h)
    BY <1>2 DEF MesoQuery
  <2>2. /\ phase' = phase /\ stage' = stage /\ gone' = gone /\ unseen' = unseen
        /\ piloted' = piloted
    BY <1>2 DEF MesoQuery
  <2>3. /\ Sane(cdf') /\ cdf'.vgps = cdf.vgps /\ cdf'.mode = cdf.mode /\ cdf'.fin = cdf.fin
        /\ \A p : Countdown(cdf, p) => Countdown(cdf', p)
    BY <2>1, LookAheadFacts DEF IInv
  <2>4. IInv'
    BY <2>2, <2>3 DEF IInv, Handled
  <2> QED
    BY <2>3, <2>4
<1>3. CASE SendSignalPlan
  <2>1. /\ piloted' = TRUE /\ phase' = 0 /\ stage' = stage /\ gone' = gone
        /\ unseen' = unseen /\ cdf' = cdf
    BY <1>3 DEF SendSignalPlan
  <2>2. phase' \in 0 .. CycleLength - 1
    BY <2>1, OffsetsGrow
  <2> QED
    BY <2>1, <2>2 DEF IInv
<1>4. CASE UNCHANGED vars
  <2>1. /\ phase' = phase /\ stage' = stage /\ gone' = gone /\ unseen' = unseen
        /\ piloted' = piloted /\ cdf' = cdf
    BY <1>4 DEF vars
  <2> QED
    BY <1>4, <2>1 DEF IInv
<1> QED
  BY <1>1, <1>2, <1>3, <1>4 DEF Next

(***************************************************************************)
(* The theorems.                                                           *)
(***************************************************************************)
THEOREM Invariance == Spec => []IInv
<1>1. Init => IInv
  BY InitInv
<1>2. IInv /\ [Next]_vars => IInv'
  BY NextInv
<1> QED
  BY <1>1, <1>2, PTL DEF Spec

(* The variables keep their types: the instant stays within the cycle, and  *)
(* the fraction of a time unit a return counts in is never 0.               *)
THEOREM TypeCorrect == Spec => []TypeOK
<1>1. IInv => TypeOK
  <2> SUFFICES ASSUME IInv PROVE TypeOK
    OBVIOUS
  <2>1. cdf \in Controls
    BY DEF IInv, Sane
  <2>2. cdf.plan.kind \in {"none", "priority", "return"}
    BY <2>1 DEF Controls, Plans, NoPlan, Priorities, Returns
  <2> QED
    BY <2>1, <2>2 DEF IInv, TypeOK, Stages, Controls
<1> QED
  BY <1>1, Invariance, PTL

(* The assertion of Update holds, and every bus between the sensors that     *)
(* the first has not missed is waited for, whichever buses the others miss   *)
(* (IsPasse) and whatever is asked of the lights.                            *)
THEOREM EveryBusServed == Spec => []BusesServed
<1>1. IInv => BusesServed
  <2> SUFFICES ASSUME IInv PROVE BusesServed
    OBVIOUS
  <2>1. Sane(cdf) /\ Handled(stage, gone \cup unseen, cdf)
    BY DEF IInv
  <2> QED
    BY <2>1 DEF BusesServed, Sane, Handled, Priorities
<1> QED
  BY <1>1, Invariance, PTL

(* No light jumps at the end of a return in two sequences, for every plan:  *)
(* the normal plan starts the sequence after them at that very instant.     *)
THEOREM ReturnMeetsNormalPlan == Spec => ReturnsInPhase
<1>1. IInv /\ [Next]_vars =>
        [cdf.mode = "Q" /\ cdf'.mode = "N" /\ ~piloted /\ cdf.plan.kind = "return"
         /\ Len(cdf.plan.lengths) = 2
           => phase' = StartOf(GetNextSequence(cdf.retour2))]_vars
  BY NextInv
<1> QED
  BY <1>1, Invariance, PTL DEF Spec, ReturnsInPhase

(***************************************************************************)
(* The minimal green.                                                      *)
(***************************************************************************)
(* When a bus is announced earlier than one sequence ahead, the sequence    *)
(* replaced before the priority is long enough for the minimal duration of  *)
(* the one that is copied in its place.                                     *)
EarlyPlansFit ==
  \A tz \in TravelTimes, zone \in Num :
    LET prev == Length(PrevSequence(zone))
    IN tz > prev => /\ prev >= GetMinDuree(zone) + Rouge
                    /\ \A act \in Num \ {zone} : prev >= GetMinDuree(act)

(* The greens of a plan are long enough: those of a return always, the one  *)
(* before a priority under this condition.                                  *)
Green(q) ==
  /\ EarlyPlansFit /\ q.kind = "priority" =>
       q.before + q.lengths[1] >= GetMinDuree(q.copied)
  /\ q.kind = "return" => \A j \in DOMAIN q.greens : q.greens[j] >= VertMin * q.den

(* An instant is in no other sequence than the one it is found in.          *)
LEMMA SequenceUnique ==
  ASSUME NEW p \in 0 .. CycleLength - 1, NEW k \in Num,
         Offset(k) <= p, p < Offset(k) + Length(k)
  PROVE  GetSequence(p) = k
<1> DEFINE i == GetSequence(p)
<1>1. i \in Num /\ Offset(i) <= p /\ p < Offset(i) + Length(i)
  BY SequenceFound
<1> HIDE DEF i
<1>2. ASSUME NEW a \in Num, NEW b \in Num, a < b, p < Offset(a) + Length(a),
             Offset(b) <= p
      PROVE  FALSE
  <2>1. Len(Plan) \in Nat /\ Num = 1 .. Len(Plan)
    BY PlanType
  <2>2. a + 1 \in 1 .. Len(Plan) + 1 /\ b \in 1 .. Len(Plan) + 1 /\ a + 1 <= b
    BY <1>2, <2>1
  <2>3. Offset(a + 1) <= Offset(b) /\ Offset(a + 1) = Offset(a) + Length(a)
        /\ Offset(a + 1) \in Nat /\ Offset(b) \in Nat
    BY <2>2, OffsetsGrow
  <2> QED
    BY <1>2, <2>3
<1>3. i \in Nat /\ k \in Nat
  BY <1>1, PlanType
<1>4. ~(i < k) /\ ~(k < i)
  BY <1>1, <1>2
<1> QED
  BY <1>3, <1>4 DEF i

(* What is known of the green of a sequence.                                *)
LEMMA GreenType ==
  ASSUME NEW i \in Num
  PROVE  /\ Plan[i].green \in Nat /\ Plan[i].green >= VertMin /\ VertMin \in Nat
         /\ Length(i) \in Nat \ {0} /\ Plan[i].green <= Length(i)
         /\ GetMinDuree(i) \in Nat /\ GetMinDuree(i) <= Length(i)
<1>1. Plan[i].green >= VertMin /\ Plan[i].delay + Plan[i].green <= Length(i)
  BY PlanAssumption DEF Length
<1>2. /\ Plan[i].green \in Nat /\ Plan[i].delay \in Nat /\ Length(i) \in Nat \ {0}
      /\ VertMin \in Nat
  BY PlanType
<1> QED
  BY <1>1, <1>2 DEF GetMinDuree

(* The priority does not come too early.                                    *)
LEMMA PriorityGreen ==
  ASSUME EarlyPlansFit, NEW p \in 0 .. CycleLength - 1, NEW tz \in TravelTimes, NEW seen
  PROVE  Green(PriorityPlan(p, tz, seen))
<1> DEFINE act == GetSequence(p)
           elapsed == p - StartOf(act)
           arrival == (p + tz) % CycleLength
           zone == GetSequence(arrival)
           since == arrival - StartOf(zone)
           lprev == Length(PrevSequence(zone))
           apply == tz - since - lprev
           deb == IF apply >= 0 THEN apply ELSE 0
           plan(d, lengths, i, before) ==
             [kind |-> "priority", deb |-> d, lengths |-> lengths, copied |-> i,
              before |-> before, served |-> seen]
           before == IF deb = 0 THEN elapsed ELSE 0
           one == plan(deb, <<tz - deb - Rouge>>, zone, before)
           two == plan(deb - elapsed, <<GetMinDuree(zone), Rouge>>, zone, 0)
           three == plan(deb - elapsed, <<tz - (deb - elapsed)>>, act, 0)
<1>0. tz \in Nat /\ p \in Nat /\ CycleLength \in Nat \ {0} /\ Rouge \in Nat
  BY PlanAssumption, PlanType, OffsetsGrow
<1>1. PriorityPlan(p, tz, seen) =
        IF zone = act /\ elapsed + tz >= GetMinDuree(zone) + Rouge THEN one
        ELSE IF zone = act THEN two ELSE three
  BY DEF PriorityPlan
<1>2. /\ act \in Num /\ StartOf(act) = Offset(act) /\ Offset(act) \in Nat
      /\ elapsed = p - Offset(act) /\ elapsed \in Nat /\ elapsed < Length(act)
      /\ Offset(act) + Length(act) <= CycleLength
  <2>1. /\ act \in Num /\ StartOf(act) = Offset(act)
        /\ Offset(act) <= p /\ p < Offset(act) + Length(act)
    BY SequenceFound
  <2>2. Offset(act) \in Nat /\ Offset(act) + Length(act) <= CycleLength
    <3> HIDE DEF act
    <3>1. Len(Plan) \in Nat /\ act \in 1 .. Len(Plan) + 1 /\ act + 1 \in 1 .. Len(Plan) + 1
          /\ Len(Plan) + 1 \in 1 .. Len(Plan) + 1 /\ act + 1 <= Len(Plan) + 1
      BY <2>1, PlanType
    <3> QED
      BY <2>1, <3>1, OffsetsGrow
  <2>3. Length(act) \in Nat
    BY <2>1, PlanType
  <2> HIDE DEF act
  <2> QED
    BY <1>0, <2>1, <2>2, <2>3
<1>3. arrival \in 0 .. CycleLength - 1
  BY <1>0, Remainder
<1>4. zone \in Num /\ since \in Nat
  <2> HIDE DEF arrival
  <2>1. zone \in Num /\ StartOf(zone) = Offset(zone) /\ Offset(zone) <= arrival
    BY <1>3, SequenceFound
  <2>2. Offset(zone) \in Nat
    BY <2>1, PlanType, OffsetsGrow
  <2> HIDE DEF zone
  <2> QED
    BY <1>0, <1>3, <2>1, <2>2
<1>5. PrevSequence(zone) \in Num /\ lprev \in Nat \ {0}
  <2> HIDE DEF zone
  <2>1. PrevSequence(zone) \in Num
    BY <1>4, PlanType DEF PrevSequence
  <2> QED
    BY <2>1, PlanType
<1>6. /\ GetMinDuree(zone) \in Nat /\ GetMinDuree(act) \in Nat
      /\ GetMinDuree(act) <= Length(act) /\ Length(act) \in Nat
  <2> HIDE DEF zone, act
  <2> QED
    BY <1>2, <1>4, GreenType
<1>7. tz > lprev => /\ lprev >= GetMinDuree(zone) + Rouge
                    /\ act # zone => lprev >= GetMinDuree(act)
  <2> HIDE DEF zone, act
  <2> QED
    BY <1>2, <1>4 DEF EarlyPlansFit
(* A bus that will arrive in another sequence arrives after the end of this one. *)
<1>8. ASSUME zone # act PROVE tz + elapsed >= Length(act)
  <2> SUFFICES ASSUME tz + elapsed < Length(act) PROVE FALSE
    BY <1>0, <1>2, <1>6
  <2>1. p + tz < CycleLength /\ Offset(act) <= p + tz /\ p + tz < Offset(act) + Length(act)
    <3> DEFINE o == Offset(act)
               l == Length(act)
    <3>1. o \in Nat /\ l \in Nat /\ elapsed = p - o /\ elapsed \in Nat
          /\ o + l <= CycleLength /\ tz + elapsed < l
      BY <1>2, <1>6
    <3> HIDE DEF o, l, elapsed
    <3>2. p + tz < CycleLength /\ o <= p + tz /\ p + tz < o + l
      BY <1>0, <3>1
    <3> QED
      BY <3>2 DEF o, l
  <2>2. arrival = p + tz
    <3> DEFINE a == p + tz
    <3>1. a \in Nat /\ a < CycleLength
      BY <1>0, <2>1
    <3> HIDE DEF a
    <3>2. a % CycleLength = a
      BY <1>0, <3>1, Remainder
    <3> QED
      BY <3>2 DEF a
  <2>3. GetSequence(arrival) = act
    <3> HIDE DEF act, arrival
    <3> QED
      BY <1>2, <1>3, <2>1, <2>2, SequenceUnique
  <2> QED
    BY <1>8, <2>3
<1> HIDE DEF act, elapsed, arrival, zone, lprev, since
<1>9. CASE zone = act /\ elapsed + tz >= GetMinDuree(zone) + Rouge
  <2>1. before + (tz - deb - Rouge) >= GetMinDuree(zone)
    <3>1. CASE deb = 0
      BY <1>0, <1>2, <1>6, <1>9, <3>1
    <3>2. CASE deb # 0
      <4>1. deb = tz - since - lprev /\ tz - since - lprev > 0
        BY <1>0, <1>4, <1>5, <3>2
      <4>2. tz > lprev
        BY <1>0, <1>4, <1>5, <4>1
      <4> HIDE DEF deb
      <4> QED
        BY <1>0, <1>4, <1>5, <1>6, <1>7, <3>2, <4>1, <4>2
    <3> QED
      BY <3>1, <3>2
  <2>2. PriorityPlan(p, tz, seen) = one
    BY <1>1, <1>9
  <2> HIDE DEF deb, before
  <2>3. /\ one.kind = "priority" /\ one.before = before /\ one.copied = zone
        /\ one.lengths[1] = tz - deb - Rouge
    OBVIOUS
  <2> HIDE DEF one
  <2> QED
    BY <2>1, <2>2, <2>3 DEF Green
<1>10. CASE zone = act /\ ~(elapsed + tz >= GetMinDuree(zone) + Rouge)
  <2>1. PriorityPlan(p, tz, seen) = two
    BY <1>1, <1>10
  <2>2. /\ two.kind = "priority" /\ two.before = 0 /\ two.copied = zone
        /\ two.lengths[1] = GetMinDuree(zone)
    OBVIOUS
  <2> HIDE DEF two
  <2>3. 0 + GetMinDuree(zone) >= GetMinDuree(zone)
    BY <1>6
  <2> QED
    BY <2>1, <2>2, <2>3 DEF Green
<1>11. CASE zone # act
  <2>1. tz - (deb - elapsed) >= GetMinDuree(act)
    <3>1. CASE deb = 0
      BY <1>0, <1>2, <1>6, <1>8, <1>11, <3>1
    <3>2. CASE deb # 0
      <4>1. deb = tz - since - lprev /\ tz - since - lprev > 0
        BY <1>0, <1>4, <1>5, <3>2
      <4>2. tz > lprev
        BY <1>0, <1>4, <1>5, <4>1
      <4> HIDE DEF deb
      <4> QED
        BY <1>0, <1>2, <1>4, <1>5, <1>6, <1>7, <1>11, <4>1, <4>2
    <3> QED
      BY <3>1, <3>2
  <2>2. PriorityPlan(p, tz, seen) = three
    BY <1>1, <1>11
  <2> HIDE DEF deb
  <2>3. /\ three.kind = "priority" /\ three.before = 0 /\ three.copied = act
        /\ three.lengths[1] = tz - (deb - elapsed)
    OBVIOUS
  <2>4. deb \in Int
    BY <1>0, <1>4, <1>5 DEF deb
  <2> HIDE DEF three
  <2>5. 0 + three.lengths[1] >= GetMinDuree(act)
    BY <1>0, <1>2, <2>1, <2>3, <2>4
  <2> QED
    BY <2>2, <2>3, <2>5 DEF Green
<1> QED
  BY <1>9, <1>10, <1>11

(* What is taken off the way to the end for the minimal green is less than  *)
(* the time elapsed: a sequence is short when its share of that time is     *)
(* more than what its green can lose.                                       *)
LEMMA ShortShare ==
  ASSUME NEW den \in Nat \ {0}, NEW l \in Nat, NEW v \in Nat, NEW lose \in Nat,
         NEW e \in Nat, NEW R \in Int, R = den - e,
         (v + lose) * den + l * R - l * den < v * den
  PROVE  lose * den < l * e
<1>1. (v + lose) * den = v * den + lose * den
  OBVIOUS
<1>2. l * R = l * den - l * e
  OBVIOUS
<1>3. v * den \in Int /\ lose * den \in Int /\ l * den \in Int /\ l * e \in Int /\ l * R \in Int
  OBVIOUS
<1> DEFINE a == v * den
           b == lose * den
           c == l * den
           d == l * e
<1>4. a \in Int /\ b \in Int /\ c \in Int /\ d \in Int /\ (a + b) + (c - d) - c < a
  BY <1>1, <1>2, <1>3
<1> HIDE DEF a, b, c, d
<1>5. b < d
  BY <1>4
<1> QED
  BY <1>5 DEF b, d

(* A larger factor makes a larger product.                                  *)
LEMMA ProductsGrow ==
  ASSUME NEW a \in Int, NEW b \in Int, a <= b, NEW k \in Nat
  PROVE  a * k <= b * k /\ k * a <= k * b
<1>1. (b - a) * k \in Nat
  BY ProductsPositive
<1>2. (b - a) * k = b * k - a * k /\ a * k \in Int /\ b * k \in Int /\ k * a = a * k /\ k * b = b * k
  OBVIOUS
<1> DEFINE x == a * k
           y == b * k
<1>3. x \in Int /\ y \in Int /\ y - x \in Nat
  BY <1>1, <1>2
<1> HIDE DEF x, y
<1>4. x <= y
  BY <1>3
<1> QED
  BY <1>2, <1>4 DEF x, y

(* The greens of three sequences that are scaled together stay long enough. *)
LEMMA ScaledGreen ==
  ASSUME NEW den \in Nat, NEW S \in Nat, NEW l \in Nat, NEW v \in Int, NEW V \in Nat,
         NEW r \in Int, den * S <= r, V * den <= v
  PROVE  v * S + l * r - l * den * S >= V * (den * S)
<1>1. V * den \in Int /\ den * S \in Int
  BY ProductsPositive
<1>2. (V * den) * S <= v * S
  BY <1>1, ProductsGrow
<1>3. l * (den * S) <= l * r
  BY <1>1, ProductsGrow
<1>4. l * (den * S) = l * den * S /\ (V * den) * S = V * (den * S)
  OBVIOUS
<1> DEFINE a == v * S
           b == l * r
           c == l * den * S
           d == V * (den * S)
<1>5. a \in Int /\ b \in Int /\ c \in Int /\ d \in Int /\ d <= a /\ c <= b
  BY <1>2, <1>3, <1>4
<1> HIDE DEF a, b, c, d
<1>6. a + b - c >= d
  BY <1>5
<1> QED
  BY <1>6 DEF a, b, c, d

(* A return plan keeps the minimal green in all its sequences.              *)
LEMMA ReturnGreen ==
  ASSUME NEW p \in 0 .. CycleLength - 1, NEW r1 \in Num, NEW r2, r2 = GetNextSequence(r1)
  PROVE  Green(ReturnPlan(p, r1, r2))
<1> DEFINE q == ReturnPlan(p, r1, r2)
           act == GetSequence(p)
           elapsed == p - StartOf(act)
           retour == TimeToEndOf(r2, act, elapsed)
           den == Length(r1) + Length(r2)
           l(i) == Length(i) * retour
           g(i) == Plan[i].green * den + l(i) - Length(i) * den
           short(i) == g(i) < VertMin * den
           r3 == GetNextSequence(r2)
           fixed(i) == IF short(i) THEN l(i) + VertMin * den - g(i) ELSE Length(i) * den
           green(i) == IF short(i) THEN VertMin * den ELSE g(i)
           retour3 == fixed(r1) + fixed(r2) + Length(r3) * den
           seqRet == den + Length(r3) - elapsed
           l3(i) == Length(i) * retour3
           g3(i, v) == v * seqRet + l3(i) - Length(i) * den * seqRet
           G1 == g3(r1, green(r1))
           G2 == g3(r2, green(r2))
           G3 == g3(r3, Plan[r3].green * den)
           three == [kind |-> "return", den |-> den * seqRet,
                     lengths |-> <<l3(r1), l3(r2), l3(r3)>>, greens |-> <<G1, G2, G3>>]
           two == [kind |-> "return", den |-> den,
                   lengths |-> <<l(r1), l(r2)>>, greens |-> <<g(r1), g(r2)>>]
<1>1. q = IF retour < den /\ (short(r1) \/ short(r2)) THEN three ELSE two
  BY DEF ReturnPlan
<1>2. r2 \in Num /\ r3 \in Num
  BY NextFacts
<1>3. \A i \in Num : /\ Length(i) \in Nat \ {0} /\ Plan[i].green \in Nat
                     /\ Plan[i].green >= VertMin /\ VertMin \in Nat
  BY GreenType
<1>4. /\ act \in Num /\ elapsed \in Nat /\ elapsed < Length(act) /\ retour \in Nat
      /\ retour < den => act = r1 /\ retour = den - elapsed
  BY <1>2, TimeToEnd, ShortReturn
<1>5. den \in Nat \ {0} /\ VertMin * den \in Int
  BY <1>2, <1>3
<1>6. retour < den => elapsed <= den /\ seqRet \in Nat
  BY <1>2, <1>3, <1>4
<1> HIDE DEF act, elapsed, retour, r3
<1>7. \A i \in Num : /\ l(i) \in Int /\ Length(i) * den \in Int
                     /\ Plan[i].green * den \in Int /\ g(i) \in Int
                     /\ VertMin * den <= Plan[i].green * den
  BY <1>3, <1>4, <1>5, ProductsPositive, ProductsGrow
<1>8. CASE ~(retour < den /\ (short(r1) \/ short(r2)))
  <2>1. q = two
    BY <1>1, <1>8
  <2>2. ASSUME NEW i \in {r1, r2} PROVE g(i) >= VertMin * den
    <3>1. CASE retour < den
      <4>1. ~short(i)
        BY <1>8, <3>1
      <4> QED
        BY <1>2, <1>5, <1>7, <4>1
    <3>2. CASE ~(retour < den)
      <4>1. Length(i) * den <= l(i)
        BY <1>2, <1>3, <1>4, <1>5, <3>2, ProductsGrow
      <4> DEFINE a == Plan[i].green * den
                 b == l(i)
                 c == Length(i) * den
                 d == VertMin * den
      <4>2. a \in Int /\ b \in Int /\ c \in Int /\ d \in Int /\ c <= b /\ d <= a
        BY <1>2, <1>5, <1>7, <4>1
      <4> HIDE DEF a, b, c, d
      <4>3. a + b - c >= d
        BY <4>2
      <4> QED
        BY <4>3 DEF a, b, c, d
    <3> QED
      BY <3>1, <3>2
  <2> DEFINE gs == <<g(r1), g(r2)>>
  <2>3. \A j \in DOMAIN gs : gs[j] >= VertMin * den
    <3> HIDE DEF g, den
    <3> QED
      BY <2>2
  <2>4. q.kind = "return" /\ q.greens = gs /\ q.den = den
    BY <2>1
  <2> HIDE DEF q, gs, den
  <2> QED
    BY <2>3, <2>4 DEF Green, q
<1>9. CASE retour < den /\ (short(r1) \/ short(r2))
  <2>1. q = three
    BY <1>1, <1>9
  <2>2. retour = den - elapsed /\ elapsed \in Nat /\ elapsed <= den /\ seqRet \in Nat
    BY <1>4, <1>6, <1>9
  <2>3. ASSUME NEW i \in Num
        PROVE  fixed(i) \in Int /\ fixed(i) >= Length(i) * den - Length(i) * elapsed
    <3>1. Length(i) * elapsed \in Nat /\ Length(i) * den \in Int /\ l(i) \in Int /\ g(i) \in Int
      BY <1>3, <1>7, <2>2, ProductsPositive
    <3>2. CASE short(i)
      <4> DEFINE lose == Plan[i].green - VertMin
      <4>1. lose \in Nat /\ Plan[i].green = VertMin + lose
        BY <1>3
      <4> HIDE DEF lose
      <4>2. lose * den < Length(i) * elapsed
        <5>1. (VertMin + lose) * den + Length(i) * retour - Length(i) * den < VertMin * den
          BY <3>2, <4>1
        <5>2. Length(i) \in Nat /\ VertMin \in Nat
          BY <1>3
        <5> HIDE DEF den
        <5> QED
          BY <1>4, <1>5, <2>2, <4>1, <5>1, <5>2, ShortShare
      <4>3. Plan[i].green * den = VertMin * den + lose * den /\ lose * den \in Int
        BY <1>3, <1>5, <4>1
      <4>4. fixed(i) = l(i) + VertMin * den - g(i)
        BY <3>2
      <4>5. g(i) = VertMin * den + lose * den + l(i) - Length(i) * den
        BY <4>3
      <4> DEFINE a == l(i)
                 b == VertMin * den
                 c == lose * den
                 d == Length(i) * den
                 e == Length(i) * elapsed
                 x == g(i)
      <4>6. a \in Int /\ b \in Int /\ c \in Int /\ d \in Int /\ e \in Int /\ x = b + c + a - d
            /\ c < e
        BY <1>5, <3>1, <4>2, <4>3, <4>5
      <4>7. fixed(i) = a + b - x
        BY <4>4
      <4> HIDE DEF a, b, c, d, e, x, fixed
      <4>8. fixed(i) \in Int /\ fixed(i) >= d - e
        BY <4>6, <4>7
      <4> QED
        BY <4>8 DEF d, e
    <3>3. CASE ~short(i)
      <4>1. fixed(i) = Length(i) * den
        BY <3>3
      <4> DEFINE d == Length(i) * den
                 e == Length(i) * elapsed
      <4>2. d \in Int /\ e \in Nat /\ fixed(i) = d
        BY <3>1, <4>1
      <4> HIDE DEF fixed, d, e
      <4>3. fixed(i) \in Int /\ fixed(i) >= d - e
        BY <4>2
      <4> QED
        BY <4>3 DEF d, e
    <3> QED
      BY <3>2, <3>3
  <2>4. retour3 \in Int /\ den * seqRet <= retour3
    <3> DEFINE a == Length(r1)
               b == Length(r2)
               c == Length(r3)
               x == fixed(r1)
               y == fixed(r2)
    <3>1. a \in Nat /\ b \in Nat /\ c \in Nat /\ den = a + b
      BY <1>2, <1>3
    <3>2. x \in Int /\ y \in Int /\ x >= a * den - a * elapsed /\ y >= b * den - b * elapsed
      BY <1>2, <2>3
    <3>3. retour3 = x + y + c * den /\ seqRet = den + c - elapsed
      OBVIOUS
    <3> HIDE DEF a, b, c, x, y, fixed, den, retour3, seqRet
    <3>4. den * (den + c - elapsed) = (a * den - a * elapsed) + (b * den - b * elapsed) + c * den
      <4>1. den * (den + c - elapsed) = den * den - den * elapsed + c * den
        BY <1>5, <2>2, <3>1
      <4>2. den * den = a * den + b * den
        BY <1>5, <3>1
      <4>3. den * elapsed = a * elapsed + b * elapsed
        BY <2>2, <3>1
      <4>4. a * den \in Int /\ b * den \in Int /\ c * den \in Int
            /\ a * elapsed \in Int /\ b * elapsed \in Int
        BY <1>5, <2>2, <3>1, ProductsPositive
      <4> QED
        BY <4>1, <4>2, <4>3, <4>4
    <3>5. a * den - a * elapsed \in Int /\ b * den - b * elapsed \in Int /\ c * den \in Int
      BY <1>5, <2>2, <3>1, ProductsPositive
    <3> QED
      BY <3>2, <3>3, <3>4, <3>5
  <2>5. ASSUME NEW i \in Num, NEW v \in Int, VertMin * den <= v
        PROVE  g3(i, v) >= VertMin * (den * seqRet)
    <3>1. Length(i) \in Nat /\ VertMin \in Nat
      BY <1>3
    <3> HIDE DEF den, seqRet, retour3
    <3> QED
      BY <1>5, <2>2, <2>4, <2>5, <3>1, ScaledGreen
  <2>6. \A i \in Num : green(i) \in Int /\ VertMin * den <= green(i)
    BY <1>5, <1>7
  <2>7. /\ G1 >= VertMin * (den * seqRet) /\ G2 >= VertMin * (den * seqRet)
        /\ G3 >= VertMin * (den * seqRet)
    <3> HIDE DEF g3, green, den, seqRet
    <3> QED
      BY <1>2, <1>7, <2>5, <2>6
  <2> DEFINE gs == <<G1, G2, G3>>
             d == den * seqRet
  <2>8. \A j \in DOMAIN gs : gs[j] >= VertMin * d
    <3>1. G1 >= VertMin * d /\ G2 >= VertMin * d /\ G3 >= VertMin * d
      BY <2>7
    <3> HIDE DEF G1, G2, G3, d
    <3> QED
      BY <3>1
  <2>9. q.kind = "return" /\ q.greens = gs /\ q.den = d
    BY <2>1
  <2> HIDE DEF q, gs, d
  <2> QED
    BY <2>8, <2>9 DEF Green, q
<1> QED
  BY <1>8, <1>9

(* Every call of Update keeps the greens long enough.                       *)
LEMMA UpdateGreen ==
  ASSUME IInv, Green(cdf.plan), NEW tz \in Nat, NEW reach, Update(tz, reach),
         phase' \in 0 .. CycleLength - 1, Passes(Approach, reach) \in SUBSET Buses,
         Passes(Approach, reach) = {} \/ tz \in TravelTimes
  PROVE  Green(cdf'.plan)
<1> DEFINE c == [cdf EXCEPT !.fin = IF cdf.mode = "Q" THEN @ - cdf.den ELSE @]
           seen == Passes(Approach, reach)
           out == Passes(Beyond, reach) \cup gone'
           d == Detect(c, seen, tz)
           e == Enter(d, Passes(Zone, reach))
           x == Exit(e, out)
           f == Finish(x)
<1>1. cdf' = f \/ \E h : cdf' = LookAhead(f, h)
  BY DEF Update
<1>2. /\ c \in Controls /\ c.mode = cdf.mode /\ c.vgps = cdf.vgps /\ c.plan = cdf.plan
      /\ c.retour1 = cdf.retour1 /\ c.retour2 = cdf.retour2
  <2>1. cdf \in Controls
    BY DEF IInv, Sane
  <2>2. (IF cdf.mode = "Q" THEN cdf.fin - cdf.den ELSE cdf.fin) \in Int
    BY <2>1 DEF Controls
  <2> QED
    BY <2>1, <2>2 DEF Controls
<1>3. Green(NoPlan)
  BY DEF Green, NoPlan
<1>4. Sane(c) /\ Green(c.plan)
  BY <1>2 DEF IInv, Sane
<1> HIDE DEF c, seen, out
<1>5. Sane(d) /\ Green(d.plan)
  <2>1. Sane(d)
    BY <1>4, DetectFacts DEF seen
  <2>2. CASE seen = {}
    BY <1>4, <2>2 DEF Detect
  <2>3. CASE seen # {} /\ c.vgps # {}
    <3>1. d = [c EXCEPT !.vgps = @ \cup seen, !.plan.served = @ \cup seen]
      BY <2>3 DEF Detect
    <3>2. c.plan \in Priorities
      BY <1>4, <2>3 DEF Sane
    <3>3. /\ d.plan.kind = c.plan.kind /\ d.plan.before = c.plan.before
          /\ d.plan.lengths = c.plan.lengths /\ d.plan.copied = c.plan.copied
      BY <1>2, <3>1, <3>2 DEF Controls, Priorities
    <3>4. c.plan.kind = "priority"
      BY <3>2 DEF Priorities
    <3> HIDE DEF d
    <3> QED
      BY <1>4, <2>1, <3>3, <3>4 DEF Green
  <2>4. CASE seen # {} /\ c.vgps = {}
    <3>1. d.plan = PriorityPlan(phase', tz, seen)
      BY <1>2, <2>4 DEF Detect, Controls
    <3>2. tz \in TravelTimes
      BY <2>4 DEF seen
    <3>3. CASE EarlyPlansFit
      BY <2>1, <3>1, <3>2, <3>3, PriorityGreen
    <3>4. CASE ~EarlyPlansFit
      <4>1. d.plan \in Priorities
        BY <2>1, <3>1, PriorityPlanFacts DEF seen
      <4>2. d.plan.kind = "priority"
        BY <4>1 DEF Priorities
      <4> QED
        BY <2>1, <3>4, <4>2 DEF Green
    <3> QED
      BY <3>3, <3>4
  <2> QED
    BY <2>2, <2>3, <2>4
<1> HIDE DEF d
<1>6. Sane(e) /\ Green(e.plan)
  <2>1. Sane(e)
    BY <1>5, EnterFacts
  <2>2. e = d \/ e = [d EXCEPT !.mode = "P"]
    BY DEF Enter
  <2>3. e.plan = d.plan
    BY <1>5, <2>2 DEF Sane, Controls
  <2> QED
    BY <1>5, <2>1, <2>3
<1> HIDE DEF e
<1>7. Sane(x) /\ Green(x.plan)
  <2>1. Sane(x)
    BY <1>6, ExitFacts
  <2> DEFINE left == e.vgps \ out
             plan == ReturnPlan(phase', e.retour1, e.retour2)
  <2>2. CASE e.mode # "P"
    BY <1>6, <2>2 DEF Exit
  <2>3. CASE e.mode = "P" /\ left # {}
    <3>1. x = [e EXCEPT !.vgps = left]
      BY <2>3 DEF Exit
    <3>2. x.plan = e.plan
      BY <1>6, <3>1 DEF Sane, Controls
    <3> QED
      BY <1>6, <2>1, <3>2
  <2>4. CASE e.mode = "P" /\ left = {}
    <3>1. x = [e EXCEPT !.vgps = {}, !.mode = "Q", !.plan = plan, !.den = plan.den,
                        !.fin = Total(plan.lengths)]
      BY <2>4 DEF Exit, Total
    <3>2. x.plan = plan
      BY <1>6, <3>1 DEF Sane, Controls
    <3>3. e.retour1 \in Num /\ e.retour2 = GetNextSequence(e.retour1)
      BY <1>6, <2>4 DEF Sane
    <3> QED
      BY <2>1, <3>2, <3>3, ReturnGreen
  <2> QED
    BY <2>2, <2>3, <2>4
<1> HIDE DEF x
<1>8. Green(f.plan) /\ f \in Controls
  <2>1. f \in Controls
    BY <1>7, FinishFacts DEF Sane
  <2>2. f = x \/ f = [x EXCEPT !.mode = "N", !.plan = NoPlan, !.fin = 0, !.den = 1, !.vgps = {}]
    BY DEF Finish
  <2>3. f.plan \in {x.plan, NoPlan}
    BY <1>7, <2>2 DEF Sane, Controls
  <2> QED
    BY <1>3, <1>7, <2>1, <2>3
<1> HIDE DEF f
<1>9. \A h : LookAhead(f, h).plan \in {f.plan, NoPlan}
  BY <1>8 DEF LookAhead, Controls
<1> QED
  BY <1>1, <1>3, <1>8, <1>9

(* No step makes a green too short.                                         *)
LEMMA NextGreen ==
  ASSUME IInv, Green(cdf.plan), [Next]_vars
  PROVE  Green(cdf'.plan)
<1>1. CASE Step
  <2>1. /\ Move /\ phase' = (phase + 1) % CycleLength
    BY <1>1 DEF Step
  <2>2. phase' \in 0 .. CycleLength - 1
    <3>1. CycleLength \in Nat \ {0} /\ phase + 1 \in Nat
      BY OffsetsGrow DEF IInv
    <3> QED
      BY <2>1, <3>1, Remainder
  <2>3. \A reach : Passes(Approach, reach) \in SUBSET Buses
    BY DEF Passes
  <2>4. PICK reach \in Reaches :
          \/ Passes(Approach, reach) = {} /\ Update(0, reach)
          \/ Passes(Approach, reach) # {} /\ \E tz \in TravelTimes : Update(tz, reach)
    BY <1>1 DEF Step
  <2>5. CASE Passes(Approach, reach) = {} /\ Update(0, reach)
    <3>1. 0 \in Nat
      OBVIOUS
    <3> QED
      BY <2>2, <2>3, <2>5, <3>1, UpdateGreen
  <2>6. ASSUME NEW tz \in TravelTimes, Update(tz, reach) PROVE Green(cdf'.plan)
    <3>1. tz \in Nat
      BY PlanAssumption
    <3> QED
      BY <2>2, <2>3, <2>6, <3>1, UpdateGreen
  <2> QED
    BY <2>4, <2>5, <2>6
<1>2. CASE MesoQuery
  <2>1. PICK h \in LookAheads : cdf' = LookAhead(cdf, h)
    BY <1>2 DEF MesoQuery
  <2>2. cdf'.plan \in {cdf.plan, NoPlan}
    BY <2>1 DEF LookAhead, IInv, Sane, Controls
  <2>3. Green(NoPlan)
    BY DEF Green, NoPlan
  <2> QED
    BY <2>2, <2>3
<1>3. CASE SendSignalPlan \/ UNCHANGED vars
  BY <1>3 DEF SendSignalPlan, vars
<1> QED
  BY <1>1, <1>2, <1>3 DEF Next

(* The greens stay long enough.                                             *)
LEMMA GreenInvariant == Spec => []Green(cdf.plan)
<1>1. Init => Green(cdf.plan)
  BY DEF Init, Green, NoPlan
<1>2. IInv /\ Green(cdf.plan) /\ [Next]_vars => Green(cdf.plan)'
  BY NextGreen
<1> QED
  BY <1>1, <1>2, Invariance, PTL DEF Spec

(* Whatever the plan of the day, no return cuts a green below the minimal   *)
(* one, in two sequences or in three.                                       *)
THEOREM ReturnKeepsGreen ==
  Spec => [](cdf.plan.kind = "return" =>
               \A j \in DOMAIN cdf.plan.greens :
                 cdf.plan.greens[j] >= VertMin * cdf.plan.den)
<1>1. Green(cdf.plan) => (cdf.plan.kind = "return" =>
                            \A j \in DOMAIN cdf.plan.greens :
                              cdf.plan.greens[j] >= VertMin * cdf.plan.den)
  BY DEF Green
<1> QED
  BY <1>1, GreenInvariant, PTL

(* No plan cuts a green below the minimal one (m_dbDureeVertMin), but where  *)
(* a copy that starts over shows the delay of its lights again (CutsGreen),  *)
(* when the sequence replaced before a priority is long enough for the       *)
(* minimal green of the one copied in its place (Update of ControleurDeFeux).*)
THEOREM MinimalGreenKept ==
  ASSUME EarlyPlansFit
  PROVE  Spec => []MinimalGreen
<1>1. Green(cdf.plan) => MinimalGreen
  BY DEF Green, MinimalGreen
<1> QED
  BY <1>1, GreenInvariant, PTL
=============================================================================
