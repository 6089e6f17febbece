------------------------ MODULE DeliveryTour_proofs -------------------------
(***************************************************************************)
(* Proofs about DeliveryTour, for every number of vehicles, points, places *)
(* and orders.                                                             *)
(***************************************************************************)
EXTENDS DeliveryTour, SequenceTheorems, FiniteSetTheorems, TLAPS

(***************************************************************************)
(* Naturals.                                                               *)
(***************************************************************************)
(* A set of naturals that is not empty has a smallest element.             *)
LEMMA SmallestOfSet ==
  ASSUME NEW S, S \subseteq Nat, S # {}
  PROVE  \E i \in S : \A j \in S : i <= j
<1> DEFINE R == {p \in Nat \X Nat : p[1] < p[2]}
<1>1. IsWellFoundedOn(R, Nat)
  BY NatLessThanWellFounded DEF OpToRel
<1> HIDE DEF R
<1>2. PICK i \in S : \A j \in S : <<j, i>> \notin R
  BY <1>1, WFMin
<1>3. ASSUME NEW j \in S PROVE i <= j
  <2>1. <<j, i>> \in R <=> j < i
    BY DEF R
  <2> QED BY <1>2, <2>1
<1> QED BY <1>3

(* A set of naturals with 0 and every successor is the whole of Nat.         *)
LEMMA EveryNatural ==
  ASSUME NEW S \in SUBSET Nat, 0 \in S, \A n \in S : n + 1 \in S
  PROVE  S = Nat
<1> SUFFICES ASSUME Nat \ S # {} PROVE FALSE
  OBVIOUS
<1>1. PICK i \in Nat \ S : \A j \in Nat \ S : i <= j
  BY SmallestOfSet
<1>2. i # 0 /\ i - 1 \in Nat /\ i - 1 \notin Nat \ S
  BY <1>1
<1> QED
  BY <1>1, <1>2

(* The greatest of a set of naturals up to n + 1 that holds n + 1.         *)
LEMMA MaxOfPrefix ==
  ASSUME NEW n \in Nat, NEW s \in SUBSET (1 .. n + 1), n + 1 \in s
  PROVE  Max(s) = n + 1
<1>1. \A y \in s : n + 1 >= y
  OBVIOUS
<1>2. ASSUME NEW x \in s, \A y \in s : x >= y PROVE x = n + 1
  BY <1>1, <1>2
<1> QED
  BY <1>1, <1>2 DEF Max

(***************************************************************************)
(* The elements of a sequence that belong to a set.                        *)
(***************************************************************************)
Kept(K, kept, e) == IF e \in K THEN Append(kept, e) ELSE kept

(* The function that Keep(list, K) evaluates: by set of positions of the list. *)
Folded(it, K, list) ==
  it = [s \in SUBSET DOMAIN list |->
          IF s = {} THEN <<>> ELSE Kept(K, it[s \ {Max(s)}], list[Max(s)])]

(* The fold of Keep, as the function it chooses.                           *)
LEMMA KeepDef ==
  ASSUME NEW K, NEW list
  PROVE  Keep(list, K) = (CHOOSE it : Folded(it, K, list))[DOMAIN list]
BY DEF Keep, FoldLeft, MapThenFoldSet, Folded, Kept

(* The function of the fold exists.                                        *)
LEMMA FoldedExists ==
  ASSUME NEW K, NEW list, NEW n \in Nat, DOMAIN list = 1 .. n
  PROVE  \E it : Folded(it, K, list)
<1> DEFINE Step(it, k) ==
      it = [s \in SUBSET (1 .. k) |->
              IF s = {} THEN <<>> ELSE Kept(K, it[s \ {Max(s)}], list[Max(s)])]
    N == {k \in Nat : \E it : Step(it, k)}
<1>1. 0 \in N
  <2> DEFINE it == [s \in SUBSET (1 .. 0) |-> <<>>]
  <2>1. \A s \in SUBSET (1 .. 0) : s = {}
    OBVIOUS
  <2>2. it = [s \in SUBSET (1 .. 0) |->
              IF s = {} THEN <<>> ELSE Kept(K, it[s \ {Max(s)}], list[Max(s)])]
    BY <2>1
  <2> QED
    BY <2>2
<1>2. ASSUME NEW k \in N PROVE k + 1 \in N
  <2>1. PICK f : Step(f, k)
    OBVIOUS
  <2> DEFINE g == [s \in SUBSET (1 .. k + 1) |->
                IF k + 1 \in s THEN Kept(K, f[s \ {k + 1}], list[k + 1]) ELSE f[s]]
  <2>2. \A s \in SUBSET (1 .. k + 1) : k + 1 \notin s => s \in SUBSET (1 .. k)
    OBVIOUS
  <2>3. \A s \in SUBSET (1 .. k) : g[s] = f[s]
    OBVIOUS
  <2>4. ASSUME NEW s \in SUBSET (1 .. k + 1)
        PROVE  g[s] = IF s = {} THEN <<>> ELSE Kept(K, g[s \ {Max(s)}], list[Max(s)])
    <3>1. CASE k + 1 \in s
      <4>1. Max(s) = k + 1
        BY <3>1, MaxOfPrefix
      <4>2. s \ {k + 1} \in SUBSET (1 .. k) /\ s # {}
        BY <3>1
      <4>3. g[s] = Kept(K, f[s \ {k + 1}], list[k + 1])
        BY <3>1
      <4>4. g[s \ {k + 1}] = f[s \ {k + 1}]
        BY <2>3, <4>2
      <4> HIDE DEF g
      <4> QED
        BY <4>1, <4>2, <4>3, <4>4
    <3>2. CASE k + 1 \notin s
      <4>1. s \in SUBSET (1 .. k) /\ s \ {Max(s)} \in SUBSET (1 .. k)
        <5>1. s \in SUBSET (1 .. k)
          BY <2>2, <3>2
        <5> QED
          BY <5>1
      <4>2. g[s] = f[s] /\ g[s \ {Max(s)}] = f[s \ {Max(s)}]
        BY <2>3, <4>1
      <4>3. f[s] = IF s = {} THEN <<>> ELSE Kept(K, f[s \ {Max(s)}], list[Max(s)])
        BY <2>1, <4>1
      <4> HIDE DEF g
      <4> QED
        BY <4>2, <4>3
    <3> QED
      BY <3>1, <3>2
  <2>5. g = [s \in SUBSET (1 .. k + 1) |-> g[s]]
    OBVIOUS
  <2> HIDE DEF g
  <2>6. Step(g, k + 1)
    BY <2>4, <2>5
  <2>7. k + 1 \in Nat
    OBVIOUS
  <2> HIDE DEF Step
  <2> QED
    BY <2>6, <2>7
<1> HIDE DEF N
<1>3. N = Nat
  <2>1. N \in SUBSET Nat
    BY DEF N
  <2> QED
    BY <1>1, <1>2, <2>1, EveryNatural
<1> QED
  BY <1>3 DEF N, Folded

Keeps(it, K, list, n) ==
  /\ Keep(list, K) = it[1 .. n]
  /\ \A s \in SUBSET (1 .. n) : it[s] =
       IF s = {} THEN <<>> ELSE Kept(K, it[s \ {Max(s)}], list[Max(s)])

(* That function, one element after the other.                             *)
LEMMA FoldedFunction ==
  ASSUME NEW K, NEW list, NEW n \in Nat, DOMAIN list = 1 .. n
  PROVE  \E it : Keeps(it, K, list, n)
<1> DEFINE it == CHOOSE it : Folded(it, K, list)
<1>1. Folded(it, K, list)
  BY FoldedExists
<1>2. Keep(list, K) = it[1 .. n]
  BY KeepDef
<1> HIDE DEF it
<1>3. Keeps(it, K, list, n)
  BY <1>1, <1>2 DEF Folded, Keeps
<1> QED
  BY <1>3

(* Nothing is kept of an empty list.                                       *)
LEMMA KeepNone == ASSUME NEW K PROVE Keep(<<>>, K) = <<>>
<1>1. DOMAIN <<>> = 1 .. 0
  OBVIOUS
<1>2. PICK it : Keeps(it, K, <<>>, 0)
  BY <1>1, FoldedFunction, 0 \in Nat
<1>3. Keep(<<>>, K) = it[1 .. 0] /\ it[{}] = <<>>
  BY <1>2 DEF Keeps
<1>4. 1 .. 0 = {}
  OBVIOUS
<1> QED
  BY <1>3, <1>4

(* One more element is kept or not after the others.                       *)
LEMMA KeepOneMore ==
  ASSUME NEW K, NEW T, NEW list \in Seq(T), NEW n \in Nat, n < Len(list)
  PROVE  Keep(SubSeq(list, 1, n + 1), K) =
           Kept(K, Keep(SubSeq(list, 1, n), K), list[n + 1])
<1> DEFINE a == SubSeq(list, 1, n)
           b == SubSeq(list, 1, n + 1)
<1>1. /\ DOMAIN a = 1 .. n /\ \A i \in 1 .. n : a[i] = list[i]
      /\ DOMAIN b = 1 .. n + 1 /\ \A i \in 1 .. n + 1 : b[i] = list[i]
  OBVIOUS
<1> HIDE DEF a, b
<1>2a. PICK f : Keeps(f, K, a, n)
  BY <1>1, FoldedFunction
<1>3a. PICK g : Keeps(g, K, b, n + 1)
  BY <1>1, FoldedFunction, n + 1 \in Nat
<1>2. /\ Keep(a, K) = f[1 .. n]
      /\ \A s \in SUBSET (1 .. n) : f[s] =
           IF s = {} THEN <<>> ELSE Kept(K, f[s \ {Max(s)}], a[Max(s)])
  BY <1>2a DEF Keeps
<1>3. /\ Keep(b, K) = g[1 .. n + 1]
      /\ \A s \in SUBSET (1 .. n + 1) : g[s] =
           IF s = {} THEN <<>> ELSE Kept(K, g[s \ {Max(s)}], b[Max(s)])
  BY <1>3a DEF Keeps
<1> DEFINE N == {k \in Nat : k <= n => \A s \in SUBSET (1 .. k) : f[s] = g[s]}
<1>4. 0 \in N
  <2>1. \A s \in SUBSET (1 .. 0) : s = {}
    OBVIOUS
  <2>2. f[{}] = <<>> /\ g[{}] = <<>>
    BY <1>2, <1>3
  <2> QED
    BY <2>1, <2>2
<1>5. ASSUME NEW k \in N PROVE k + 1 \in N
  <2> SUFFICES ASSUME k + 1 <= n, NEW s \in SUBSET (1 .. k + 1)
               PROVE  f[s] = g[s]
    OBVIOUS
  <2>1. CASE k + 1 \notin s
    <3>1. s \in SUBSET (1 .. k)
      BY <2>1
    <3> QED
      BY <3>1
  <2>2. CASE k + 1 \in s
    <3>1. Max(s) = k + 1
      BY <2>2, MaxOfPrefix
    <3>2. s # {} /\ s \in SUBSET (1 .. n) /\ s \in SUBSET (1 .. n + 1)
      BY <2>2
    <3>3. f[s \ {k + 1}] = g[s \ {k + 1}]
      <4>1. s \ {k + 1} \in SUBSET (1 .. k)
        OBVIOUS
      <4> QED
        BY <4>1
    <3>4. a[k + 1] = b[k + 1]
      BY <1>1
    <3> HIDE DEF N
    <3> QED
      BY <1>2, <1>3, <3>1, <3>2, <3>3, <3>4
  <2> QED
    BY <2>1, <2>2
<1>6. n \in N
  <2> HIDE DEF N
  <2>1. N \in SUBSET Nat
    BY DEF N
  <2> QED
    BY <1>4, <1>5, <2>1, EveryNatural
<1>7. f[1 .. n] = g[1 .. n]
  BY <1>6
<1>8. g[1 .. n + 1] = Kept(K, g[1 .. n], b[n + 1])
  <2> HIDE DEF N
  <2>0. n + 1 \in 1 .. n + 1
    OBVIOUS
  <2>1. 1 .. n + 1 \in SUBSET (1 .. n + 1) /\ n + 1 \in 1 .. n + 1 /\ 1 .. n + 1 # {}
    BY <2>0, Zenon
  <2>2. Max(1 .. n + 1) = n + 1
    BY <2>1, MaxOfPrefix
  <2>3. (1 .. n + 1) \ {n + 1} = 1 .. n
    OBVIOUS
  <2> QED
    BY <1>3, <2>1, <2>2, <2>3
<1>9. b[n + 1] = list[n + 1]
  BY <1>1
<1> HIDE DEF N
<1>10. Keep(b, K) = Kept(K, Keep(a, K), list[n + 1])
  BY <1>2, <1>3, <1>7, <1>8, <1>9
<1> QED
  BY <1>10 DEF a, b
(***************************************************************************)
(* Numbers of passages.                                                    *)
(***************************************************************************)
Before(t, p, l) == {i \in 1 .. (l - 1) : t[i].to = p}

(* The passages at a point are counted by a finite set of legs.            *)
LEMMA PassagesDef ==
  ASSUME NEW t, NEW p, NEW l \in Nat
  PROVE  /\ PassageNb(t, p, l) = Cardinality(Before(t, p, l))
         /\ IsFiniteSet(Before(t, p, l))
         /\ PassageNb(t, p, l) \in Nat
<1>1. PassageNb(t, p, l) = Cardinality(Before(t, p, l))
  BY DEF PassageNb, Quantify, Before
<1>2. IsFiniteSet(1 .. (l - 1))
  BY FS_Interval
<1>3. Before(t, p, l) \in SUBSET (1 .. (l - 1))
  BY DEF Before
<1>4. IsFiniteSet(Before(t, p, l))
  BY <1>2, <1>3, FS_Subset
<1> QED
  BY <1>1, <1>4, FS_CardinalityType

(* There is no passage before the first leg.                               *)
LEMMA PassagesFirst ==
  ASSUME NEW t, NEW p
  PROVE  PassageNb(t, p, 1) = 0
<1>1. Before(t, p, 1) = {}
  BY DEF Before
<1> QED
  BY <1>1, PassagesDef, FS_EmptySet, 1 \in Nat

(* A leg to the point is one more passage.                                 *)
LEMMA PassagesNext ==
  ASSUME NEW t, NEW p, NEW l \in Nat \ {0}
  PROVE  PassageNb(t, p, l + 1) =
           PassageNb(t, p, l) + (IF t[l].to = p THEN 1 ELSE 0)
<1>1. IsFiniteSet(Before(t, p, l)) /\ l \in Nat /\ l + 1 \in Nat
  BY PassagesDef
<1>2. Before(t, p, l + 1) =
        IF t[l].to = p THEN Before(t, p, l) \cup {l} ELSE Before(t, p, l)
  BY DEF Before
<1>3. l \notin Before(t, p, l)
  BY DEF Before
<1>4. Cardinality(Before(t, p, l) \cup {l}) = Cardinality(Before(t, p, l)) + 1
  BY <1>1, <1>3, FS_AddElement
<1>5. /\ PassageNb(t, p, l) = Cardinality(Before(t, p, l))
      /\ PassageNb(t, p, l) \in Nat
      /\ PassageNb(t, p, l + 1) = Cardinality(Before(t, p, l + 1))
  BY <1>1, PassagesDef
<1> QED
  BY <1>2, <1>4, <1>5

(* A later leg has as many passages before it or more, more when the       *)
(* earlier one is a passage itself.                                        *)
LEMMA PassagesGrow ==
  ASSUME NEW t, NEW p, NEW k \in Nat \ {0}, NEW l \in Nat, k <= l
  PROVE  /\ PassageNb(t, p, k) <= PassageNb(t, p, l)
         /\ k < l /\ t[k].to = p => PassageNb(t, p, k) < PassageNb(t, p, l)
<1>1. ASSUME NEW m \in Nat, m <= l PROVE PassageNb(t, p, m) <= PassageNb(t, p, l)
  <2>1. Before(t, p, m) \in SUBSET Before(t, p, l)
    BY <1>1 DEF Before
  <2>2. Cardinality(Before(t, p, m)) <= Cardinality(Before(t, p, l))
    BY <2>1, PassagesDef, FS_Subset
  <2> QED
    BY <2>2, PassagesDef
<1>2. ASSUME k < l, t[k].to = p PROVE PassageNb(t, p, k) < PassageNb(t, p, l)
  <2>1. PassageNb(t, p, k + 1) = PassageNb(t, p, k) + 1
    BY <1>2, PassagesNext
  <2>2. PassageNb(t, p, k + 1) <= PassageNb(t, p, l)
    BY <1>1, <1>2
  <2>3. PassageNb(t, p, k) \in Nat /\ PassageNb(t, p, l) \in Nat
    BY PassagesDef
  <2> QED
    BY <2>1, <2>2, <2>3
<1> QED
  BY <1>1, <1>2

(* The count only depends on the legs before.                              *)
LEMMA PassagesAgree ==
  ASSUME NEW t, NEW u, NEW p, NEW l \in Nat,
         \A i \in 1 .. (l - 1) : t[i].to = u[i].to
  PROVE  PassageNb(t, p, l) = PassageNb(u, p, l)
<1>1. Before(t, p, l) = Before(u, p, l)
  BY DEF Before
<1> QED
  BY <1>1, PassagesDef

(***************************************************************************)
(* Insertions and removals.                                                *)
(***************************************************************************)
(* u is t with x inserted at l. *)
Inserted(u, S, t, l, x) ==
  /\ u \in Seq(S) /\ Len(u) = Len(t) + 1
  /\ \A i \in 1 .. Len(t) + 1 :
       u[i] = IF i < l THEN t[i] ELSE IF i = l THEN x ELSE t[i - 1]

(* A sequence with one element inserted, index by index.                   *)
LEMMA InsertFacts ==
  ASSUME NEW S, NEW t \in Seq(S), NEW l \in 1 .. Len(t) + 1, NEW x \in S
  PROVE  /\ InsertAt(t, l, x) \in Seq(S)
         /\ Len(InsertAt(t, l, x)) = Len(t) + 1
         /\ \A i \in 1 .. Len(t) + 1 : InsertAt(t, l, x)[i] =
              IF i < l THEN t[i] ELSE IF i = l THEN x ELSE t[i - 1]
<1> DEFINE a == SubSeq(t, 1, l - 1)
           b == SubSeq(t, l, Len(t))
<1>1. a \in Seq(S) /\ Len(a) = l - 1 /\ \A i \in 1 .. l - 1 : a[i] = t[i]
  OBVIOUS
<1>2. /\ b \in Seq(S) /\ Len(b) = Len(t) + 1 - l
      /\ \A i \in 1 .. Len(t) + 1 - l : b[i] = t[l + i - 1]
  OBVIOUS
<1>3. InsertAt(t, l, x) = a \o <<x>> \o b
  BY DEF InsertAt
<1> HIDE DEF a, b
<1> DEFINE c == a \o <<x>>
<1>4. /\ c \in Seq(S) /\ Len(c) = l
      /\ \A i \in 1 .. l : c[i] = IF i < l THEN t[i] ELSE x
  BY <1>1
<1>5. InsertAt(t, l, x) = c \o b
  BY <1>3
<1> HIDE DEF c
<1>6. /\ c \o b \in Seq(S) /\ Len(c \o b) = Len(c) + Len(b)
      /\ \A i \in 1 .. Len(c) + Len(b) :
           (c \o b)[i] = IF i <= Len(c) THEN c[i] ELSE b[i - Len(c)]
  BY <1>2, <1>4, ConcatProperties
<1>7. ASSUME NEW i \in 1 .. Len(t) + 1, i > l
      PROVE  b[i - l] = t[i - 1]
  <2>1. i - l \in 1 .. Len(t) + 1 - l /\ l + (i - l) - 1 = i - 1
    BY <1>7
  <2> QED
    BY <1>2, <2>1
<1> QED
  BY <1>2, <1>4, <1>5, <1>6, <1>7

(* That sequence, as the proofs use it.                                    *)
LEMMA InsertIs ==
  ASSUME NEW S, NEW t \in Seq(S), NEW l \in 1 .. Len(t) + 1, NEW x \in S
  PROVE  Inserted(InsertAt(t, l, x), S, t, l, x)
BY InsertFacts DEF Inserted

(* A sequence with one element removed, index by index.                    *)
LEMMA RemoveFacts ==
  ASSUME NEW S, NEW t \in Seq(S), NEW l \in 1 .. Len(t)
  PROVE  /\ RemoveAt(t, l) \in Seq(S)
         /\ Len(RemoveAt(t, l)) = Len(t) - 1
         /\ \A i \in 1 .. Len(t) - 1 : RemoveAt(t, l)[i] =
              IF i < l THEN t[i] ELSE t[i + 1]
<1> DEFINE a == SubSeq(t, 1, l - 1)
           b == SubSeq(t, l + 1, Len(t))
<1>1. a \in Seq(S) /\ Len(a) = l - 1 /\ \A i \in 1 .. l - 1 : a[i] = t[i]
  OBVIOUS
<1>2. /\ b \in Seq(S) /\ Len(b) = Len(t) - l
      /\ \A i \in 1 .. Len(t) - l : b[i] = t[l + i]
  OBVIOUS
<1>3. RemoveAt(t, l) = a \o b
  BY DEF RemoveAt
<1> HIDE DEF a, b
<1>4. /\ a \o b \in Seq(S) /\ Len(a \o b) = Len(a) + Len(b)
      /\ \A i \in 1 .. Len(a) + Len(b) :
           (a \o b)[i] = IF i <= Len(a) THEN a[i] ELSE b[i - Len(a)]
  BY <1>1, <1>2, ConcatProperties
<1>5. ASSUME NEW i \in 1 .. Len(t) - 1, i >= l
      PROVE  b[i - (l - 1)] = t[i + 1]
  <2>1. i - (l - 1) \in 1 .. Len(t) - l /\ l + (i - (l - 1)) = i + 1
    BY <1>5
  <2> QED
    BY <1>2, <2>1
<1> QED
  BY <1>1, <1>2, <1>3, <1>4, <1>5

(* A leg inserted at l is passed by the legs behind it.                    *)
LEMMA PassagesInsert ==
  ASSUME NEW S, NEW t \in Seq(S), NEW l \in 1 .. Len(t) + 1, NEW x \in S, NEW p,
         NEW k \in l .. Len(t) + 1
  PROVE  PassageNb(InsertAt(t, l, x), p, k + 1) =
           PassageNb(t, p, k) + (IF x.to = p THEN 1 ELSE 0)
<1> DEFINE u == InsertAt(t, l, x)
<1>a. \A i \in 1 .. Len(t) + 1 :
        u[i] = IF i < l THEN t[i] ELSE IF i = l THEN x ELSE t[i - 1]
  BY InsertFacts
<1> HIDE DEF u
<1> DEFINE one == IF x.to = p THEN 1 ELSE 0
    Good(j) == PassageNb(u, p, j + 1) = PassageNb(t, p, j) + one
    N == {n \in Nat : l + n <= Len(t) + 1 => Good(l + n)}
<1>0. one \in Nat
  OBVIOUS
<1>1. 0 \in N
  <2>1. PassageNb(u, p, l + 1) = PassageNb(u, p, l) + one
    <3>1. u[l] = x
      BY <1>a
    <3>2. PassageNb(u, p, l + 1) = PassageNb(u, p, l) + (IF u[l].to = p THEN 1 ELSE 0)
      BY PassagesNext
    <3> QED
      BY <3>1, <3>2
  <2>2. PassageNb(u, p, l) = PassageNb(t, p, l)
    <3>1. \A i \in 1 .. (l - 1) : u[i].to = t[i].to
      BY <1>a
    <3> QED
      BY <3>1, PassagesAgree
  <2> QED
    BY <2>1, <2>2
<1>2. ASSUME NEW n \in N PROVE n + 1 \in N
  <2> SUFFICES ASSUME l + (n + 1) <= Len(t) + 1 PROVE Good(l + (n + 1))
    OBVIOUS
  <2> DEFINE j == l + n
  <2>1. j \in Nat \ {0} /\ j + 1 \in Nat \ {0} /\ j + 1 <= Len(t) + 1 /\ l < j + 1
    OBVIOUS
  <2>2. Good(j)
    BY <2>1
  <2>3. u[j + 1] = t[j]
    BY <1>a, <2>1
  <2> HIDE DEF j, one
  <2>4. PassageNb(u, p, j + 1 + 1) = PassageNb(u, p, j + 1) + (IF u[j + 1].to = p THEN 1 ELSE 0)
    BY <2>1, PassagesNext
  <2>5. PassageNb(t, p, j + 1) = PassageNb(t, p, j) + (IF t[j].to = p THEN 1 ELSE 0)
    BY <2>1, PassagesNext
  <2>6. PassageNb(t, p, j) \in Nat
    BY <2>1, PassagesDef
  <2>7. Good(j + 1)
    BY <1>0, <2>2, <2>3, <2>4, <2>5, <2>6
  <2> QED
    BY <2>7 DEF j
<1>3. N \in SUBSET Nat
  OBVIOUS
<1>4. N = Nat
  <2> HIDE DEF N
  <2> QED
    BY <1>1, <1>2, <1>3, EveryNatural
<1>5. k - l \in N
  <2>1. k - l \in Nat
    OBVIOUS
  <2> HIDE DEF N
  <2> QED
    BY <1>4, <2>1
<1>6. l + (k - l) = k /\ k <= Len(t) + 1
  OBVIOUS
<1> QED
  BY <1>5, <1>6 DEF u

(* What is kept of a list without repetition has none, and is what the     *)
(* list and the set have in common.                                        *)
LEMMA KeepInjective ==
  ASSUME NEW K, NEW T, NEW list \in Seq(T), IsInjective(list)
  PROVE  /\ Keep(list, K) \in Seq(T) /\ IsInjective(Keep(list, K))
         /\ Range(Keep(list, K)) = Range(list) \cap K
<1> DEFINE kept(n) == Keep(SubSeq(list, 1, n), K)
    Good(q, n) == /\ q \in Seq(T) /\ IsInjective(q)
                  /\ Range(q) = {list[i] : i \in 1 .. n} \cap K
    N == {n \in Nat : n <= Len(list) => Good(kept(n), n)}
<1>1. 0 \in N
  <2>1. SubSeq(list, 1, 0) = <<>>
    BY SubSeqEmpty
  <2>2. kept(0) = <<>>
    BY <2>1, KeepNone
  <2>3. Good(<<>>, 0)
    BY DEF IsInjective, Range
  <2> HIDE DEF Good, kept
  <2> QED
    BY <2>2, <2>3
<1>2. ASSUME NEW n \in N PROVE n + 1 \in N
  <2> SUFFICES ASSUME n + 1 <= Len(list) PROVE Good(kept(n + 1), n + 1)
    OBVIOUS
  <2> DEFINE e == list[n + 1]
  <2>1. kept(n + 1) = Kept(K, kept(n), e)
    BY KeepOneMore
  <2>2. Good(kept(n), n)
    OBVIOUS
  <2>3. e \in T /\ \A i \in 1 .. n : list[i] # e
    BY DEF IsInjective
  <2>4. {list[i] : i \in 1 .. n + 1} = {list[i] : i \in 1 .. n} \cup {e}
    OBVIOUS
  <2> DEFINE q == kept(n)
  <2> HIDE DEF e, kept, q
  <2>5. CASE e \in K
    <3>1. /\ Append(q, e) \in Seq(T) /\ Len(Append(q, e)) = Len(q) + 1
          /\ \A i \in 1 .. Len(q) : Append(q, e)[i] = q[i]
          /\ Append(q, e)[Len(q) + 1] = e
      BY <2>2, <2>3 DEF q
    <3>2. Range(Append(q, e)) = Range(q) \cup {e}
      <4> DEFINE a == Append(q, e)
      <4>1. DOMAIN a = 1 .. Len(q) + 1 /\ DOMAIN q = 1 .. Len(q) /\ Len(q) \in Nat
        BY <3>1, <2>2 DEF q
      <4>2. \A i \in 1 .. Len(q) : a[i] = q[i]
        BY <3>1
      <4>3. a[Len(q) + 1] = e
        BY <3>1
      <4> HIDE DEF a
      <4>4. Range(a) = Range(q) \cup {e}
        BY <4>1, <4>2, <4>3 DEF Range
      <4> QED
        BY <4>4 DEF a
    <3>3. \A i \in 1 .. Len(q) : q[i] # e
      <4>1. \A i \in 1 .. Len(q) : q[i] \in Range(q)
        BY <2>2 DEF q, Range
      <4>2. e \notin Range(q)
        BY <2>2, <2>3 DEF q
      <4> QED
        BY <4>1, <4>2
    <3>4. IsInjective(Append(q, e))
      <4>1. q \in Seq(T) /\ \A i, j \in 1 .. Len(q) : q[i] = q[j] => i = j
        BY <2>2 DEF q, IsInjective
      <4> QED
        BY <3>1, <3>3, <4>1 DEF IsInjective
    <3>5. Good(Append(q, e), n + 1)
      BY <2>2, <2>4, <2>5, <3>1, <3>2, <3>4 DEF q
    <3> QED
      BY <2>1, <2>5, <3>5 DEF q, Kept
  <2>6. CASE e \notin K
    <3>1. Good(q, n + 1)
      BY <2>2, <2>4, <2>6 DEF q
    <3> QED
      BY <2>1, <2>6, <3>1 DEF q, Kept
  <2> QED
    BY <2>5, <2>6
<1>3. N \in SUBSET Nat
  OBVIOUS
<1> HIDE DEF N
<1>4. N = Nat
  BY <1>1, <1>2, <1>3, EveryNatural
<1>5. Good(kept(Len(list)), Len(list))
  BY <1>4 DEF N
<1>6. SubSeq(list, 1, Len(list)) = list
  BY SubSeqFull
<1>7. Range(list) = {list[i] : i \in 1 .. Len(list)}
  BY DEF Range
<1> QED
  BY <1>5, <1>6, <1>7

(***************************************************************************)
(* Trips and their loads.                                                  *)
(***************************************************************************)
Orders      == 1 .. MaxOrder
Legs        == [to : Points \cup {Exit}, order : 0 .. MaxOrder]
PointsLoads == [Points -> Seq(Orders)]

(* A trip whose legs to the points carry orders made so far.               *)
Numbered(t, n) == t \in Seq(Legs) /\ \A l \in PointLegs(t) : t[l].order \in 1 .. n

(* The loads of a trip, point by point.                                    *)
PointInStep(t, q, p) ==
  /\ Len(q) = PassageNb(t, p, Len(t) + 1)
  /\ \A l \in DOMAIN t : t[l].to = p => q[PassageNb(t, p, l) + 1] = t[l].order

InStep(t, ls) == \A p \in Points : PointInStep(t, ls[p], p)

(* A leg to a point.                                                       *)
LEMMA LegType ==
  ASSUME NEW p \in Points, NEW o \in Orders
  PROVE  Leg(p, o) \in Legs /\ Leg(p, o).to = p /\ Leg(p, o).order = o
BY DEF Leg, Legs, Orders

(* Legs numbered up to n are numbered up to n + 1.                         *)
LEMMA MoreOrders ==
  ASSUME NEW n \in Nat, NEW t, Numbered(t, n)
  PROVE  Numbered(t, n + 1)
BY DEF Numbered

(* The orders of a point with one inserted.                                *)
LEMMA InsertLoad ==
  ASSUME NEW q \in Seq(Orders), NEW n \in 1 .. Len(q) + 1, NEW o \in Orders
  PROVE  /\ InsertAt(q, n, o) \in Seq(Orders)
         /\ Len(InsertAt(q, n, o)) = Len(q) + 1
         /\ \A i \in 1 .. Len(q) + 1 : InsertAt(q, n, o)[i] =
              IF i < n THEN q[i] ELSE IF i = n THEN o ELSE q[i - 1]
<1>1. Inserted(InsertAt(q, n, o), Orders, q, n, o)
  BY InsertIs
<1> QED
  BY <1>1 DEF Inserted

(* The orders of a point with one removed.                                 *)
LEMMA RemoveLoad ==
  ASSUME NEW q \in Seq(Orders), NEW n \in 1 .. Len(q)
  PROVE  /\ RemoveAt(q, n) \in Seq(Orders)
         /\ Len(RemoveAt(q, n)) = Len(q) - 1
         /\ \A i \in 1 .. Len(q) - 1 : RemoveAt(q, n)[i] =
              IF i < n THEN q[i] ELSE q[i + 1]
BY RemoveFacts

(* Insertion of a leg to p at l with its load: the legs to p before l keep *)
(* the loads before it, those behind have one load more before them.       *)
LEMMA InsertInStep ==
  ASSUME NEW t \in Seq(Legs), NEW q \in Seq(Orders), NEW p \in Points,
         NEW l \in 1 .. Len(t) + 1, NEW x \in Legs, x.to = p, x.order \in Orders,
         PointInStep(t, q, p),
         NEW u, u = InsertAt(t, l, x)
  PROVE  /\ PassageNb(u, p, l) + 1 \in 1 .. Len(q) + 1
         /\ InsertAt(q, PassageNb(u, p, l) + 1, x.order) \in Seq(Orders)
         /\ PointInStep(u, InsertAt(q, PassageNb(u, p, l) + 1, x.order), p)
<1>1. /\ u \in Seq(Legs) /\ Len(u) = Len(t) + 1
      /\ \A i \in 1 .. Len(t) + 1 :
           u[i] = IF i < l THEN t[i] ELSE IF i = l THEN x ELSE t[i - 1]
  BY SMTT(30), InsertFacts
<1> DEFINE n == PassageNb(u, p, l)
           r == InsertAt(q, n + 1, x.order)
<1>2. ASSUME NEW k \in 1 .. l PROVE PassageNb(u, p, k) = PassageNb(t, p, k)
  <2>1. \A i \in 1 .. (k - 1) : u[i].to = t[i].to
    BY <1>1
  <2> QED
    BY <2>1, PassagesAgree
<1>3. ASSUME NEW k \in l .. Len(t) + 1
      PROVE  PassageNb(u, p, k + 1) = PassageNb(t, p, k) + 1
  <2>1. PassageNb(InsertAt(t, l, x), p, k + 1) =
          PassageNb(t, p, k) + (IF x.to = p THEN 1 ELSE 0)
    BY PassagesInsert
  <2> QED
    BY <2>1
<1>4. n \in Nat /\ n = PassageNb(t, p, l) /\ n <= Len(q)
  <2>1. PassageNb(t, p, l) <= PassageNb(t, p, Len(t) + 1)
    BY PassagesGrow
  <2> QED
    BY <1>2, <2>1, PassagesDef DEF PointInStep
<1>5. /\ r \in Seq(Orders) /\ Len(r) = Len(q) + 1
      /\ \A i \in 1 .. Len(q) + 1 :
           r[i] = IF i < n + 1 THEN q[i] ELSE IF i = n + 1 THEN x.order ELSE q[i - 1]
  <2> DEFINE at == n + 1
             o == x.order
  <2>1. at \in 1 .. Len(q) + 1 /\ o \in Orders
    BY <1>4
  <2> HIDE DEF at, o
  <2>2. /\ InsertAt(q, at, o) \in Seq(Orders)
        /\ Len(InsertAt(q, at, o)) = Len(q) + 1
        /\ \A i \in 1 .. Len(q) + 1 : InsertAt(q, at, o)[i] =
              IF i < at THEN q[i] ELSE IF i = at THEN o ELSE q[i - 1]
    BY ZenonT(40), <2>1, InsertLoad
  <2> QED
    BY <2>2 DEF at, o
<1>6. Len(r) = PassageNb(u, p, Len(u) + 1)
  BY <1>1, <1>3, <1>5 DEF PointInStep
<1>7. ASSUME NEW k \in DOMAIN u, u[k].to = p
      PROVE  r[PassageNb(u, p, k) + 1] = u[k].order
  <2> HIDE DEF n, r
  <2>0. DOMAIN t = 1 .. Len(t) /\ k \in 1 .. Len(t) + 1
    BY <1>1
  <2>1. CASE k < l
    <3>1. PassageNb(t, p, k) < PassageNb(t, p, l)
      BY <1>1, <1>7, <2>0, <2>1, PassagesGrow
    <3>2. PassageNb(u, p, k) = PassageNb(t, p, k) /\ PassageNb(t, p, k) \in Nat
      BY <1>2, <2>0, <2>1, PassagesDef
    <3>3. t[k].to = p /\ k \in DOMAIN t /\ u[k] = t[k]
      BY <1>1, <1>7, <2>0, <2>1
    <3>4. q[PassageNb(t, p, k) + 1] = t[k].order
      BY <3>3 DEF PointInStep
    <3>5. PassageNb(t, p, k) + 1 \in 1 .. Len(q) + 1 /\ PassageNb(t, p, k) + 1 < n + 1
      BY <1>4, <3>1, <3>2
    <3> QED
      BY <1>5, <3>2, <3>3, <3>4, <3>5
  <2>2. CASE k = l
    <3>1. PassageNb(u, p, k) = n
      BY <2>2 DEF n
    <3>2. n + 1 \in 1 .. Len(q) + 1
      BY <1>4
    <3>3. u[k] = x
      BY <1>1, <2>0, <2>2
    <3> QED
      BY <1>5, <3>1, <3>2, <3>3
  <2>3. CASE k > l
    <3>1. k - 1 \in l .. Len(t) /\ k - 1 \in Nat \ {0} /\ (k - 1) + 1 = k /\ k - 1 \in DOMAIN t
      BY <2>0, <2>3
    <3>2. PassageNb(u, p, k) = PassageNb(t, p, k - 1) + 1
      BY <1>3, <3>1
    <3>3. u[k] = t[k - 1]
      BY <1>1, <2>0, <2>3
    <3>4. q[PassageNb(t, p, k - 1) + 1] = t[k - 1].order
      BY <1>7, <3>1, <3>3 DEF PointInStep
    <3>5. n <= PassageNb(t, p, k - 1) /\ PassageNb(t, p, k - 1) \in Nat
      BY <1>4, <3>1, PassagesGrow, PassagesDef
    <3>6. PassageNb(t, p, k - 1) < Len(q)
      <4>1. PassageNb(t, p, k - 1) < PassageNb(t, p, Len(t) + 1)
        BY <1>7, <3>1, <3>3, PassagesGrow
      <4> QED
        BY <4>1 DEF PointInStep
    <3> DEFINE m == PassageNb(t, p, k - 1)
    <3>7. m + 1 + 1 \in 1 .. Len(q) + 1 /\ ~(m + 1 + 1 < n + 1) /\ m + 1 + 1 # n + 1
          /\ (m + 1 + 1) - 1 = m + 1
      BY <1>4, <3>5, <3>6
    <3> HIDE DEF m
    <3>8. r[m + 1 + 1] = q[m + 1]
      BY <1>5, <3>7
    <3> QED
      BY <3>2, <3>3, <3>4, <3>8 DEF m
  <2> QED
    BY <2>0, <2>1, <2>2, <2>3
<1>8. PassageNb(u, p, l) + 1 \in 1 .. Len(q) + 1
  BY <1>4
<1>9. PointInStep(u, r, p)
  BY <1>6, <1>7 DEF PointInStep
<1> QED
  BY <1>5, <1>8, <1>9

(* The loads of the other points are those of the same legs.               *)
LEMMA InsertElsewhere ==
  ASSUME NEW t \in Seq(Legs), NEW q, NEW p \in Points,
         NEW l \in 1 .. Len(t) + 1, NEW x \in Legs, x.to # p,
         NEW u, u = InsertAt(t, l, x)
  PROVE  PointInStep(t, q, p) <=> PointInStep(u, q, p)
<1>1. /\ u \in Seq(Legs) /\ Len(u) = Len(t) + 1
      /\ \A i \in 1 .. Len(t) + 1 :
           u[i] = IF i < l THEN t[i] ELSE IF i = l THEN x ELSE t[i - 1]
  BY SMTT(30), InsertFacts
<1>2. ASSUME NEW k \in 1 .. l PROVE PassageNb(u, p, k) = PassageNb(t, p, k)
  <2>1. \A i \in 1 .. (k - 1) : u[i].to = t[i].to
    BY <1>1
  <2> QED
    BY <2>1, PassagesAgree
<1>3. ASSUME NEW k \in l .. Len(t) + 1
      PROVE  PassageNb(u, p, k + 1) = PassageNb(t, p, k)
  <2>1. PassageNb(InsertAt(t, l, x), p, k + 1) =
          PassageNb(t, p, k) + (IF x.to = p THEN 1 ELSE 0)
    BY PassagesInsert
  <2>3. PassageNb(t, p, k) \in Nat
    BY PassagesDef
  <2> QED
    BY <2>1, <2>3
<1>4. PassageNb(u, p, Len(u) + 1) = PassageNb(t, p, Len(t) + 1)
  <2> DEFINE k == Len(t) + 1
  <2>1. k \in l .. Len(t) + 1 /\ Len(u) + 1 = k + 1
    BY <1>1
  <2> HIDE DEF k
  <2>2. PassageNb(u, p, k + 1) = PassageNb(t, p, k)
    BY <1>3, <2>1
  <2> QED
    BY <2>1, <2>2 DEF k
<1>5. DOMAIN t = 1 .. Len(t) /\ DOMAIN u = 1 .. Len(t) + 1
  BY <1>1
<1>6. ASSUME PointInStep(t, q, p) PROVE PointInStep(u, q, p)
  <2> SUFFICES ASSUME NEW k \in DOMAIN u, u[k].to = p
               PROVE  q[PassageNb(u, p, k) + 1] = u[k].order
    BY <1>4, <1>6 DEF PointInStep
  <2>1. CASE k < l
    <3>1. k \in DOMAIN t /\ u[k] = t[k] /\ PassageNb(u, p, k) = PassageNb(t, p, k)
      BY <1>1, <1>2, <1>5, <2>1
    <3> QED
      BY <1>6, <3>1 DEF PointInStep
  <2>2. CASE k > l
    <3>0. k - 1 \in l .. Len(t) + 1 /\ (k - 1) + 1 = k
      BY <1>5, <2>2
    <3>1. k - 1 \in DOMAIN t /\ u[k] = t[k - 1] /\ PassageNb(u, p, k) = PassageNb(t, p, k - 1)
      BY <1>1, <1>3, <1>5, <2>2, <3>0
    <3> QED
      BY <1>6, <3>1 DEF PointInStep
  <2>3. k # l
    BY <1>1
  <2> QED
    BY <1>5, <2>1, <2>2, <2>3
<1>7. ASSUME PointInStep(u, q, p) PROVE PointInStep(t, q, p)
  <2> SUFFICES ASSUME NEW k \in DOMAIN t, t[k].to = p
               PROVE  q[PassageNb(t, p, k) + 1] = t[k].order
    BY <1>4, <1>7 DEF PointInStep
  <2>1. CASE k < l
    <3>1. k \in DOMAIN u /\ u[k] = t[k] /\ PassageNb(u, p, k) = PassageNb(t, p, k)
      BY <1>1, <1>2, <1>5, <2>1
    <3> QED
      BY <1>7, <3>1 DEF PointInStep
  <2>2. CASE k >= l
    <3>1. k + 1 \in DOMAIN u /\ u[k + 1] = t[k]
          /\ PassageNb(u, p, k + 1) = PassageNb(t, p, k)
      BY <1>1, <1>3, <1>5, <2>2
    <3> QED
      BY <1>7, <3>1 DEF PointInStep
  <2> QED
    BY <1>5, <2>1, <2>2
<1> QED
  BY <1>6, <1>7

(* To insert again what was removed gives the sequence back.               *)
LEMMA RemoveInsert ==
  ASSUME NEW S, NEW t \in Seq(S), NEW l \in 1 .. Len(t)
  PROVE  t = InsertAt(RemoveAt(t, l), l, t[l])
<1> DEFINE u == RemoveAt(t, l)
<1>1. /\ u \in Seq(S) /\ Len(u) = Len(t) - 1
      /\ \A i \in 1 .. Len(t) - 1 : u[i] = IF i < l THEN t[i] ELSE t[i + 1]
  BY RemoveFacts
<1> HIDE DEF u
<1> DEFINE x == t[l]
<1>2. x \in S /\ l \in 1 .. Len(u) + 1
  BY <1>1
<1> HIDE DEF x
<1> DEFINE w == InsertAt(u, l, x)
<1>3. /\ w \in Seq(S) /\ Len(w) = Len(u) + 1
      /\ \A i \in 1 .. Len(u) + 1 :
           w[i] = IF i < l THEN u[i] ELSE IF i = l THEN x ELSE u[i - 1]
  BY <1>1, <1>2, InsertFacts
<1> HIDE DEF w
<1>4. ASSUME NEW i \in 1 .. Len(t) PROVE t[i] = w[i]
  <2>1. CASE i < l
    BY <1>1, <1>3, <2>1
  <2>2. CASE i = l
    BY <1>1, <1>3, <2>2 DEF x
  <2>3. CASE i > l
    <3>1. i - 1 \in 1 .. Len(t) - 1 /\ ~(i - 1 < l) /\ (i - 1) + 1 = i
      BY <2>3
    <3>2. u[i - 1] = t[i]
      BY <1>1, <3>1
    <3> QED
      BY <1>1, <1>3, <2>3, <3>2
  <2> QED
    BY <2>1, <2>2, <2>3
<1>5. t = w
  BY <1>1, <1>3, <1>4, SeqEqual
<1> QED
  BY <1>5 DEF w, u, x

(* Removal of the leg to p at l with its load.                             *)
LEMMA RemoveInStep ==
  ASSUME NEW t \in Seq(Legs), NEW q \in Seq(Orders), NEW p \in Points,
         NEW l \in 1 .. Len(t), t[l].to = p,
         PointInStep(t, q, p),
         NEW u, u = RemoveAt(t, l)
  PROVE  /\ PassageNb(t, p, l) + 1 \in 1 .. Len(q)
         /\ RemoveAt(q, PassageNb(t, p, l) + 1) \in Seq(Orders)
         /\ PointInStep(u, RemoveAt(q, PassageNb(t, p, l) + 1), p)
<1>1. /\ u \in Seq(Legs) /\ Len(u) = Len(t) - 1
      /\ \A i \in 1 .. Len(t) - 1 : u[i] = IF i < l THEN t[i] ELSE t[i + 1]
  BY RemoveFacts
<1> DEFINE n == PassageNb(t, p, l)
           r == RemoveAt(q, n + 1)
<1>2. ASSUME NEW k \in 1 .. l PROVE PassageNb(u, p, k) = PassageNb(t, p, k)
  <2>1. \A i \in 1 .. (k - 1) : u[i].to = t[i].to
    BY <1>1
  <2> QED
    BY <2>1, PassagesAgree
<1>3. ASSUME NEW k \in l .. Len(t)
      PROVE  PassageNb(t, p, k + 1) = PassageNb(u, p, k) + 1
  <2> DEFINE x == t[l]
  <2>1. t = InsertAt(u, l, x)
    BY RemoveInsert
  <2>2. l \in 1 .. Len(u) + 1 /\ x \in Legs /\ x.to = p /\ k \in l .. Len(u) + 1
    BY <1>1
  <2> HIDE DEF x
  <2>3. PassageNb(InsertAt(u, l, x), p, k + 1) =
          PassageNb(u, p, k) + (IF x.to = p THEN 1 ELSE 0)
    BY <1>1, <2>2, PassagesInsert
  <2> QED
    BY <2>1, <2>2, <2>3
<1>4. n \in Nat /\ n < Len(q)
  <2>1. PassageNb(t, p, l) < PassageNb(t, p, Len(t) + 1)
    BY PassagesGrow
  <2> QED
    BY <2>1, PassagesDef DEF PointInStep
<1>5. /\ r \in Seq(Orders) /\ Len(r) = Len(q) - 1
      /\ \A i \in 1 .. Len(q) - 1 : r[i] = IF i < n + 1 THEN q[i] ELSE q[i + 1]
  <2> DEFINE at == n + 1
  <2>1. at \in 1 .. Len(q)
    BY <1>4
  <2> HIDE DEF at
  <2>2. /\ RemoveAt(q, at) \in Seq(Orders)
        /\ Len(RemoveAt(q, at)) = Len(q) - 1
        /\ \A i \in 1 .. Len(q) - 1 : RemoveAt(q, at)[i] =
              IF i < at THEN q[i] ELSE q[i + 1]
    BY <2>1, RemoveLoad
  <2> QED
    BY <2>2 DEF at
<1>6. Len(r) = PassageNb(u, p, Len(u) + 1)
  <2>1. PassageNb(t, p, Len(t) + 1) = PassageNb(u, p, Len(t)) + 1
    BY <1>3
  <2>2. PassageNb(u, p, Len(t)) \in Nat
    BY PassagesDef
  <2> QED
    BY <1>1, <1>5, <2>1, <2>2 DEF PointInStep
<1>7. ASSUME NEW k \in DOMAIN u, u[k].to = p
      PROVE  r[PassageNb(u, p, k) + 1] = u[k].order
  <2> HIDE DEF n, r
  <2>0. DOMAIN t = 1 .. Len(t) /\ k \in 1 .. Len(t) - 1
    BY <1>1
  <2>1. CASE k < l
    <3>1. u[k] = t[k] /\ k \in DOMAIN t /\ t[k].to = p
      BY <1>1, <1>7, <2>0, <2>1
    <3>2. PassageNb(u, p, k) = PassageNb(t, p, k) /\ PassageNb(t, p, k) \in Nat
      BY <1>2, <2>0, <2>1, PassagesDef
    <3>3. PassageNb(t, p, k) < n
      BY <2>0, <2>1, <3>1, PassagesGrow DEF n
    <3>4. q[PassageNb(t, p, k) + 1] = t[k].order
      BY <3>1 DEF PointInStep
    <3>5. PassageNb(t, p, k) + 1 \in 1 .. Len(q) - 1 /\ PassageNb(t, p, k) + 1 < n + 1
      BY <1>4, <3>2, <3>3
    <3> QED
      BY <1>5, <3>1, <3>2, <3>4, <3>5
  <2>2. CASE k >= l
    <3> DEFINE m == PassageNb(u, p, k)
    <3>1. u[k] = t[k + 1] /\ k + 1 \in DOMAIN t /\ t[k + 1].to = p
      BY <1>1, <1>7, <2>0, <2>2
    <3>2. PassageNb(t, p, k + 1) = m + 1 /\ m \in Nat
      BY <1>3, <2>0, <2>2, PassagesDef
    <3>3. n < PassageNb(t, p, k + 1)
      BY <2>0, <2>2, PassagesGrow DEF n
    <3>4. q[PassageNb(t, p, k + 1) + 1] = t[k + 1].order
      BY <3>1 DEF PointInStep
    <3>5. PassageNb(t, p, k + 1) < PassageNb(t, p, Len(t) + 1)
      BY <2>0, <3>1, PassagesGrow
    <3> HIDE DEF m
    <3>6. m + 1 \in 1 .. Len(q) - 1 /\ ~(m + 1 < n + 1)
      BY <1>4, <3>2, <3>3, <3>5 DEF PointInStep
    <3>7. r[m + 1] = q[m + 1 + 1]
      BY <1>5, <3>6
    <3> QED
      BY <3>1, <3>2, <3>4, <3>7 DEF m
  <2> QED
    BY <2>0, <2>1, <2>2
<1>8. PassageNb(t, p, l) + 1 \in 1 .. Len(q)
  BY <1>4
<1>9. PointInStep(u, r, p)
  BY <1>6, <1>7 DEF PointInStep
<1> QED
  BY <1>5, <1>8, <1>9

(* A point keeps its orders when a leg to another is removed.              *)
LEMMA RemoveElsewhere ==
  ASSUME NEW t \in Seq(Legs), NEW q, NEW p \in Points,
         NEW l \in 1 .. Len(t), t[l].to # p,
         NEW u, u = RemoveAt(t, l)
  PROVE  PointInStep(t, q, p) <=> PointInStep(u, q, p)
<1> DEFINE x == t[l]
<1>1. t = InsertAt(u, l, x)
  BY RemoveInsert
<1>2. u \in Seq(Legs) /\ l \in 1 .. Len(u) + 1 /\ x \in Legs /\ x.to # p
  BY RemoveFacts
<1> HIDE DEF x
<1> QED
  BY <1>1, <1>2, InsertElsewhere

(* An order adds a leg to a trip and its load to the loads of the trip.    *)
LEMMA InsertKeeps ==
  ASSUME NEW t, NEW n \in Nat, Numbered(t, n), n < MaxOrder,
         NEW ls \in PointsLoads, InStep(t, ls),
         NEW p \in Points, NEW l \in 1 .. Len(t) + 1,
         NEW u, u = InsertTripLeg(t, l, Leg(p, n + 1))
  PROVE  /\ Numbered(u, n + 1) /\ Len(u) = Len(t) + 1
         /\ \A i \in 1 .. Len(t) + 1 : u[i] =
              IF i < l THEN t[i] ELSE IF i = l THEN Leg(p, n + 1) ELSE t[i - 1]
         /\ WithLoad(ls, u, l, n + 1) \in PointsLoads
         /\ InStep(u, WithLoad(ls, u, l, n + 1))
<1> DEFINE x == Leg(p, n + 1)
<1>1. x \in Legs /\ x.to = p /\ x.order = n + 1 /\ n + 1 \in Orders
  <2>1. MaxOrder \in Nat
    BY TourAssumption
  <2> DEFINE o == n + 1
  <2>2. o \in 1 .. MaxOrder
    BY <2>1
  <2> HIDE DEF o
  <2>3. Leg(p, o) \in Legs /\ Leg(p, o).to = p /\ Leg(p, o).order = o
    BY <2>2, LegType DEF Orders
  <2> QED
    BY <2>2, <2>3 DEF o, Orders
<1>2. u = InsertAt(t, l, x) /\ t \in Seq(Legs)
  BY DEF InsertTripLeg, Numbered
<1> HIDE DEF x
<1>3. /\ u \in Seq(Legs) /\ Len(u) = Len(t) + 1
      /\ \A i \in 1 .. Len(t) + 1 :
           u[i] = IF i < l THEN t[i] ELSE IF i = l THEN x ELSE t[i - 1]
  BY SMTT(30), <1>1, <1>2, InsertFacts
<1>4. Numbered(u, n + 1)
  <2> SUFFICES ASSUME NEW i \in 1 .. Len(t) + 1, u[i].to \in Points
               PROVE  u[i].order \in 1 .. n + 1
    BY <1>3 DEF Numbered, PointLegs
  <2>1. \A j \in 1 .. Len(t) : t[j].to \in Points => t[j].order \in 1 .. n
    BY DEF Numbered, PointLegs
  <2>2. CASE i < l
    BY <1>2, <1>3, <2>1, <2>2
  <2>3. CASE i = l
    BY <1>1, <1>3, <2>3
  <2>4. CASE i > l
    <3>1. u[i] = t[i - 1] /\ i - 1 \in 1 .. Len(t)
      BY <1>2, <1>3, <2>4
    <3> QED
      BY <2>1, <3>1
  <2> QED
    BY <1>2, <2>2, <2>3, <2>4
<1> DEFINE q == ls[p]
           m == PassageNb(u, p, l) + 1
           w == WithLoad(ls, u, l, n + 1)
<1>5. q \in Seq(Orders) /\ PointInStep(t, q, p)
  BY DEF PointsLoads, InStep, Orders
<1>6. /\ InsertAt(q, m, n + 1) \in Seq(Orders)
      /\ PointInStep(u, InsertAt(q, m, n + 1), p)
  <2> HIDE DEF q, m
  <2>1. x.order \in Orders
    BY <1>1
  <2>2. /\ InsertAt(q, PassageNb(u, p, l) + 1, x.order) \in Seq(Orders)
        /\ PointInStep(u, InsertAt(q, PassageNb(u, p, l) + 1, x.order), p)
    BY <1>1, <1>2, <1>5, <2>1, InsertInStep
  <2> QED
    BY <1>1, <2>2 DEF m
<1>7. w = [ls EXCEPT ![p] = InsertAt(q, m, n + 1)]
  <2>1. u[l].to = p
    BY <1>1, <1>2, <1>3
  <2> QED
    BY <2>1 DEF WithLoad
<1> HIDE DEF q, m, w
<1>8. w \in PointsLoads
  BY <1>6, <1>7 DEF PointsLoads, Orders
<1>9. ASSUME NEW p2 \in Points PROVE PointInStep(u, w[p2], p2)
  <2>1. CASE p2 = p
    BY <1>6, <1>7, <2>1 DEF PointsLoads
  <2>2. CASE p2 # p
    <3>1. w[p2] = ls[p2] /\ x.to # p2
      BY <1>1, <1>7, <2>2 DEF PointsLoads
    <3> DEFINE r == ls[p2]
    <3>2. PointInStep(t, r, p2)
      BY DEF InStep
    <3> HIDE DEF r
    <3>3. PointInStep(u, r, p2)
      BY <1>1, <1>2, <3>1, <3>2, InsertElsewhere
    <3> QED
      BY <3>1, <3>3 DEF r
  <2> QED
    BY <2>1, <2>2
<1>10. InStep(u, w)
  BY <1>9 DEF InStep
<1> QED
  BY <1>3, <1>4, <1>8, <1>10 DEF w, x

(* Removing a leg and its order keeps loads and legs in step.              *)
LEMMA RemoveKeeps ==
  ASSUME NEW t, NEW n \in Nat, Numbered(t, n),
         NEW ls \in PointsLoads, InStep(t, ls), NEW l \in PointLegs(t),
         NEW u, u = RemoveTripLeg(t, l)
  PROVE  /\ Numbered(u, n) /\ Len(u) = Len(t) - 1
         /\ \A i \in 1 .. Len(t) - 1 : u[i] = IF i < l THEN t[i] ELSE t[i + 1]
         /\ WithoutLoad(ls, t, l) \in PointsLoads
         /\ InStep(u, WithoutLoad(ls, t, l))
<1> DEFINE p == t[l].to
<1>1. t \in Seq(Legs) /\ l \in 1 .. Len(t) /\ p \in Points /\ u = RemoveAt(t, l)
  BY DEF Numbered, PointLegs, RemoveTripLeg
<1>2. /\ u \in Seq(Legs) /\ Len(u) = Len(t) - 1
      /\ \A i \in 1 .. Len(t) - 1 : u[i] = IF i < l THEN t[i] ELSE t[i + 1]
  BY <1>1, RemoveFacts
<1>3. Numbered(u, n)
  <2> SUFFICES ASSUME NEW i \in 1 .. Len(t) - 1, u[i].to \in Points
               PROVE  u[i].order \in 1 .. n
    BY <1>2 DEF Numbered, PointLegs
  <2>1. \A j \in 1 .. Len(t) : t[j].to \in Points => t[j].order \in 1 .. n
    BY DEF Numbered, PointLegs
  <2> QED
    BY <1>1, <1>2, <2>1
<1> DEFINE q == ls[p]
           m == PassageNb(t, p, l) + 1
           w == WithoutLoad(ls, t, l)
<1>5. q \in Seq(Orders) /\ PointInStep(t, q, p)
  BY <1>1 DEF PointsLoads, InStep, Orders
<1>6. /\ m \in 1 .. Len(q)
      /\ RemoveAt(q, m) \in Seq(Orders)
      /\ PointInStep(u, RemoveAt(q, m), p)
  <2>1. t[l].to = p
    OBVIOUS
  <2> HIDE DEF p, q, m
  <2>2. /\ PassageNb(t, p, l) + 1 \in 1 .. Len(q)
        /\ RemoveAt(q, PassageNb(t, p, l) + 1) \in Seq(Orders)
        /\ PointInStep(u, RemoveAt(q, PassageNb(t, p, l) + 1), p)
    BY <1>1, <1>5, <2>1, RemoveInStep
  <2> QED
    BY <2>2 DEF m
<1>7. w = [ls EXCEPT ![p] = RemoveAt(q, m)]
  <2>1. q # <<>>
    BY <1>5, <1>6
  <2> QED
    BY <2>1 DEF WithoutLoad
<1> HIDE DEF p, q, m, w
<1>8. w \in PointsLoads
  BY <1>6, <1>7 DEF PointsLoads, Orders
<1>9. ASSUME NEW p2 \in Points PROVE PointInStep(u, w[p2], p2)
  <2>1. CASE p2 = p
    BY <1>6, <1>7, <2>1 DEF PointsLoads
  <2>2. CASE p2 # p
    <3>1. w[p2] = ls[p2] /\ t[l].to # p2
      BY <1>7, <2>2 DEF PointsLoads, p
    <3> DEFINE r == ls[p2]
    <3>2. PointInStep(t, r, p2)
      BY DEF InStep
    <3> HIDE DEF r
    <3>3. PointInStep(u, r, p2)
      BY <1>1, <3>1, <3>2, RemoveElsewhere
    <3> QED
      BY <3>1, <3>3 DEF r
  <2> QED
    BY <2>1, <2>2
<1>10. InStep(u, w)
  BY <1>9 DEF InStep
<1> QED
  BY <1>2, <1>3, <1>8, <1>10 DEF w

(* The tour of the network file: the n-th point is the n-th order, and     *)
(* each point has its orders in the order of the visits.                   *)
PlanKept(r, t, p, n) ==
  /\ r \in Seq(Orders) /\ Len(r) = PassageNb(t, p, n + 1)
  /\ \A i \in 1 .. n : t[i].to = p => r[PassageNb(t, p, i) + 1] = i

(* The orders of a point in a plan, one leg further.                       *)
LEMMA PlanKeptNext ==
  ASSUME NEW t, NEW p, NEW r, NEW n \in Nat, n + 1 \in Orders, PlanKept(r, t, p, n)
  PROVE  PlanKept(IF t[n + 1].to = p THEN Append(r, n + 1) ELSE r, t, p, n + 1)
<1> DEFINE c == PassageNb(t, p, n + 1)
<1>1. PassageNb(t, p, (n + 1) + 1) = c + (IF t[n + 1].to = p THEN 1 ELSE 0)
  BY PassagesNext, n + 1 \in Nat \ {0}
<1>2. ASSUME NEW i \in 1 .. n, t[i].to = p PROVE PassageNb(t, p, i) < c
  <2>1. i \in Nat \ {0} /\ n + 1 \in Nat /\ i <= n + 1 /\ i < n + 1
    OBVIOUS
  <2> QED
    BY <1>2, <2>1, PassagesGrow
<1>3. c \in Nat /\ \A i \in 1 .. n : PassageNb(t, p, i) \in Nat
  BY PassagesDef
<1>4. /\ r \in Seq(Orders) /\ Len(r) = c
      /\ \A i \in 1 .. n : t[i].to = p => r[PassageNb(t, p, i) + 1] = i
  BY DEF PlanKept
<1>5. CASE t[n + 1].to = p
  <2> DEFINE s == Append(r, n + 1)
  <2>1. /\ s \in Seq(Orders) /\ Len(s) = c + 1
        /\ \A i \in 1 .. c : s[i] = r[i]
        /\ s[c + 1] = n + 1
    <3> DEFINE o == n + 1
    <3> HIDE DEF c
    <3>1. o \in Orders
      OBVIOUS
    <3> HIDE DEF o
    <3>2. /\ Append(r, o) \in Seq(Orders) /\ Len(Append(r, o)) = Len(r) + 1
          /\ \A i \in 1 .. Len(r) : Append(r, o)[i] = r[i]
          /\ Append(r, o)[Len(r) + 1] = o
      BY <1>4, <3>1, AppendProperties
    <3> QED
      BY <1>4, <3>2 DEF o
  <2> HIDE DEF s
  <2>2. ASSUME NEW i \in 1 .. n + 1, t[i].to = p
        PROVE  s[PassageNb(t, p, i) + 1] = i
    <3>1. CASE i = n + 1
      BY <2>1, <3>1
    <3>2. CASE i \in 1 .. n
      <4>1. PassageNb(t, p, i) < c /\ PassageNb(t, p, i) \in Nat
        BY <1>2, <1>3, <2>2, <3>2
      <4> DEFINE d == PassageNb(t, p, i)
      <4> HIDE DEF c, d
      <4>2. d + 1 \in 1 .. c
        BY <1>3, <4>1 DEF d
      <4>3. r[d + 1] = i
        BY <1>4, <2>2, <3>2 DEF d
      <4> QED
        BY <2>1, <4>2, <4>3 DEF d
    <3> QED
      BY <3>1, <3>2
  <2>3. Len(s) = PassageNb(t, p, (n + 1) + 1)
    BY <1>1, <1>5, <2>1
  <2>4. PlanKept(s, t, p, n + 1)
    BY <2>1, <2>2, <2>3 DEF PlanKept
  <2> QED
    BY <1>5, <2>4 DEF s
<1>6. CASE t[n + 1].to # p
  <2>1. Len(r) = PassageNb(t, p, (n + 1) + 1)
    BY <1>1, <1>3, <1>4, <1>6
  <2>2. ASSUME NEW i \in 1 .. n + 1, t[i].to = p
        PROVE  r[PassageNb(t, p, i) + 1] = i
    <3>1. i \in 1 .. n
      BY <1>6, <2>2
    <3> QED
      BY <1>4, <2>2, <3>1
  <2>3. PlanKept(r, t, p, n + 1)
    BY <1>4, <2>1, <2>2 DEF PlanKept
  <2> QED
    BY <1>6, <2>3
<1> QED
  BY <1>5, <1>6

(* The orders of a point in a whole plan.                                  *)
LEMMA PlanKeptAll ==
  ASSUME NEW t, NEW p, NEW K, NEW list \in Seq(Orders),
         \A i \in 1 .. Len(list) : list[i] = i,
         \A i \in 1 .. Len(list) : i \in K <=> t[i].to = p
  PROVE  PlanKept(Keep(list, K), t, p, Len(list))
<1> DEFINE kept(n) == Keep(SubSeq(list, 1, n), K)
           N == {n \in Nat : n <= Len(list) => PlanKept(kept(n), t, p, n)}
<1>1. 0 \in N
  <2>1. SubSeq(list, 1, 0) = <<>>
    BY SubSeqEmpty
  <2>2. kept(0) = <<>>
    BY <2>1, KeepNone
  <2>3. PassageNb(t, p, 0 + 1) = 0
    BY PassagesFirst
  <2>4. PlanKept(<<>>, t, p, 0)
    BY <2>3 DEF PlanKept
  <2> HIDE DEF kept
  <2> QED
    BY <2>2, <2>4
<1>2. ASSUME NEW n \in N PROVE n + 1 \in N
  <2> SUFFICES ASSUME n + 1 <= Len(list) PROVE PlanKept(kept(n + 1), t, p, n + 1)
    OBVIOUS
  <2>1. n \in Nat /\ n < Len(list) /\ n + 1 \in 1 .. Len(list)
    OBVIOUS
  <2>2. PlanKept(kept(n), t, p, n)
    BY <2>1
  <2>3. kept(n + 1) = Kept(K, kept(n), list[n + 1])
    BY <2>1, KeepOneMore
  <2>4. list[n + 1] = n + 1 /\ list[n + 1] \in Orders /\ (n + 1 \in K <=> t[n + 1].to = p)
    BY <2>1
  <2> DEFINE r == kept(n)
  <2>5. kept(n + 1) = IF t[n + 1].to = p THEN Append(r, n + 1) ELSE r
    BY <2>3, <2>4 DEF Kept
  <2> HIDE DEF kept, r
  <2>6. PlanKept(r, t, p, n)
    BY <2>2 DEF r
  <2> QED
    BY <2>1, <2>4, <2>5, <2>6, PlanKeptNext
<1>3. N \in SUBSET Nat
  OBVIOUS
<1> HIDE DEF N
<1>4. N = Nat
  BY <1>1, <1>2, <1>3, EveryNatural
<1>5. Len(list) \in Nat
  OBVIOUS
<1>6. PlanKept(kept(Len(list)), t, p, Len(list))
  BY <1>4, <1>5 DEF N
<1>7. SubSeq(list, 1, Len(list)) = list
  BY SubSeqFull
<1> QED
  BY <1>6, <1>7

(* The legs of a planned trip.                                             *)
LEMMA PlanLegs ==
  ASSUME NEW t, t = [i \in 1 .. Len(Plan) |-> Leg(Plan[i], i)] \o <<Leg(Exit, Nothing)>>
  PROVE  /\ Len(t) = Len(Plan) + 1 /\ DOMAIN t = 1 .. Len(Plan) + 1
         /\ \A i \in 1 .. Len(Plan) : t[i] = Leg(Plan[i], i)
         /\ t[Len(Plan) + 1] = Leg(Exit, Nothing)
<1>1. Plan \in Seq(Points) /\ Len(Plan) \in Nat
  <2>1. Plan \in Seq(Points)
    BY TourAssumption
  <2> QED
    BY <2>1
<1> DEFINE a == [i \in 1 .. Len(Plan) |-> Leg(Plan[i], i)]
           L == {Leg(Plan[i], i) : i \in 1 .. Len(Plan)} \cup {Leg(Exit, Nothing)}
<1>2. a \in Seq(L) /\ Len(a) = Len(Plan) /\ \A i \in 1 .. Len(Plan) : a[i] = Leg(Plan[i], i)
  BY <1>1
<1> DEFINE b == <<Leg(Exit, Nothing)>>
<1>3. b \in Seq(L) /\ Len(b) = 1 /\ b[1] = Leg(Exit, Nothing)
  OBVIOUS
<1>4. t = a \o b
  OBVIOUS
<1> HIDE DEF a, b, L
<1>5. /\ Len(t) = Len(Plan) + 1 /\ DOMAIN t = 1 .. Len(Plan) + 1
      /\ \A i \in 1 .. Len(Plan) : t[i] = Leg(Plan[i], i)
      /\ t[Len(Plan) + 1] = Leg(Exit, Nothing)
  BY <1>1, <1>2, <1>3, <1>4
<1> QED
  BY <1>5

(* The orders of each point of a planned trip.                             *)
LEMMA PlanLoads ==
  ASSUME NEW p \in Points,
         NEW t, t = [i \in 1 .. Len(Plan) |-> Leg(Plan[i], i)] \o <<Leg(Exit, Nothing)>>,
         NEW q, q = Keep([i \in DOMAIN Plan |-> i], {i \in DOMAIN Plan : Plan[i] = p})
  PROVE  q \in Seq(Orders) /\ PointInStep(t, q, p)
<1> DEFINE list == [i \in DOMAIN Plan |-> i]
           K == {i \in DOMAIN Plan : Plan[i] = p}
<1>1. Plan \in Seq(Points) /\ Len(Plan) \in Nat /\ Len(Plan) <= MaxOrder /\ MaxOrder \in Nat
  <2>1. Plan \in Seq(Points) /\ MaxOrder \in Nat /\ MaxOrder >= Len(Plan)
    BY TourAssumption
  <2> QED
    BY <2>1
<1>0. Exit # p
  BY TourAssumption
<1>2. DOMAIN list = 1 .. Len(Plan) /\ list \in Seq(Orders) /\ Len(list) = Len(Plan)
      /\ \A i \in 1 .. Len(Plan) : list[i] = i
  <2>1. DOMAIN list = 1 .. Len(Plan) /\ \A i \in 1 .. Len(Plan) : list[i] = i
    BY <1>1
  <2>2. \A i \in 1 .. Len(Plan) : i \in Orders
    BY <1>1 DEF Orders
  <2>3. list \in [1 .. Len(Plan) -> Orders]
    BY <2>1, <2>2
  <2> QED
    BY <1>1, <2>1, <2>3
<1>3. /\ Len(t) = Len(Plan) + 1 /\ DOMAIN t = 1 .. Len(Plan) + 1
      /\ \A i \in 1 .. Len(Plan) : t[i].to = Plan[i] /\ t[i].order = i
      /\ t[Len(Plan) + 1].to = Exit
  BY PlanLegs DEF Leg
<1>4. \A i \in 1 .. Len(Plan) : i \in K <=> t[i].to = p
  BY <1>1, <1>3
<1>5. q = Keep(list, K)
  OBVIOUS
<1> HIDE DEF list, K
<1>10. PlanKept(q, t, p, Len(Plan))
  <2>1. /\ list \in Seq(Orders) /\ \A i \in 1 .. Len(list) : list[i] = i
        /\ \A i \in 1 .. Len(list) : i \in K <=> t[i].to = p
    BY <1>2, <1>4
  <2>2. PlanKept(Keep(list, K), t, p, Len(list))
    BY <2>1, PlanKeptAll
  <2> QED
    BY <1>2, <1>5, <2>2
<1>11. PassageNb(t, p, Len(t) + 1) = PassageNb(t, p, Len(Plan) + 1)
  <2>1. Len(Plan) + 1 \in Nat \ {0} /\ t[Len(Plan) + 1].to # p
    BY <1>0, <1>1, <1>3
  <2>2. PassageNb(t, p, (Len(Plan) + 1) + 1) =
          PassageNb(t, p, Len(Plan) + 1) + (IF t[Len(Plan) + 1].to = p THEN 1 ELSE 0)
    BY <2>1, PassagesNext
  <2>3. PassageNb(t, p, Len(Plan) + 1) \in Nat
    BY <2>1, PassagesDef
  <2> QED
    BY <1>3, <2>1, <2>2, <2>3
<1>12. ASSUME NEW i \in DOMAIN t, t[i].to = p
       PROVE  q[PassageNb(t, p, i) + 1] = t[i].order
  <2>1. i \in 1 .. Len(Plan)
    BY <1>0, <1>1, <1>3, <1>12
  <2> QED
    BY <1>3, <1>10, <1>12, <2>1 DEF PlanKept
<1> QED
  BY <1>10, <1>11, <1>12 DEF PointInStep, PlanKept

(***************************************************************************)
(* The invariant.                                                          *)
(***************************************************************************)
Values ==
  /\ trip \in [Vehicles -> Seq(Legs)] /\ loads \in [Vehicles -> PointsLoads]
  /\ leg \in [Vehicles -> Nat] /\ stage \in [Vehicles -> {"depot", "out", "left", "lost"}]
  /\ upset \in SUBSET Vehicles
  /\ outside \in [Vehicles -> BOOLEAN] /\ listed \in [Points -> Seq(Vehicles)]
  /\ orders \in Len(Plan) .. MaxOrder
  /\ asked \in [Vehicles -> SUBSET Orders]
  /\ served \in [Vehicles -> Seq(0 .. MaxOrder)]

TourInv ==
  /\ Numbered(tour, orders) /\ tourLoads \in PointsLoads /\ InStep(tour, tourLoads)
  /\ \E e \in DOMAIN tour : tour[e].to = Exit

TripInv(v) ==
  /\ Numbered(trip[v], orders) /\ loads[v] \in PointsLoads
  /\ InStep(trip[v], loads[v])

(* NoPlaceLost is not inductive: at the end of a stop there must be a leg  *)
(* to move to.  There is one, since the exit is never behind a vehicle, as *)
(* long as no order took its current destination.                          *)
ExitAhead(t, c) == \E e \in c .. Len(t) : t[e].to = Exit

OnTrip(v) ==
  IF stage[v] = "depot" THEN leg[v] = 0 /\ v \notin upset
  ELSE /\ stage[v] = "lost" \/ leg[v] \in DOMAIN trip[v]
       /\ v \in upset \/ (stage[v] # "lost" /\ ExitAhead(trip[v], leg[v]))

Listed(v, p) == v \in Range(listed[p])

IInv ==
  /\ Values /\ TourInv /\ NoPlaceLost
  /\ \A v \in Vehicles : TripInv(v) /\ OnTrip(v)

(* What is assumed of the plan.                                            *)
LEMMA Constants ==
  /\ MaxOrder \in Nat /\ Len(Plan) \in Nat /\ Plan \in Seq(Points)
  /\ Len(Plan) <= MaxOrder /\ Exit \notin Points
<1>1. /\ Plan \in Seq(Points) /\ MaxOrder \in Nat /\ MaxOrder >= Len(Plan)
      /\ Exit \notin Points
  BY TourAssumption
<1> QED
  BY <1>1

(* The invariant gives the types.                                          *)
LEMMA TypeFromInv == IInv => TypeOK
<1> SUFFICES ASSUME IInv PROVE TypeOK
  OBVIOUS
<1>1. tour \in Seq(Legs) /\ tourLoads \in PointsLoads
  BY DEF IInv, TourInv, Numbered
<1>2. ASSUME NEW v \in Vehicles
      PROVE  IF stage[v] = "depot" THEN leg[v] = 0
             ELSE stage[v] = "lost" \/ leg[v] \in DOMAIN trip[v]
  BY DEF IInv, OnTrip
<1> QED
  BY <1>1, <1>2 DEF IInv, Values, TypeOK, Legs, PointsLoads, Orders

(* The invariant gives the loads in step with the legs.                    *)
LEMMA InStepFromInv == IInv => LoadsFollowLegs
<1> SUFFICES ASSUME IInv PROVE LoadsFollowLegs
  OBVIOUS
<1>1. InStep(tour, tourLoads) /\ \A v \in Vehicles : InStep(trip[v], loads[v])
  BY DEF IInv, TourInv, TripInv
<1> QED
  BY <1>1 DEF LoadsFollowLegs, InStep, PointInStep

(* The invariant holds at first.                                           *)
LEMMA InitInv == Init => IInv
<1> SUFFICES ASSUME Init PROVE IInv
  OBVIOUS
<1>0. MaxOrder \in Nat /\ Len(Plan) \in Nat /\ Len(Plan) <= MaxOrder /\ Plan \in Seq(Points)
  BY Constants
<1>1. Values
  <2>1. orders \in Len(Plan) .. MaxOrder
    BY <1>0 DEF Init
  <2>2. <<>> \in Seq(Legs) /\ <<>> \in Seq(Orders) /\ <<>> \in Seq(Vehicles)
        /\ <<>> \in Seq(0 .. MaxOrder)
    OBVIOUS
  <2> QED
    BY <2>1, <2>2 DEF Init, Values, PointsLoads
<1>2. TourInv
  <2> DEFINE a == [i \in 1 .. Len(Plan) |-> Leg(Plan[i], i)]
             b == <<Leg(Exit, Nothing)>>
  <2>1. tour = a \o b
    BY DEF Init
  <2>2. ASSUME NEW i \in 1 .. Len(Plan)
        PROVE  Leg(Plan[i], i) \in Legs /\ Leg(Plan[i], i).order = i
    <3>1. i \in Orders /\ Plan[i] \in Points
      BY <1>0 DEF Orders
    <3> QED
      BY <3>1, LegType
  <2>3. a \in Seq(Legs) /\ Len(a) = Len(Plan)
        /\ \A i \in 1 .. Len(Plan) : a[i] = Leg(Plan[i], i)
    BY <1>0, <2>2
  <2>4. b \in Seq(Legs) /\ Len(b) = 1 /\ b[1].to = Exit
    <3>1. Leg(Exit, Nothing) \in Legs /\ Leg(Exit, Nothing).to = Exit
      BY <1>0 DEF Leg, Legs, Nothing
    <3> QED
      BY <3>1
  <2> HIDE DEF a, b
  <2>5. /\ tour \in Seq(Legs) /\ Len(tour) = Len(Plan) + 1
        /\ \A i \in 1 .. Len(Plan) : tour[i] = Leg(Plan[i], i)
        /\ tour[Len(Plan) + 1].to = Exit
    <3>0. a \in Seq(Legs) /\ b \in Seq(Legs)
      BY <2>3, <2>4
    <3>1. /\ a \o b \in Seq(Legs) /\ Len(a \o b) = Len(a) + Len(b)
          /\ \A i \in 1 .. Len(a) + Len(b) :
               (a \o b)[i] = IF i <= Len(a) THEN a[i] ELSE b[i - Len(a)]
      BY <3>0, ConcatProperties
    <3>2. /\ \A i \in 1 .. Len(Plan) : i \in 1 .. Len(a) + Len(b) /\ i <= Len(a)
          /\ Len(Plan) + 1 \in 1 .. Len(a) + Len(b) /\ ~(Len(Plan) + 1 <= Len(a))
          /\ (Len(Plan) + 1) - Len(a) = 1 /\ Len(a) + Len(b) = Len(Plan) + 1
      BY <1>0, <2>3, <2>4
    <3>3. (a \o b)[Len(Plan) + 1] = b[1]
      BY <3>1, <3>2
    <3> QED
      BY <2>1, <2>3, <2>4, <3>1, <3>2, <3>3
  <2>6. Numbered(tour, orders)
    <3> SUFFICES ASSUME NEW l \in 1 .. Len(tour), tour[l].to \in Points
                 PROVE  tour[l].order \in 1 .. Len(Plan)
      BY <2>5 DEF Numbered, PointLegs, Init
    <3>1. l # Len(Plan) + 1
      BY <2>5, Constants
    <3>2. l \in 1 .. Len(Plan)
      BY <1>0, <2>5, <3>1
    <3> QED
      BY <2>2, <2>5, <3>2
  <2>7. \E e \in DOMAIN tour : tour[e].to = Exit
    <3>1. Len(Plan) + 1 \in DOMAIN tour
      BY <1>0, <2>5
    <3> QED
      BY <2>5, <3>1
  <2>8. ASSUME NEW p \in Points
        PROVE  tourLoads[p] \in Seq(Orders) /\ PointInStep(tour, tourLoads[p], p)
    <3>1. tourLoads[p] = Keep([i \in DOMAIN Plan |-> i], {i \in DOMAIN Plan : Plan[i] = p})
      BY DEF Init
    <3>2. tour = [i \in 1 .. Len(Plan) |-> Leg(Plan[i], i)] \o <<Leg(Exit, Nothing)>>
      BY DEF Init
    <3> QED
      BY <3>1, <3>2, PlanLoads
  <2>9. tourLoads = [p \in Points |-> tourLoads[p]]
    BY DEF Init
  <2>10. tourLoads \in PointsLoads
    BY <2>8, <2>9 DEF PointsLoads, Orders
  <2> QED
    BY <2>6, <2>7, <2>8, <2>10 DEF TourInv, InStep
<1>3. ASSUME NEW v \in Vehicles PROVE TripInv(v) /\ OnTrip(v)
  <2>1. /\ trip[v] = <<>> /\ loads[v] = [p \in Points |-> <<>>] /\ leg[v] = 0
        /\ stage[v] = "depot" /\ v \notin upset
    BY DEF Init
  <2>2. Numbered(trip[v], orders)
    BY <2>1 DEF Numbered, PointLegs
  <2>3. loads[v] \in PointsLoads
    BY <2>1 DEF PointsLoads
  <2>4. ASSUME NEW p \in Points PROVE PointInStep(trip[v], loads[v][p], p)
    <3>1. PassageNb(<<>>, p, 0 + 1) = 0
      BY PassagesFirst
    <3>2. trip[v] = <<>> /\ loads[v][p] = <<>>
      BY <2>1
    <3>3. Len(<<>>) = 0 /\ DOMAIN <<>> = {}
      OBVIOUS
    <3> QED
      BY <3>1, <3>2, <3>3 DEF PointInStep
  <2> QED
    BY <2>1, <2>2, <2>3, <2>4 DEF TripInv, OnTrip, InStep
<1>4. NoPlaceLost
  BY DEF Init, NoPlaceLost, IsInjective, Range
<1> QED
  BY <1>1, <1>2, <1>3, <1>4 DEF IInv

(***************************************************************************)
(* What a step leaves alone keeps its part of the invariant.               *)
(***************************************************************************)
LEMMA TourKept ==
  ASSUME IInv, tour' = tour, tourLoads' = tourLoads, orders' = orders
  PROVE  TourInv'
BY DEF IInv, TourInv

(* A vehicle whose trip is left alone keeps it in step.                    *)
LEMMA TripKept ==
  ASSUME IInv, NEW v \in Vehicles, trip'[v] = trip[v], loads'[v] = loads[v],
         orders' = orders
  PROVE  TripInv(v)'
BY DEF IInv, TripInv

(* A vehicle that does not move stays where it is on its trip.             *)
LEMMA OnTripKept ==
  ASSUME IInv, NEW v \in Vehicles, trip'[v] = trip[v], leg'[v] = leg[v],
         stage'[v] = stage[v], v \in upset' <=> v \in upset
  PROVE  OnTrip(v)'
BY DEF IInv, OnTrip, ExitAhead

(* A new order elsewhere keeps the trip in step.                           *)
LEMMA OrdersKept ==
  ASSUME IInv, NEW v \in Vehicles, trip'[v] = trip[v], loads'[v] = loads[v],
         orders' = orders + 1
  PROVE  TripInv(v)'
<1>1. orders \in Nat
  BY Constants DEF IInv, Values
<1>2. TripInv(v) /\ Numbered(trip[v], orders + 1)
  BY <1>1, MoreOrders DEF IInv, TripInv
<1> QED
  BY <1>2 DEF TripInv

(* The vehicles a point lists are not those of another destination, nor    *)
(* those that are not in the network.                                      *)
LEMMA ListedThere ==
  ASSUME IInv, NEW v \in Vehicles, v \notin upset, NEW p \in Points, Listed(v, p)
  PROVE  stage[v] = "out" /\ Dest(v) = p
BY DEF IInv, NoPlaceLost, StoppedAt, Listed

(* A vehicle that is not at its trip node is in no queue.                  *)
LEMMA AtNode ==
  ASSUME IInv, NEW v \in Vehicles, v \notin upset, ~AtTripNode(v), NEW p \in Points
  PROVE  ~Listed(v, p)
BY ListedThere DEF AtTripNode, Listed

(* A vehicle is never twice in a queue.                                    *)
LEMMA NotListedTwice ==
  ASSUME IInv, NEW v \in Vehicles, ~AtTripNode(v), Dest(v) \in Points
  PROVE  /\ listed[Dest(v)] \in Seq(Vehicles) /\ IsInjective(listed[Dest(v)])
         /\ v \notin Range(listed[Dest(v)])
BY DEF AtTripNode, IInv, Values, NoPlaceLost

(* The destination of a vehicle on its trip.                               *)
LEMMA DestType ==
  ASSUME IInv, NEW v \in Vehicles, stage[v] = "out" \/ stage[v] = "left"
  PROVE  /\ trip[v] \in Seq(Legs) /\ leg[v] \in 1 .. Len(trip[v])
         /\ trip[v][leg[v]] \in Legs /\ Dest(v) \in Points \cup {Exit}
<1>1. trip[v] \in Seq(Legs) /\ leg[v] \in DOMAIN trip[v]
  BY DEF IInv, Values, OnTrip
<1>2. trip[v][leg[v]] \in Legs
  BY <1>1
<1> QED
  BY <1>1, <1>2 DEF Dest, Legs

(* The lists of the points and the destinations of the vehicles they hold  *)
(* are the same before and after.                                          *)
LEMMA PlacesKept ==
  ASSUME IInv, listed' = listed, upset \subseteq upset',
         \A v \in Vehicles : v \notin upset' /\ (\E p \in Points : Listed(v, p)) =>
            stage'[v] = stage[v] /\ trip'[v][leg'[v]].to = trip[v][leg[v]].to
  PROVE  NoPlaceLost'
<1>1. \A p \in Points : listed[p] \in Seq(Vehicles)
  BY DEF IInv, Values
<1> SUFFICES ASSUME NEW p \in Points
             PROVE  /\ IsInjective(listed[p])
                    /\ \A v \in Range(listed[p]) :
                          (stage'[v] = "out" /\ trip'[v][leg'[v]].to = p) \/ v \in upset'
  BY DEF NoPlaceLost, StoppedAt, Dest
<1>2. IsInjective(listed[p])
  BY DEF IInv, NoPlaceLost
<1>3. ASSUME NEW v \in Range(listed[p]), v \notin upset'
      PROVE  stage'[v] = "out" /\ trip'[v][leg'[v]].to = p
  <2>1. v \in Vehicles
    BY <1>1 DEF Range
  <2>2. Listed(v, p) /\ stage[v] = "out" /\ trip[v][leg[v]].to = p
    BY <1>3 DEF IInv, NoPlaceLost, StoppedAt, Dest, Listed
  <2> QED
    BY <1>3, <2>1, <2>2
<1> QED
  BY <1>2, <1>3

(* Leaving the depot keeps the invariant.                                  *)
LEMMA ActivateInv ==
  ASSUME IInv, NEW v \in Vehicles, ActivateVehicle(v)
  PROVE  IInv'
<1> USE DEF ActivateVehicle
<1>1. Values'
  <2>1. tour \in Seq(Legs) /\ tourLoads \in PointsLoads
    BY DEF IInv, TourInv, Numbered
  <2>2. {tour[l].order : l \in PointLegs(tour)} \in SUBSET Orders
    <3>1. orders \in Nat /\ orders <= MaxOrder /\ MaxOrder \in Nat
      BY Constants DEF IInv, Values
    <3>2. \A l \in PointLegs(tour) : tour[l].order \in 1 .. orders
      BY DEF IInv, TourInv, Numbered
    <3>3. \A o \in 1 .. orders : o \in Orders
      BY <3>1 DEF Orders
    <3> QED
      BY <3>2, <3>3
  <2>3. /\ trip' \in [Vehicles -> Seq(Legs)] /\ loads' \in [Vehicles -> PointsLoads]
        /\ leg' \in [Vehicles -> Nat]
        /\ stage' \in [Vehicles -> {"depot", "out", "left", "lost"}]
    BY <2>1 DEF IInv, Values
  <2>4. asked' \in [Vehicles -> SUBSET Orders]
    BY <2>2 DEF IInv, Values
  <2> QED
    BY <2>3, <2>4 DEF IInv, Values
<1>2. TourInv'
  BY TourKept
<1>3. ASSUME NEW w \in Vehicles PROVE TripInv(w)' /\ OnTrip(w)'
  <2>1. CASE w # v
    <3>1. trip'[w] = trip[w] /\ loads'[w] = loads[w] /\ leg'[w] = leg[w] /\ stage'[w] = stage[w]
      BY <2>1 DEF IInv, Values
    <3> QED
      BY <3>1, TripKept, OnTripKept
  <2>2. CASE w = v
    <3>1. /\ trip'[v] = tour /\ loads'[v] = tourLoads /\ leg'[v] = 1 /\ stage'[v] = "out"
          /\ orders' = orders
      BY DEF IInv, Values
    <3>2. TripInv(v)'
      BY <3>1 DEF IInv, TourInv, TripInv
    <3>3. PICK e \in DOMAIN tour : tour[e].to = Exit
      BY DEF IInv, TourInv
    <3>4. tour \in Seq(Legs)
      BY DEF IInv, TourInv, Numbered
    <3>5. e \in 1 .. Len(tour) /\ 1 \in DOMAIN tour
      BY <3>4
    <3>6. OnTrip(v)'
      BY <3>1, <3>3, <3>5 DEF OnTrip, ExitAhead
    <3> QED
      BY <2>2, <3>2, <3>6
  <2> QED
    BY <2>1, <2>2
<1>4. NoPlaceLost'
  <2>0. v \notin upset
    BY DEF IInv, OnTrip
  <2>1. ASSUME NEW w \in Vehicles, NEW p \in Points, Listed(w, p)
        PROVE  w \notin upset' =>
               stage'[w] = stage[w] /\ trip'[w][leg'[w]].to = trip[w][leg[w]].to
    <3>1. w # v
      BY <2>0, <2>1, ListedThere
    <3> QED
      BY <3>1 DEF IInv, Values
  <2> QED
    BY <2>1, PlacesKept
<1> QED
  BY <1>1, <1>2, <1>3, <1>4 DEF IInv

(* Entering the network keeps the invariant.                               *)
LEMMA InsertVehicleInv ==
  ASSUME IInv, NEW v \in Vehicles, InsertVehicle(v)
  PROVE  IInv'
<1> USE DEF InsertVehicle
<1>1. Values'
  BY DEF IInv, Values
<1>2. TourInv' /\ \A w \in Vehicles : TripInv(w)' /\ OnTrip(w)'
  BY TourKept, TripKept, OnTripKept
<1>3. NoPlaceLost'
  BY PlacesKept
<1> QED
  BY <1>1, <1>2, <1>3 DEF IInv

(* A vehicle stops: it appears in the list of its destination, where it    *)
(* was not, and handles the load of this passage.                          *)
LEMMA HandledType ==
  ASSUME IInv, NEW v \in Vehicles, stage[v] = "out", Dest(v) \in Points
  PROVE  /\ LoadFromMap(loads[v][Dest(v)], PassageNb(trip[v], Dest(v), leg[v]))
              = trip[v][leg[v]].order
         /\ trip[v][leg[v]].order \in Orders
<1> DEFINE p == Dest(v)
           n == PassageNb(trip[v], p, leg[v])
           q == loads[v][p]
<1>1. /\ trip[v] \in Seq(Legs) /\ leg[v] \in 1 .. Len(trip[v])
      /\ trip[v][leg[v]].to = p
  BY DestType DEF Dest
<1>2. q \in Seq(Orders) /\ PointInStep(trip[v], q, p)
  BY DEF IInv, TripInv, InStep, PointsLoads, Orders
<1>3. Len(q) = PassageNb(trip[v], p, Len(trip[v]) + 1) /\ q[n + 1] = trip[v][leg[v]].order
  BY <1>1, <1>2 DEF PointInStep
<1>4. n < PassageNb(trip[v], p, Len(trip[v]) + 1) /\ n \in Nat
  <2> DEFINE t == trip[v]
             k == leg[v]
  <2>1. k \in Nat \ {0} /\ Len(t) + 1 \in Nat /\ k < Len(t) + 1 /\ t[k].to = p
    BY <1>1
  <2> HIDE DEF t, k, p
  <2>2. PassageNb(t, p, k) < PassageNb(t, p, Len(t) + 1) /\ PassageNb(t, p, k) \in Nat
    BY <2>1, PassagesGrow, PassagesDef
  <2> QED
    BY <2>2 DEF t, k
<1> HIDE DEF p, n, q
<1>5. n + 1 \in 1 .. Len(q)
  BY <1>2, <1>3, <1>4
<1>6. q[n + 1] \in Orders
  BY <1>2, <1>5
<1>7. LoadFromMap(q, n) = q[n + 1]
  <2>1. q # <<>>
    BY <1>2, <1>5
  <2>2. Len(q) = 1 => n + 1 = 1
    BY <1>4, <1>5
  <2>3. q[1] = q[n + 1] \/ Len(q) # 1
    BY <2>2
  <2> QED
    BY <2>1, <2>3 DEF LoadFromMap
<1> QED
  BY <1>3, <1>6, <1>7 DEF p, n, q

(* One more vehicle in a queue without repetition.                         *)
LEMMA AppendListed ==
  ASSUME NEW T, NEW q \in Seq(T), IsInjective(q), NEW x \in T, x \notin Range(q)
  PROVE  /\ Append(q, x) \in Seq(T) /\ IsInjective(Append(q, x))
         /\ Range(Append(q, x)) = Range(q) \cup {x}
<1> DEFINE a == Append(q, x)
<1>1. /\ a \in Seq(T) /\ Len(a) = Len(q) + 1 /\ Len(q) \in Nat
      /\ \A i \in 1 .. Len(q) : a[i] = q[i]
      /\ a[Len(q) + 1] = x
  BY AppendProperties
<1>2. DOMAIN a = 1 .. Len(q) + 1 /\ DOMAIN q = 1 .. Len(q)
  BY <1>1
<1> HIDE DEF a
<1>3. Range(a) = Range(q) \cup {x}
  BY <1>1, <1>2 DEF Range
<1>4. \A i \in 1 .. Len(q) : q[i] # x
  BY <1>2 DEF Range
<1>5. IsInjective(a)
  BY <1>1, <1>2, <1>4 DEF IsInjective
<1> QED
  BY <1>1, <1>3, <1>5 DEF a

(* Reaching a destination keeps the invariant.                             *)
LEMMA ReachInv ==
  ASSUME IInv, NEW v \in Vehicles, ReachDestination(v)
  PROVE  IInv'
<1>0. /\ stage[v] = "out" /\ ~AtTripNode(v) /\ upset' = upset
      /\ tour' = tour /\ tourLoads' = tourLoads /\ orders' = orders /\ asked' = asked
  BY DEF ReachDestination
<1>1. CASE Leave(v)
  <2>1. /\ stage' = [stage EXCEPT ![v] = "left"]
        /\ trip' = trip /\ leg' = leg /\ loads' = loads /\ outside' = outside
        /\ listed' = listed /\ served' = served
    BY <1>1 DEF Leave
  <2>2. Values'
    BY <1>0, <2>1 DEF IInv, Values
  <2>3. ASSUME NEW w \in Vehicles PROVE TripInv(w)' /\ OnTrip(w)'
    <3>1. TripInv(w)'
      BY <1>0, <2>1, TripKept
    <3>2. /\ stage'[w] = "depot" <=> stage[w] = "depot"
          /\ stage'[w] = "lost" <=> stage[w] = "lost"
      BY <1>0, <2>1 DEF IInv, Values
    <3>3. OnTrip(w)
      BY DEF IInv
    <3> QED
      BY <1>0, <2>1, <3>1, <3>2, <3>3 DEF OnTrip, ExitAhead
  <2>4. NoPlaceLost'
    <3>1. ASSUME NEW w \in Vehicles, w \notin upset, NEW p \in Points, Listed(w, p)
          PROVE  stage'[w] = stage[w] /\ trip'[w][leg'[w]].to = trip[w][leg[w]].to
      <4>1. w # v
        BY <1>0, <3>1, AtNode
      <4> QED
        BY <2>1, <4>1 DEF IInv, Values
    <3> QED
      BY <1>0, <2>1, <3>1, PlacesKept
  <2> QED
    BY <1>0, <2>2, <2>3, <2>4, TourKept DEF IInv
<1>2. CASE Stop(v, Dest(v)) /\ Dest(v) # Exit
  <2> DEFINE p == Dest(v)
             o == trip[v][leg[v]].order
  <2>0. p \in Points
    BY <1>0, <1>2, DestType
  <2>1. /\ trip' = trip /\ leg' = leg /\ loads' = loads /\ stage' = stage
        /\ listed' = [listed EXCEPT ![p] = Append(@, v)]
        /\ outside' = [outside EXCEPT ![v] = p \in OffLane]
    BY <1>2 DEF Stop
  <2>2. served' = [served EXCEPT ![v] = Append(@, o)] /\ o \in Orders
    BY <1>0, <1>2, <2>0, HandledType DEF Stop, WithLoadHandled
  <2>3. listed[p] \in Seq(Vehicles) /\ IsInjective(listed[p]) /\ v \notin Range(listed[p])
    BY <1>0, <2>0, NotListedTwice
  <2>3a. trip[v][leg[v]].to = p
    BY DEF Dest
  <2> HIDE DEF p, o
  <2>4. /\ listed'[p] \in Seq(Vehicles) /\ IsInjective(listed'[p])
        /\ Range(listed'[p]) = Range(listed[p]) \cup {v}
    <3>1. listed'[p] = Append(listed[p], v)
      BY <2>0, <2>1 DEF IInv, Values
    <3> QED
      BY <2>3, <3>1, AppendListed
  <2>5. \A p2 \in Points : p2 # p => listed'[p2] = listed[p2]
    BY <2>1 DEF IInv, Values
  <2>6. Values'
    <3>1. served' \in [Vehicles -> Seq(0 .. MaxOrder)]
      <4>1. o \in 0 .. MaxOrder
        BY <2>2, Constants DEF Orders
      <4>2. Append(served[v], o) \in Seq(0 .. MaxOrder)
        BY <4>1 DEF IInv, Values
      <4> QED
        BY <2>2, <4>2 DEF IInv, Values
    <3>2. listed' \in [Points -> Seq(Vehicles)]
      <4>1. Append(listed[p], v) \in Seq(Vehicles)
        BY <2>3
      <4> QED
        BY <2>1, <4>1 DEF IInv, Values
    <3>3. outside' \in [Vehicles -> BOOLEAN]
      <4>1. (p \in OffLane) \in BOOLEAN
        OBVIOUS
      <4> QED
        BY <2>1, <4>1 DEF IInv, Values
    <3> QED
      BY <1>0, <2>1, <3>1, <3>2, <3>3 DEF IInv, Values
  <2>7. \A w \in Vehicles : TripInv(w)' /\ OnTrip(w)'
    BY <1>0, <2>1, TripKept, OnTripKept
  <2>8. NoPlaceLost'
    <3> SUFFICES ASSUME NEW p2 \in Points
                 PROVE  /\ IsInjective(listed'[p2])
                        /\ \A w \in Range(listed'[p2]) :
                              \/ stage'[w] = "out" /\ trip'[w][leg'[w]].to = p2
                              \/ w \in upset'
      BY DEF NoPlaceLost, StoppedAt, Dest
    <3>1. /\ IsInjective(listed[p2])
          /\ \A w \in Range(listed[p2]) :
                \/ stage[w] = "out" /\ trip[w][leg[w]].to = p2
                \/ w \in upset
      BY DEF IInv, NoPlaceLost, StoppedAt, Dest
    <3>2. CASE p2 = p
      BY <1>0, <2>1, <2>3a, <2>4, <3>1, <3>2
    <3>3. CASE p2 # p
      BY <1>0, <2>1, <2>5, <3>1, <3>3
    <3> QED
      BY <3>2, <3>3
  <2> QED
    BY <1>0, <2>6, <2>7, <2>8, TourKept DEF IInv
<1> QED
  BY <1>1, <1>2 DEF ReachDestination

(* A vehicle that has no leg to go on to is lost.                          *)
LEMMA OnLegFacts ==
  ASSUME IInv, NEW v \in Vehicles, stage[v] = "out", OnLeg(v)
  PROVE  /\ stage' \in [Vehicles -> {"depot", "out", "left", "lost"}]
         /\ stage'[v] = IF leg'[v] \in DOMAIN trip'[v] THEN "out" ELSE "lost"
         /\ \A w \in Vehicles : w # v => stage'[w] = stage[w]
BY DEF OnLeg, IInv, Values

(* Going on to the next leg keeps the invariant.                           *)
LEMMA MoveInv ==
  ASSUME IInv, NEW v \in Vehicles, MoveToNextLeg(v)
  PROVE  IInv'
<1> DEFINE p == Dest(v)
<1>0. /\ stage[v] = "out" /\ p \in Points /\ Listed(v, p)
      /\ tour' = tour /\ tourLoads' = tourLoads /\ orders' = orders /\ asked' = asked
      /\ trip' = trip /\ loads' = loads /\ outside' = outside
      /\ served' = served /\ upset' = upset /\ OnLeg(v)
      /\ listed' = [listed EXCEPT ![p] = VehiculeExit(@, v)]
      /\ leg' = [leg EXCEPT ![v] = @ + 1]
  BY DEF MoveToNextLeg, AtTripNode, Listed
<1>0a. trip[v][leg[v]].to = p
  BY DEF Dest
<1>0b. /\ stage' \in [Vehicles -> {"depot", "out", "left", "lost"}]
       /\ stage'[v] = IF leg'[v] \in DOMAIN trip'[v] THEN "out" ELSE "lost"
       /\ \A w \in Vehicles : w # v => stage'[w] = stage[w]
  BY <1>0, OnLegFacts
<1> HIDE DEF p
<1>1. /\ listed'[p] \in Seq(Vehicles) /\ IsInjective(listed'[p])
      /\ Range(listed'[p]) = Range(listed[p]) \cap (Vehicles \ {v})
  <2>1. listed'[p] = Keep(listed[p], Vehicles \ {v})
    BY <1>0 DEF IInv, Values, VehiculeExit
  <2>2. listed[p] \in Seq(Vehicles) /\ IsInjective(listed[p])
    BY <1>0 DEF IInv, Values, NoPlaceLost
  <2> QED
    BY <2>1, <2>2, KeepInjective
<1>2. \A p2 \in Points : p2 # p => listed'[p2] = listed[p2]
  BY <1>0 DEF IInv, Values
<1>3. leg'[v] = leg[v] + 1 /\ \A w \in Vehicles : w # v => leg'[w] = leg[w]
  BY <1>0 DEF IInv, Values
<1>4. Values'
  <2>1. listed' \in [Points -> Seq(Vehicles)]
    <3>1. listed' = [p2 \in Points |-> listed'[p2]]
      BY <1>0 DEF IInv, Values
    <3>2. \A p2 \in Points : listed'[p2] \in Seq(Vehicles)
      BY <1>1, <1>2 DEF IInv, Values
    <3> QED
      BY <3>1, <3>2
  <2>2. leg' \in [Vehicles -> Nat]
    BY <1>0 DEF IInv, Values
  <2> QED
    BY <1>0, <1>0b, <2>1, <2>2 DEF IInv, Values
<1>5. ASSUME NEW w \in Vehicles PROVE TripInv(w)' /\ OnTrip(w)'
  <2>1. TripInv(w)'
    BY <1>0, TripKept
  <2>2. CASE w # v
    BY <1>0, <1>0b, <1>3, <2>1, <2>2, OnTripKept
  <2>3. CASE w = v /\ v \in upset
    BY <1>0, <1>0b, <2>1, <2>3 DEF OnTrip
  <2>4. CASE w = v /\ v \notin upset
    <3>1. PICK e \in leg[v] .. Len(trip[v]) : trip[v][e].to = Exit
      BY <1>0, <2>4 DEF IInv, OnTrip, ExitAhead
    <3>2. e # leg[v]
      BY <1>0, <1>0a, <3>1, Constants
    <3>3. trip[v] \in Seq(Legs) /\ leg[v] \in 1 .. Len(trip[v])
      BY <1>0, DestType
    <3>4. e \in leg[v] + 1 .. Len(trip[v]) /\ leg[v] + 1 \in DOMAIN trip[v]
      BY <3>1, <3>2, <3>3
    <3>5. stage'[v] = "out" /\ ExitAhead(trip[v], leg[v] + 1)
      BY <1>0, <1>0b, <1>3, <3>1, <3>4 DEF ExitAhead
    <3> QED
      BY <1>0, <1>3, <2>1, <2>4, <3>4, <3>5 DEF OnTrip
  <2> QED
    BY <2>2, <2>3, <2>4
<1>6. NoPlaceLost'
  <2> SUFFICES ASSUME NEW p2 \in Points
               PROVE  /\ IsInjective(listed'[p2])
                      /\ \A w \in Range(listed'[p2]) :
                            \/ stage'[w] = "out" /\ trip'[w][leg'[w]].to = p2
                            \/ w \in upset'
    BY DEF NoPlaceLost, StoppedAt, Dest
  <2>1. /\ IsInjective(listed[p2]) /\ listed[p2] \in Seq(Vehicles)
        /\ \A w \in Range(listed[p2]) :
              \/ stage[w] = "out" /\ trip[w][leg[w]].to = p2
              \/ w \in upset
    BY DEF IInv, NoPlaceLost, StoppedAt, Dest, Values
  <2>2. \A w \in Range(listed[p2]) : w \in Vehicles
    BY <2>1 DEF Range
  <2>3. CASE p2 = p
    BY <1>0, <1>0b, <1>1, <1>3, <2>1, <2>2, <2>3
  <2>4. CASE p2 # p
    <3>1. v \in Range(listed[p2]) => v \in upset
      BY <1>0a, <2>1, <2>4
    <3> QED
      BY <1>0, <1>0b, <1>2, <1>3, <2>1, <2>2, <2>4, <3>1
  <2> QED
    BY <2>3, <2>4
<1> QED
  BY <1>0, <1>4, <1>5, <1>6, TourKept DEF IInv

(***************************************************************************)
(* Orders.  With an order that concerns the leg of a stopped vehicle or    *)
(* the leg just behind, a vehicle loses its current destination.           *)
(***************************************************************************)
(* An order gets a number no other has.                                    *)
LEMMA NewOrderType ==
  ASSUME IInv, NewOrder
  PROVE  /\ orders \in Nat /\ orders < MaxOrder /\ orders' = orders + 1
         /\ orders' \in Len(Plan) .. MaxOrder /\ orders' \in Orders
<1>1. /\ Len(Plan) \in Nat /\ MaxOrder \in Nat /\ orders \in Len(Plan) .. MaxOrder
      /\ orders < MaxOrder /\ orders' = orders + 1
  BY Constants DEF NewOrder, IInv, Values
<1> QED
  BY <1>1 DEF Orders

(* An order added to a tour keeps the invariant.                           *)
LEMMA AddToTourInv ==
  ASSUME IInv, NEW p \in Points, AddToTour(p)
  PROVE  IInv'
<1>0. /\ trip' = trip /\ leg' = leg /\ loads' = loads /\ stage' = stage
      /\ outside' = outside /\ listed' = listed /\ asked' = asked /\ served' = served
      /\ upset' = upset
      /\ NewOrder
  BY DEF AddToTour
<1>1. PICK l \in PointLegs(tour) \cup Appending(tour) :
        /\ tour' = InsertTripLeg(tour, l, Leg(p, orders'))
        /\ tourLoads' = WithLoad(tourLoads, tour', l, orders')
  BY DEF AddToTour
<1>2. /\ orders \in Nat /\ orders < MaxOrder /\ orders' = orders + 1
      /\ orders' \in Len(Plan) .. MaxOrder
  BY <1>0, NewOrderType
<1>3. /\ Numbered(tour, orders) /\ tourLoads \in PointsLoads
      /\ InStep(tour, tourLoads) /\ tour \in Seq(Legs)
  BY DEF IInv, TourInv, Numbered
<1>4. l \in 1 .. Len(tour) + 1
  BY <1>3 DEF PointLegs, Appending
<1> DEFINE u == tour'
           o == orders + 1
<1>5. u = InsertTripLeg(tour, l, Leg(p, o)) /\ tourLoads' = WithLoad(tourLoads, u, l, o)
  BY <1>1, <1>2
<1> HIDE DEF u
<1>6. /\ Numbered(u, orders + 1) /\ Len(u) = Len(tour) + 1
      /\ \A i \in 1 .. Len(tour) + 1 : u[i] =
           IF i < l THEN tour[i] ELSE IF i = l THEN Leg(p, orders + 1) ELSE tour[i - 1]
      /\ WithLoad(tourLoads, u, l, orders + 1) \in PointsLoads
      /\ InStep(u, WithLoad(tourLoads, u, l, orders + 1))
  BY <1>2, <1>3, <1>4, <1>5, InsertKeeps
<1>7. \E e \in DOMAIN u : u[e].to = Exit
  <2>1. PICK e \in DOMAIN tour : tour[e].to = Exit
    BY DEF IInv, TourInv
  <2>2. e \in 1 .. Len(tour) /\ DOMAIN u = 1 .. Len(tour) + 1
    BY <1>3, <1>6 DEF Numbered
  <2>3. CASE e < l
    <3>1. u[e] = tour[e] /\ e \in DOMAIN u
      BY <1>4, <1>6, <2>2, <2>3
    <3> QED
      BY <2>1, <3>1
  <2>4. CASE ~(e < l)
    <3>1. e + 1 \in 1 .. Len(tour) + 1 /\ ~(e + 1 < l) /\ e + 1 # l /\ (e + 1) - 1 = e
      BY <1>4, <2>2, <2>4
    <3>2. u[e + 1] = tour[e]
      BY <1>6, <3>1
    <3> QED
      BY <2>1, <2>2, <3>1, <3>2
  <2> QED
    BY <2>3, <2>4
<1>8. TourInv'
  <2>1. /\ Numbered(tour', orders') /\ tourLoads' \in PointsLoads
        /\ InStep(tour', tourLoads') /\ \E e \in DOMAIN tour' : tour'[e].to = Exit
    BY <1>2, <1>5, <1>6, <1>7 DEF u
  <2> QED
    BY <2>1 DEF TourInv
<1>9. Values'
  BY <1>0, <1>2 DEF IInv, Values
<1>10. \A w \in Vehicles : TripInv(w)' /\ OnTrip(w)'
  BY <1>0, <1>2, OrdersKept, OnTripKept
<1>11. NoPlaceLost'
  BY <1>0, PlacesKept
<1> QED
  BY <1>8, <1>9, <1>10, <1>11 DEF IInv

(* An order removed from a tour keeps the invariant.                       *)
LEMMA RemoveFromTourInv ==
  ASSUME IInv, RemoveFromTour
  PROVE  IInv'
<1>0. /\ trip' = trip /\ leg' = leg /\ loads' = loads /\ stage' = stage
      /\ outside' = outside /\ listed' = listed /\ asked' = asked /\ served' = served
      /\ upset' = upset
      /\ orders' = orders
  BY DEF RemoveFromTour
<1>1. PICK l \in PointLegs(tour) :
        /\ tour' = RemoveTripLeg(tour, l)
        /\ tourLoads' = WithoutLoad(tourLoads, tour, l)
  BY DEF RemoveFromTour
<1>2. /\ Numbered(tour, orders) /\ tourLoads \in PointsLoads /\ orders \in Nat
      /\ InStep(tour, tourLoads) /\ tour \in Seq(Legs)
  BY Constants DEF IInv, TourInv, Numbered, Values
<1> DEFINE u == tour'
<1>3. u = RemoveTripLeg(tour, l)
  BY <1>1
<1> HIDE DEF u
<1>4. /\ Numbered(u, orders) /\ Len(u) = Len(tour) - 1
      /\ \A i \in 1 .. Len(tour) - 1 : u[i] = IF i < l THEN tour[i] ELSE tour[i + 1]
      /\ WithoutLoad(tourLoads, tour, l) \in PointsLoads
      /\ InStep(u, WithoutLoad(tourLoads, tour, l))
  BY <1>2, <1>3, RemoveKeeps
<1>5. \E e \in DOMAIN u : u[e].to = Exit
  <2>1. PICK e \in DOMAIN tour : tour[e].to = Exit
    BY DEF IInv, TourInv
  <2>2. e \in 1 .. Len(tour) /\ DOMAIN u = 1 .. Len(tour) - 1 /\ l \in 1 .. Len(tour)
    BY <1>2, <1>4 DEF Numbered, PointLegs
  <2>3. e # l
    BY <1>1, <2>1, Constants DEF PointLegs
  <2>4. CASE e < l
    <3>1. u[e] = tour[e] /\ e \in DOMAIN u
      BY <1>2, <1>4, <2>2, <2>4
    <3> QED
      BY <2>1, <3>1
  <2>5. CASE e > l
    <3>1. e - 1 \in 1 .. Len(tour) - 1 /\ ~(e - 1 < l) /\ (e - 1) + 1 = e
      BY <1>2, <2>2, <2>5
    <3>2. u[e - 1] = tour[e]
      BY <1>4, <3>1
    <3> QED
      BY <2>1, <2>2, <3>1, <3>2
  <2> QED
    BY <2>2, <2>3, <2>4, <2>5
<1>6. TourInv'
  <2>1. /\ Numbered(tour', orders') /\ tourLoads' \in PointsLoads
        /\ InStep(tour', tourLoads') /\ \E e \in DOMAIN tour' : tour'[e].to = Exit
    BY <1>0, <1>1, <1>4, <1>5 DEF u
  <2> QED
    BY <2>1 DEF TourInv
<1>7. Values'
  BY <1>0 DEF IInv, Values
<1>8. \A w \in Vehicles : TripInv(w)' /\ OnTrip(w)'
  BY <1>0, TripKept, OnTripKept
<1>9. NoPlaceLost'
  BY <1>0, PlacesKept
<1> QED
  BY <1>6, <1>7, <1>8, <1>9 DEF IInv

(* A vehicle is not upset afterwards: neither was it before.               *)
LEMMA UpsetGrows ==
  ASSUME IInv, NEW v \in Vehicles, upset' = upset \/ upset' = upset \cup {v}
  PROVE  /\ upset' \in SUBSET Vehicles /\ upset \subseteq upset'
         /\ \A w \in Vehicles : w # v => (w \in upset' <=> w \in upset)
BY DEF IInv, Values

(* An order may add a point anywhere in a trip, and behind it.             *)
LEMMA OrderableLegs ==
  ASSUME IInv, NEW v \in Vehicles, stage[v] = "out", NEW l \in Orderable(v)
  PROVE  l \in 1 .. Len(trip[v]) + 1
<1>1. l \in PointLegs(trip[v]) \cup Appending(trip[v])
  BY DEF Orderable
<1>2. Len(trip[v]) \in Nat
  BY DEF IInv, Values
<1>3. CASE l \in PointLegs(trip[v])
  <2>1. l \in 1 .. Len(trip[v])
    BY <1>3 DEF PointLegs
  <2> QED
    BY <1>2, <2>1
<1>4. CASE l = Len(trip[v]) + 1
  BY <1>2, <1>4
<1> QED
  BY <1>1, <1>3, <1>4 DEF Appending

(* An order may remove any leg to a point.  The exit is ahead of a vehicle *)
(* that is not upset: its current leg is not the last when it leads to a   *)
(* point.                                                                  *)
LEMMA RemovableLegs ==
  ASSUME IInv, NEW v \in Vehicles, stage[v] = "out", NEW l \in Removable(v)
  PROVE  /\ l \in PointLegs(trip[v]) /\ l \in 1 .. Len(trip[v])
         /\ trip[v][l].to \in Points
         /\ l = leg[v] /\ v \notin upset => l < Len(trip[v])
<1>1. l \in PointLegs(trip[v])
  BY DEF Removable
<1>2. l \in 1 .. Len(trip[v]) /\ trip[v][l].to \in Points
  BY <1>1 DEF PointLegs
<1>3. ASSUME l = leg[v], v \notin upset PROVE l < Len(trip[v])
  <2>1. PICK e \in leg[v] .. Len(trip[v]) : trip[v][e].to = Exit
    BY <1>3 DEF IInv, OnTrip, ExitAhead
  <2>2. trip[v] \in Seq(Legs) /\ leg[v] \in 1 .. Len(trip[v])
    BY DestType
  <2>3. e # l
    BY <1>2, <2>1, Constants
  <2>4. l < e /\ e <= Len(trip[v])
    BY <1>3, <2>1, <2>2, <2>3
  <2> QED
    BY <1>2, <2>1, <2>2, <2>4
<1> QED
  BY <1>1, <1>2, <1>3

(* An order added to a vehicle keeps the invariant.                        *)
LEMMA AddToVehicleInv ==
  ASSUME IInv, NEW v \in Vehicles, NEW p \in Points, AddToVehicle(v, p)
  PROVE  IInv'
<1>0. /\ tour' = tour /\ tourLoads' = tourLoads /\ stage' = stage
      /\ outside' = outside /\ listed' = listed /\ served' = served
      /\ NewOrder /\ stage[v] = "out"
  BY DEF AddToVehicle
<1>1. PICK l \in Orderable(v) :
        /\ upset' = IF AtStop(v, l) THEN upset \cup {v} ELSE upset
        /\ trip' = [trip EXCEPT ![v] = InsertTripLeg(@, l, Leg(p, orders'))]
        /\ leg' = [leg EXCEPT ![v] = LegAfterInsert(@, l)]
        /\ loads' = [loads EXCEPT ![v] = WithLoad(@, trip'[v], l, orders')]
        /\ asked' = IF l < leg[v] THEN asked
                    ELSE [asked EXCEPT ![v] = @ \cup {orders'}]
  BY DEF AddToVehicle
<1>2. /\ orders \in Nat /\ orders < MaxOrder /\ orders' = orders + 1
      /\ orders' \in Len(Plan) .. MaxOrder /\ orders' \in Orders
  BY <1>0, NewOrderType
<1> DEFINE t == trip[v]
           c == leg[v]
           ls == loads[v]
           u == trip'[v]
           d == leg'[v]
<1>3. /\ Numbered(t, orders) /\ ls \in PointsLoads /\ InStep(t, ls)
      /\ t \in Seq(Legs) /\ c \in 1 .. Len(t)
  BY <1>0, DestType DEF IInv, TripInv
<1>4. /\ l \in 1 .. Len(t) + 1
      /\ upset' \in SUBSET Vehicles /\ upset \subseteq upset'
      /\ \A w \in Vehicles : w # v => (w \in upset' <=> w \in upset)
      /\ v \notin upset' => v \notin upset /\ (l = c => ~AtTripNode(v))
  <2>1. l \in 1 .. Len(t) + 1
    BY <1>0, OrderableLegs
  <2>2. upset' = upset \/ upset' = upset \cup {v}
    BY <1>1
  <2>3. v \notin upset' => v \notin upset /\ (l = c => ~AtTripNode(v))
    BY <1>1 DEF AtStop
  <2> HIDE DEF t, c
  <2> QED
    BY <2>1, <2>2, <2>3, UpsetGrows
<1>5. /\ u = InsertTripLeg(t, l, Leg(p, orders + 1))
      /\ loads'[v] = WithLoad(ls, u, l, orders + 1)
      /\ d = LegAfterInsert(c, l)
      /\ \A w \in Vehicles : w # v =>
           trip'[w] = trip[w] /\ loads'[w] = loads[w] /\ leg'[w] = leg[w]
  <2>1. u = InsertTripLeg(t, l, Leg(p, orders'))
    BY <1>1 DEF IInv, Values
  <2>2. loads'[v] = WithLoad(ls, u, l, orders')
    BY <1>1 DEF IInv, Values
  <2>3. d = LegAfterInsert(c, l)
    BY <1>1 DEF IInv, Values
  <2>4. \A w \in Vehicles : w # v =>
           trip'[w] = trip[w] /\ loads'[w] = loads[w] /\ leg'[w] = leg[w]
    BY <1>1 DEF IInv, Values
  <2> QED
    BY <1>2, <2>1, <2>2, <2>3, <2>4
<1>5a. v \notin upset => ExitAhead(t, c)
  BY <1>0 DEF IInv, OnTrip
<1>5b. AtTripNode(v) <=> t[c].to \in Points /\ Listed(v, t[c].to)
  BY DEF AtTripNode, Dest, Listed
<1>5c. v \notin upset => \A p2 \in Points : Listed(v, p2) => AtTripNode(v)
  BY AtNode
<1> HIDE DEF t, c, ls, u, d
<1>6. /\ Numbered(u, orders + 1) /\ Len(u) = Len(t) + 1
      /\ \A i \in 1 .. Len(t) + 1 : u[i] =
           IF i < l THEN t[i] ELSE IF i = l THEN Leg(p, orders + 1) ELSE t[i - 1]
      /\ WithLoad(ls, u, l, orders + 1) \in PointsLoads
      /\ InStep(u, WithLoad(ls, u, l, orders + 1))
  BY <1>2, <1>3, <1>4, <1>5, InsertKeeps
<1>7. /\ u \in Seq(Legs) /\ d \in 1 .. Len(u) /\ d = IF l < c THEN c + 1 ELSE c
      /\ l # c => u[d] = t[c]
  <2>1. u \in Seq(Legs) /\ d = IF l < c THEN c + 1 ELSE c
    BY <1>5, <1>6 DEF Numbered, LegAfterInsert
  <2>2. d \in 1 .. Len(u)
    BY <1>3, <1>6, <2>1
  <2>3. CASE l < c
    <3>1. d \in 1 .. Len(t) + 1 /\ ~(d < l) /\ d # l /\ d - 1 = c
      BY <1>3, <1>4, <2>1, <2>3
    <3>2. u[d] = t[c]
      BY <1>6, <3>1
    <3> QED
      BY <2>1, <2>2, <3>2
  <2>4. CASE l > c
    <3>1. d = c /\ c \in 1 .. Len(t) + 1 /\ c < l
      BY <1>3, <1>4, <2>1, <2>4
    <3> QED
      BY <1>6, <2>1, <2>2, <3>1
  <2> QED
    BY <1>3, <1>4, <2>1, <2>2, <2>3, <2>4
<1>8. ASSUME v \notin upset PROVE ExitAhead(u, d)
  <2>1. PICK e \in c .. Len(t) : t[e].to = Exit
    BY <1>5a, <1>8 DEF ExitAhead
  <2>2. CASE e < l
    <3>1. e \in 1 .. Len(t) + 1 /\ e \in d .. Len(u)
      BY <1>3, <1>4, <1>6, <1>7, <2>2
    <3>2. u[e] = t[e]
      BY <1>6, <2>2, <3>1
    <3> QED
      BY <2>1, <3>1, <3>2 DEF ExitAhead
  <2>3. CASE ~(e < l)
    <3>1. /\ e + 1 \in 1 .. Len(t) + 1 /\ ~(e + 1 < l) /\ e + 1 # l /\ (e + 1) - 1 = e
          /\ e + 1 \in d .. Len(u)
      BY <1>3, <1>4, <1>6, <1>7, <2>3
    <3>2. u[e + 1] = t[e]
      BY <1>6, <3>1
    <3> QED
      BY <2>1, <3>1, <3>2 DEF ExitAhead
  <2> QED
    BY <2>2, <2>3
<1>9. Values'
  <2>1. trip' \in [Vehicles -> Seq(Legs)]
    <3>1. trip' = [w \in Vehicles |-> trip'[w]]
      BY <1>1 DEF IInv, Values
    <3>2. \A w \in Vehicles : trip'[w] \in Seq(Legs)
      BY <1>5, <1>7 DEF IInv, Values, u
    <3> QED
      BY <3>1, <3>2
  <2>2. loads' \in [Vehicles -> PointsLoads]
    <3>1. loads' = [w \in Vehicles |-> loads'[w]]
      BY <1>1 DEF IInv, Values
    <3>2. \A w \in Vehicles : loads'[w] \in PointsLoads
      BY <1>5, <1>6 DEF IInv, Values
    <3> QED
      BY <3>1, <3>2
  <2>3. leg' \in [Vehicles -> Nat]
    <3>1. leg' = [w \in Vehicles |-> leg'[w]]
      BY <1>1 DEF IInv, Values
    <3>2. d \in Nat
      BY <1>7
    <3>3. \A w \in Vehicles : leg'[w] \in Nat
      BY <1>5, <3>2 DEF IInv, Values, d
    <3> QED
      BY <3>1, <3>3
  <2>4. asked' \in [Vehicles -> SUBSET Orders]
    BY <1>1, <1>2 DEF IInv, Values
  <2> QED
    BY <1>0, <1>2, <1>4, <2>1, <2>2, <2>3, <2>4 DEF IInv, Values
<1>10. ASSUME NEW w \in Vehicles PROVE TripInv(w)' /\ OnTrip(w)'
  <2>1. CASE w # v
    <3>1. trip'[w] = trip[w] /\ loads'[w] = loads[w] /\ leg'[w] = leg[w] /\ stage'[w] = stage[w]
      BY <1>0, <1>5, <2>1
    <3> QED
      BY <1>2, <1>4, <2>1, <3>1, OrdersKept, OnTripKept
  <2>2. CASE w = v
    <3>1. /\ Numbered(trip'[v], orders') /\ loads'[v] \in PointsLoads
          /\ InStep(trip'[v], loads'[v])
      BY <1>2, <1>5, <1>6 DEF u
    <3>2. /\ leg'[v] \in DOMAIN trip'[v] /\ stage'[v] = "out"
          /\ v \notin upset' => ExitAhead(trip'[v], leg'[v])
      BY <1>0, <1>4, <1>7, <1>8 DEF u, d
    <3> QED
      BY <2>2, <3>1, <3>2 DEF TripInv, OnTrip
  <2> QED
    BY <2>1, <2>2
<1>11. NoPlaceLost'
  <2>1. ASSUME NEW w \in Vehicles, w \notin upset', NEW p2 \in Points, Listed(w, p2)
        PROVE  stage'[w] = stage[w] /\ trip'[w][leg'[w]].to = trip[w][leg[w]].to
    <3>1. CASE w # v
      BY <1>0, <1>5, <3>1
    <3>2. CASE w = v
      <4>1. AtTripNode(v)
        BY <1>4, <1>5c, <2>1, <3>2
      <4>2. u[d] = t[c]
        BY <1>4, <1>7, <2>1, <3>2, <4>1
      <4> QED
        BY <1>0, <3>2, <4>2 DEF u, d, t, c
    <3> QED
      BY <3>1, <3>2
  <2> QED
    BY <1>0, <1>4, <2>1, PlacesKept
<1>12. TourInv'
  <2>1. TourInv /\ Numbered(tour, orders + 1)
    BY <1>2, MoreOrders DEF IInv, TourInv
  <2> QED
    BY <1>0, <1>2, <2>1 DEF TourInv
<1> QED
  BY <1>9, <1>10, <1>11, <1>12 DEF IInv

(* An order removed from a vehicle keeps the invariant.                    *)
LEMMA RemoveFromVehicleInv ==
  ASSUME IInv, NEW v \in Vehicles, RemoveFromVehicle(v)
  PROVE  IInv'
<1>0. /\ tour' = tour /\ tourLoads' = tourLoads /\ orders' = orders
      /\ outside' = outside /\ listed' = listed /\ served' = served
      /\ stage[v] = "out" /\ OnLeg(v)
  BY DEF RemoveFromVehicle
<1>0a. /\ stage' \in [Vehicles -> {"depot", "out", "left", "lost"}]
       /\ stage'[v] = IF leg'[v] \in DOMAIN trip'[v] THEN "out" ELSE "lost"
       /\ \A w \in Vehicles : w # v => stage'[w] = stage[w]
  BY <1>0, OnLegFacts
<1>1. PICK l \in Removable(v) :
        /\ upset' = IF l + 1 = leg[v] \/ AtStop(v, l) THEN upset \cup {v} ELSE upset
        /\ trip' = [trip EXCEPT ![v] = RemoveTripLeg(@, l)]
        /\ leg' = [leg EXCEPT ![v] = LegAfterRemove(trip[v], @, l)]
        /\ loads' = [loads EXCEPT ![v] = WithoutLoad(@, trip[v], l)]
        /\ asked' = [asked EXCEPT ![v] = @ \ ({trip[v][l].order} \ Range(served[v]))]
  BY DEF RemoveFromVehicle
<1> DEFINE t == trip[v]
           c == leg[v]
           ls == loads[v]
           u == trip'[v]
           d == leg'[v]
<1>2. /\ upset' \in SUBSET Vehicles /\ upset \subseteq upset'
      /\ \A w \in Vehicles : w # v => (w \in upset' <=> w \in upset)
      /\ v \notin upset' => v \notin upset /\ l + 1 # c /\ (l = c => ~AtTripNode(v))
  <2>1. upset' = upset \/ upset' = upset \cup {v}
    BY <1>1
  <2>2. v \notin upset' => v \notin upset /\ l + 1 # c /\ (l = c => ~AtTripNode(v))
    BY <1>1 DEF AtStop
  <2> HIDE DEF c
  <2> QED
    BY <2>1, <2>2, UpsetGrows
<1>3. /\ Numbered(t, orders) /\ ls \in PointsLoads /\ InStep(t, ls) /\ orders \in Nat
      /\ t \in Seq(Legs) /\ c \in 1 .. Len(t)
  BY <1>0, DestType, Constants DEF IInv, TripInv, Values
<1>4. /\ l \in PointLegs(t) /\ l \in 1 .. Len(t) /\ t[l].to \in Points
      /\ l = c /\ v \notin upset => l < Len(t)
  BY <1>0, RemovableLegs
<1>5. /\ u = RemoveTripLeg(t, l)
      /\ loads'[v] = WithoutLoad(ls, t, l)
      /\ d = LegAfterRemove(t, c, l)
      /\ \A w \in Vehicles : w # v =>
           trip'[w] = trip[w] /\ loads'[w] = loads[w] /\ leg'[w] = leg[w]
  BY <1>1 DEF IInv, Values
<1>5a. v \notin upset => ExitAhead(t, c)
  BY <1>0 DEF IInv, OnTrip
<1>5c. v \notin upset => \A p2 \in Points : Listed(v, p2) => AtTripNode(v)
  BY AtNode
<1> HIDE DEF t, c, ls, u, d
<1>6. /\ Numbered(u, orders) /\ Len(u) = Len(t) - 1
      /\ \A i \in 1 .. Len(t) - 1 : u[i] = IF i < l THEN t[i] ELSE t[i + 1]
      /\ WithoutLoad(ls, t, l) \in PointsLoads
      /\ InStep(u, WithoutLoad(ls, t, l))
  BY <1>3, <1>4, <1>5, RemoveKeeps
<1>7. u \in Seq(Legs) /\ d \in Nat
  <2>1. u \in Seq(Legs)
    BY <1>6 DEF Numbered
  <2>2. ASSUME NEW removed \in Nat PROVE (IF removed < c THEN c - 1 ELSE c) \in Nat
    BY <1>3
  <2>3. (IF l < Len(t) THEN l + 1 ELSE l) \in Nat
    BY <1>4
  <2>4. d \in Nat
    BY <1>5, <2>2, <2>3 DEF LegAfterRemove
  <2> QED
    BY <2>1, <2>4
<1>8. ASSUME v \notin upset'
      PROVE  /\ d \in 1 .. Len(u) /\ ExitAhead(u, d)
             /\ l # c => u[d] = t[c]
             /\ l = c => ~AtTripNode(v)
  <2>0. v \notin upset /\ l + 1 # c /\ (l = c => ~AtTripNode(v) /\ l < Len(t))
    BY <1>2, <1>4, <1>8
  <2>1. PICK e \in c .. Len(t) : t[e].to = Exit /\ e # l
    BY <1>4, <1>5a, <2>0, Constants DEF ExitAhead
  <2>2. d = IF l < c THEN c - 1 ELSE c
    BY <1>3, <1>4, <1>5, <2>0 DEF LegAfterRemove
  <2>3. d \in 1 .. Len(u)
    BY <1>3, <1>4, <1>6, <2>1, <2>2
  <2>4. ASSUME l < c PROVE u[d] = t[c]
    <3>1. d \in 1 .. Len(t) - 1 /\ ~(d < l) /\ d + 1 = c
      BY <1>3, <1>4, <2>0, <2>2, <2>4
    <3> QED
      BY <1>6, <3>1
  <2>5. ASSUME l > c PROVE u[d] = t[c]
    <3>1. d = c /\ c \in 1 .. Len(t) - 1 /\ c < l
      BY <1>3, <1>4, <2>2, <2>5
    <3> QED
      BY <1>6, <3>1
  <2>6. l # c => u[d] = t[c]
    BY <1>3, <1>4, <2>4, <2>5
  <2>7. CASE e < l
    <3>1. e \in 1 .. Len(t) - 1 /\ e \in d .. Len(u)
      BY <1>3, <1>4, <1>6, <2>1, <2>2, <2>7
    <3>2. u[e] = t[e]
      BY <1>6, <2>7, <3>1
    <3> QED
      BY <2>0, <2>1, <2>3, <2>6, <3>1, <3>2 DEF ExitAhead
  <2>8. CASE e > l
    <3>1. /\ e - 1 \in 1 .. Len(t) - 1 /\ ~(e - 1 < l) /\ (e - 1) + 1 = e
          /\ e - 1 \in d .. Len(u)
      BY <1>3, <1>4, <1>6, <2>0, <2>1, <2>2, <2>3, <2>8
    <3>2. u[e - 1] = t[e]
      BY <1>6, <3>1
    <3> QED
      BY <2>0, <2>1, <2>3, <2>6, <3>1, <3>2 DEF ExitAhead
  <2>9. e \in Nat /\ l \in Nat
    BY <1>3, <1>4, <2>1
  <2> QED
    BY <2>1, <2>7, <2>8, <2>9
<1>10. Values'
  <2>1. trip' \in [Vehicles -> Seq(Legs)]
    <3>1. trip' = [w \in Vehicles |-> trip'[w]]
      BY <1>1 DEF IInv, Values
    <3>2. \A w \in Vehicles : trip'[w] \in Seq(Legs)
      BY <1>5, <1>7 DEF IInv, Values, u
    <3> QED
      BY <3>1, <3>2
  <2>2. loads' \in [Vehicles -> PointsLoads]
    <3>1. loads' = [w \in Vehicles |-> loads'[w]]
      BY <1>1 DEF IInv, Values
    <3>2. \A w \in Vehicles : loads'[w] \in PointsLoads
      BY <1>5, <1>6 DEF IInv, Values
    <3> QED
      BY <3>1, <3>2
  <2>3. leg' \in [Vehicles -> Nat]
    <3>1. leg' = [w \in Vehicles |-> leg'[w]]
      BY <1>1 DEF IInv, Values
    <3>2. d \in Nat
      BY <1>7
    <3>3. \A w \in Vehicles : leg'[w] \in Nat
      BY <1>5, <3>2 DEF IInv, Values, d
    <3> QED
      BY <3>1, <3>3
  <2>4. asked' \in [Vehicles -> SUBSET Orders]
    BY <1>1 DEF IInv, Values
  <2> QED
    BY <1>0, <1>0a, <1>2, <2>1, <2>2, <2>3, <2>4 DEF IInv, Values
<1>11. ASSUME NEW w \in Vehicles PROVE TripInv(w)' /\ OnTrip(w)'
  <2>1. CASE w # v
    <3>1. trip'[w] = trip[w] /\ loads'[w] = loads[w] /\ leg'[w] = leg[w] /\ stage'[w] = stage[w]
      BY <1>0, <1>0a, <1>5, <2>1
    <3> QED
      BY <1>0, <1>2, <2>1, <3>1, TripKept, OnTripKept
  <2>2. CASE w = v
    <3>1. /\ Numbered(trip'[v], orders') /\ loads'[v] \in PointsLoads
          /\ InStep(trip'[v], loads'[v])
      BY <1>0, <1>5, <1>6 DEF u
    <3>2. ASSUME v \notin upset'
          PROVE  leg'[v] \in DOMAIN trip'[v] /\ ExitAhead(trip'[v], leg'[v])
      BY <1>7, <1>8, <3>2 DEF u, d
    <3>3. stage'[v] = "lost" \/ (stage'[v] = "out" /\ leg'[v] \in DOMAIN trip'[v])
      BY <1>0a
    <3>4. v \notin upset' => stage'[v] = "out"
      BY <1>0a, <3>2
    <3> QED
      BY <2>2, <3>1, <3>2, <3>3, <3>4 DEF TripInv, OnTrip
  <2> QED
    BY <2>1, <2>2
<1>12. NoPlaceLost'
  <2>1. ASSUME NEW w \in Vehicles, w \notin upset', NEW p2 \in Points, Listed(w, p2)
        PROVE  stage'[w] = stage[w] /\ trip'[w][leg'[w]].to = trip[w][leg[w]].to
    <3>1. CASE w # v
      BY <1>0a, <1>5, <3>1
    <3>2. CASE w = v
      <4>1. AtTripNode(v)
        BY <1>2, <1>5c, <2>1, <3>2
      <4>2. u[d] = t[c]
        BY <1>8, <2>1, <3>2, <4>1
      <4>3. stage'[v] = "out"
        BY <1>0a, <1>7, <1>8, <2>1, <3>2 DEF u, d
      <4> QED
        BY <1>0, <3>2, <4>2, <4>3 DEF u, d, t, c
    <3> QED
      BY <3>1, <3>2
  <2> QED
    BY <1>0, <1>2, <2>1, PlacesKept
<1> QED
  BY <1>0, <1>10, <1>11, <1>12, TourKept DEF IInv

(* Every step keeps the invariant.                                         *)
LEMMA NextInv ==
  ASSUME IInv, [Next]_vars
  PROVE  IInv'
<1>1. CASE \E v \in Vehicles : ActivateVehicle(v) \/ Drive(v) \/ RemoveFromVehicle(v)
  BY <1>1, ActivateInv, ReachInv, MoveInv, InsertVehicleInv, RemoveFromVehicleInv DEF Drive
<1>2. CASE \E p \in Points : AddToTour(p) \/ (\E v \in Vehicles : AddToVehicle(v, p))
  BY <1>2, AddToTourInv, AddToVehicleInv
<1>3. CASE RemoveFromTour
  BY <1>3, RemoveFromTourInv
<1>4. CASE UNCHANGED vars
  <2>1. /\ tour' = tour /\ tourLoads' = tourLoads /\ trip' = trip /\ leg' = leg
        /\ loads' = loads /\ stage' = stage /\ outside' = outside /\ listed' = listed
        /\ orders' = orders /\ asked' = asked /\ served' = served /\ upset' = upset
    BY <1>4 DEF vars
  <2>2. Values'
    BY <2>1 DEF IInv, Values
  <2>3. NoPlaceLost'
    BY <2>1, PlacesKept
  <2> QED
    BY <2>1, <2>2, <2>3, TourKept, TripKept, OnTripKept DEF IInv
<1> QED
  BY <1>1, <1>2, <1>3, <1>4 DEF Next

(***************************************************************************)
(* Orders served.  An order may be appended behind the exit, and a vehicle *)
(* then leaves before: only a trip that ends at the exit is served whole.  *)
(***************************************************************************)
Distinct(t) == \A l, k \in PointLegs(t) : t[l].order = t[k].order => l = k
ExitOnce(t) == \A l, k \in DOMAIN t : t[l].to = Exit /\ t[k].to = Exit => l = k

Served(v) ==
  /\ asked[v] = Range(served[v]) \cup Pending(v)
  /\ Range(served[v]) \cap Pending(v) = {}
  /\ IsInjective(served[v])
  /\ stage[v] = "left" /\ Last(trip[v]).to = Exit => Dest(v) = Exit /\ Pending(v) = {}

(* OrdersServed is not inductive: two legs of a trip must not carry the    *)
(* same order nor lead both to the exit, and the order of the next new leg *)
(* must not be known yet.                                                  *)
ServedInv(v) ==
  /\ Distinct(trip[v]) /\ ExitOnce(trip[v]) /\ asked[v] \subseteq 1 .. orders
  /\ stage[v] = "depot" => served[v] = <<>>
  /\ stage[v] # "depot" /\ v \notin upset => Served(v)

SInv ==
  /\ Distinct(tour) /\ ExitOnce(tour)
  /\ \A v \in Vehicles : ServedInv(v)

(* The orders of the legs of t to points, from leg c on; without that of   *)
(* leg c when the vehicle has stopped there.                               *)
Ahead(t, c, stopped) ==
  {t[l].order : l \in {k \in PointLegs(t) : k > c \/ (k = c /\ ~stopped)}}

(* The orders pending are those of the legs ahead.                         *)
LEMMA PendingAhead ==
  ASSUME NEW v PROVE Pending(v) = Ahead(trip[v], leg[v], AtTripNode(v))
BY DEF Pending, Ahead

(* The orders ahead of a vehicle that is or is not at a node.              *)
LEMMA AheadStopped ==
  ASSUME NEW t, NEW c, NEW stopped
  PROVE  /\ stopped => Ahead(t, c, stopped) = Ahead(t, c, TRUE)
         /\ ~stopped => Ahead(t, c, stopped) = Ahead(t, c, FALSE)
BY DEF Ahead

(* A leg inserted in a trip.                                               *)
LEMMA InsertLeg ==
  ASSUME NEW t \in Seq(Legs), NEW l \in 1 .. Len(t) + 1, NEW x \in Legs
  PROVE  Inserted(InsertAt(t, l, x), Legs, t, l, x)
BY InsertIs

(* What the insertion of order n + 1 in a trip, or behind it, does.        *)
LEMMA InsertAhead ==
  ASSUME NEW t \in Seq(Legs), NEW l \in 1 .. Len(t) + 1, NEW x \in Legs,
         NEW n \in Nat, x.to \in Points, x.order = n + 1,
         \A i \in PointLegs(t) : t[i].order \in 1 .. n,
         Distinct(t), ExitOnce(t), NEW u, u = InsertAt(t, l, x)
  PROVE  /\ u \in Seq(Legs) /\ Len(u) = Len(t) + 1
         /\ \A i \in 1 .. Len(t) + 1 :
              u[i] = IF i < l THEN t[i] ELSE IF i = l THEN x ELSE t[i - 1]
         /\ Distinct(u) /\ ExitOnce(u)
         /\ \A c \in 1 .. Len(t), b \in BOOLEAN : (l = c => ~b) =>
               Ahead(u, LegAfterInsert(c, l), b) =
                 IF l < c THEN Ahead(t, c, b) ELSE Ahead(t, c, b) \cup {n + 1}
<1>0. /\ u \in Seq(Legs) /\ Len(u) = Len(t) + 1
      /\ \A i \in 1 .. Len(t) + 1 :
           u[i] = IF i < l THEN t[i] ELSE IF i = l THEN x ELSE t[i - 1]
  <2>1. Inserted(u, Legs, t, l, x)
    BY InsertLeg
  <2> QED
    BY <2>1 DEF Inserted
<1> DEFINE to(i) == IF i < l THEN i ELSE i + 1
<1>1. ASSUME NEW i \in PointLegs(u), i # l
      PROVE  \E j \in PointLegs(t) : i = to(j) /\ u[i] = t[j]
  <2>1. i \in 1 .. Len(t) + 1 /\ u[i].to \in Points
    BY <1>0 DEF PointLegs
  <2>2. CASE i < l
    <3>1. i \in 1 .. Len(t) /\ u[i] = t[i]
      BY <1>0, <2>1, <2>2
    <3>2. i \in PointLegs(t)
      BY <2>1, <3>1 DEF PointLegs
    <3> QED
      BY <2>2, <3>1, <3>2
  <2>3. CASE i > l
    <3>1. i - 1 \in 1 .. Len(t) /\ u[i] = t[i - 1] /\ i = to(i - 1)
      BY <1>0, <2>1, <2>3
    <3>2. i - 1 \in PointLegs(t)
      BY <2>1, <3>1 DEF PointLegs
    <3> QED
      BY <3>1, <3>2
  <2>4. i < l \/ i > l
    BY <1>1, <2>1
  <2> QED
    BY <2>2, <2>3, <2>4
<1>2. ASSUME NEW j \in PointLegs(t)
      PROVE  to(j) \in PointLegs(u) /\ to(j) # l /\ u[to(j)] = t[j]
  <2>1. j \in 1 .. Len(t) /\ t[j].to \in Points
    BY DEF PointLegs
  <2>2. to(j) \in 1 .. Len(t) + 1 /\ to(j) # l
    BY <2>1
  <2>3. u[to(j)] = t[j]
    BY <1>0, <2>1, <2>2
  <2> QED
    BY <1>0, <2>1, <2>2, <2>3 DEF PointLegs
<1>3. l \in PointLegs(u) /\ u[l] = x
  <2>1. l \in 1 .. Len(u) /\ u[l] = x
    BY <1>0
  <2> QED
    BY <2>1 DEF PointLegs
<1>4. \A j \in PointLegs(t) : j \in Nat /\ t[j].order # n + 1
  <2>1. \A j \in PointLegs(t) : j \in Nat
    BY DEF PointLegs
  <2> QED
    BY <2>1
<1>5. Distinct(u)
  <2> SUFFICES ASSUME NEW i \in PointLegs(u), NEW k \in PointLegs(u),
                      u[i].order = u[k].order
               PROVE  i = k
    BY DEF Distinct
  <2>1. CASE i = l /\ k # l
    BY <1>1, <1>3, <1>4, <2>1
  <2>2. CASE i # l /\ k = l
    BY <1>1, <1>3, <1>4, <2>2
  <2>3. CASE i # l /\ k # l
    <3>1. PICK j \in PointLegs(t) : i = to(j) /\ u[i] = t[j]
      BY <1>1, <2>3
    <3>2. PICK m \in PointLegs(t) : k = to(m) /\ u[k] = t[m]
      BY <1>1, <2>3
    <3>3. j = m
      BY <3>1, <3>2 DEF Distinct
    <3> QED
      BY <3>1, <3>2, <3>3
  <2> QED
    BY <2>1, <2>2, <2>3
<1>6. ExitOnce(u)
  <2>1. ASSUME NEW i \in 1 .. Len(t) + 1, u[i].to = Exit
        PROVE  \E j \in DOMAIN t : i = to(j) /\ t[j].to = Exit
    <3>1. i # l
      BY <1>3, <2>1, Constants
    <3>2. CASE i < l
      <4>1. i \in DOMAIN t /\ t[i].to = Exit
        BY <1>0, <2>1, <3>2
      <4> QED
        BY <3>2, <4>1
    <3>3. CASE i > l
      <4>1. i - 1 \in DOMAIN t /\ t[i - 1].to = Exit /\ i = to(i - 1)
        BY <1>0, <2>1, <3>3
      <4> QED
        BY <4>1
    <3> QED
      BY <3>1, <3>2, <3>3
  <2> SUFFICES ASSUME NEW i \in 1 .. Len(t) + 1, NEW k \in 1 .. Len(t) + 1,
                      u[i].to = Exit, u[k].to = Exit
               PROVE  i = k
    BY <1>0 DEF ExitOnce
  <2>2. PICK j \in DOMAIN t : i = to(j) /\ t[j].to = Exit
    BY <2>1
  <2>3. PICK m \in DOMAIN t : k = to(m) /\ t[m].to = Exit
    BY <2>1
  <2>4. j = m
    BY <2>2, <2>3 DEF ExitOnce
  <2> QED
    BY <2>2, <2>3, <2>4
<1>7. ASSUME NEW c \in 1 .. Len(t), NEW b \in BOOLEAN, l = c => ~b
      PROVE  Ahead(u, LegAfterInsert(c, l), b) =
               IF l < c THEN Ahead(t, c, b) ELSE Ahead(t, c, b) \cup {n + 1}
  <2> DEFINE d == LegAfterInsert(c, l)
             In(i) == i > d \/ (i = d /\ ~b)
             Was(j) == j > c \/ (j = c /\ ~b)
  <2>0. d = IF l < c THEN c + 1 ELSE c
    BY DEF LegAfterInsert
  <2>1. \A j \in PointLegs(t) : Was(j) => In(to(j))
    <3> SUFFICES ASSUME NEW j \in PointLegs(t), Was(j) PROVE In(to(j))
      OBVIOUS
    <3>1. j \in Nat
      BY <1>4
    <3>2. CASE l < c
      BY <1>7, <2>0, <3>1, <3>2
    <3>3. CASE ~(l < c)
      BY <1>7, <2>0, <3>1, <3>3
    <3> QED
      BY <3>2, <3>3
  <2>2. \A j \in PointLegs(t) : In(to(j)) => Was(j)
    BY <1>4, <1>7, <2>0
  <2>3. In(l) <=> ~(l < c)
    BY <1>7, <2>0
  <2> HIDE DEF In, Was, to, d
  <2>4. ASSUME NEW o \in Ahead(u, d, b)
        PROVE  o \in IF l < c THEN Ahead(t, c, b) ELSE Ahead(t, c, b) \cup {n + 1}
    <3>1. PICK i \in PointLegs(u) : In(i) /\ o = u[i].order
      BY DEF Ahead, In
    <3>2. CASE i = l
      BY <1>3, <2>3, <3>1, <3>2
    <3>3. CASE i # l
      <4>1. PICK j \in PointLegs(t) : i = to(j) /\ u[i] = t[j]
        BY <1>1, <3>3
      <4>2. Was(j) /\ o = t[j].order
        BY <2>2, <3>1, <4>1
      <4>3. o \in Ahead(t, c, b)
        BY <4>2 DEF Ahead, Was
      <4> QED
        BY <4>3
    <3> QED
      BY <3>2, <3>3
  <2>5. ASSUME NEW o \in Ahead(t, c, b) PROVE o \in Ahead(u, d, b)
    <3>1. PICK j \in PointLegs(t) : Was(j) /\ o = t[j].order
      BY DEF Ahead, Was
    <3>2. to(j) \in PointLegs(u) /\ u[to(j)] = t[j] /\ In(to(j))
      BY <1>2, <2>1, <3>1
    <3> QED
      BY <3>1, <3>2 DEF Ahead, In
  <2>6. ASSUME ~(l < c) PROVE n + 1 \in Ahead(u, d, b)
    BY <1>3, <2>3, <2>6 DEF Ahead, In
  <2>7. Ahead(u, d, b) = IF l < c THEN Ahead(t, c, b) ELSE Ahead(t, c, b) \cup {n + 1}
    BY <2>4, <2>5, <2>6
  <2> QED
    BY <2>7 DEF d
<1> QED
  BY <1>0, <1>5, <1>6, <1>7

(* A leg removed takes one order from those ahead.                         *)
LEMMA RemoveAhead ==
  ASSUME NEW t \in Seq(Legs), NEW u \in Seq(Legs), NEW l \in PointLegs(t),
         Len(u) = Len(t) - 1,
         \A i \in 1 .. Len(t) - 1 : u[i] = IF i < l THEN t[i] ELSE t[i + 1],
         Distinct(t), ExitOnce(t)
  PROVE  /\ Distinct(u) /\ ExitOnce(u)
         /\ \A c \in 1 .. Len(t), b \in BOOLEAN :
               (l = c => ~b /\ l < Len(t)) /\ l + 1 # c =>
               Ahead(u, LegAfterRemove(t, c, l), b) = Ahead(t, c, b) \ {t[l].order}
<1> DEFINE to(j) == IF j < l THEN j ELSE j - 1
<1>0. l \in 1 .. Len(t) /\ t[l].to \in Points
  BY DEF PointLegs
<1>1. ASSUME NEW i \in PointLegs(u)
      PROVE  \E j \in PointLegs(t) : j # l /\ i = to(j) /\ u[i] = t[j]
  <2>1. i \in 1 .. Len(t) - 1 /\ u[i].to \in Points
    BY DEF PointLegs
  <2>2. CASE i < l
    <3>1. i \in 1 .. Len(t) /\ u[i] = t[i]
      BY <2>1, <2>2
    <3>2. i \in PointLegs(t)
      BY <2>1, <3>1 DEF PointLegs
    <3> QED
      BY <2>2, <3>1, <3>2
  <2>3. CASE ~(i < l)
    <3>1. /\ i + 1 \in 1 .. Len(t) /\ u[i] = t[i + 1] /\ i + 1 # l
          /\ ~(i + 1 < l) /\ (i + 1) - 1 = i
      BY <1>0, <2>1, <2>3
    <3>2. i + 1 \in PointLegs(t)
      BY <2>1, <3>1 DEF PointLegs
    <3> QED
      BY <3>1, <3>2
  <2> QED
    BY <2>2, <2>3
<1>2. ASSUME NEW j \in PointLegs(t), j # l
      PROVE  to(j) \in PointLegs(u) /\ u[to(j)] = t[j]
  <2>1. j \in 1 .. Len(t) /\ t[j].to \in Points
    BY DEF PointLegs
  <2>2. to(j) \in 1 .. Len(t) - 1 /\ (j > l => ~(to(j) < l) /\ to(j) + 1 = j)
    BY <1>0, <1>2, <2>1
  <2>3. u[to(j)] = t[j]
    <3>1. CASE j < l
      BY <1>0, <2>1, <2>2, <3>1
    <3>2. CASE j > l
      <4>1. u[to(j)] = t[to(j) + 1]
        BY <2>2, <3>2
      <4> QED
        BY <2>2, <3>2, <4>1
    <3> QED
      BY <1>0, <1>2, <2>1, <3>1, <3>2
  <2> QED
    BY <2>1, <2>2, <2>3 DEF PointLegs
<1>3. \A j \in PointLegs(t) : j \in 1 .. Len(t) /\ (t[j].order = t[l].order <=> j = l)
  BY DEF PointLegs, Distinct
<1>4. Distinct(u)
  <2> SUFFICES ASSUME NEW i \in PointLegs(u), NEW k \in PointLegs(u),
                      u[i].order = u[k].order
               PROVE  i = k
    BY DEF Distinct
  <2>1. PICK j \in PointLegs(t) : i = to(j) /\ u[i] = t[j]
    BY <1>1
  <2>2. PICK m \in PointLegs(t) : k = to(m) /\ u[k] = t[m]
    BY <1>1
  <2>3. j = m
    BY <2>1, <2>2 DEF Distinct
  <2> QED
    BY <2>1, <2>2, <2>3
<1>5. ExitOnce(u)
  <2>1. ASSUME NEW i \in 1 .. Len(t) - 1, u[i].to = Exit
        PROVE  \E j \in DOMAIN t : i = to(j) /\ t[j].to = Exit
    <3>1. CASE i < l
      <4>1. i \in DOMAIN t /\ t[i].to = Exit /\ i = to(i)
        BY <1>0, <2>1, <3>1
      <4> QED
        BY <4>1
    <3>2. CASE ~(i < l)
      <4>1. i + 1 \in DOMAIN t /\ t[i + 1].to = Exit /\ i = to(i + 1)
        BY <1>0, <2>1, <3>2
      <4> QED
        BY <4>1
    <3> QED
      BY <3>1, <3>2
  <2> SUFFICES ASSUME NEW i \in 1 .. Len(t) - 1, NEW k \in 1 .. Len(t) - 1,
                      u[i].to = Exit, u[k].to = Exit
               PROVE  i = k
    BY DEF ExitOnce
  <2>2. PICK j \in DOMAIN t : i = to(j) /\ t[j].to = Exit
    BY <2>1
  <2>3. PICK m \in DOMAIN t : k = to(m) /\ t[m].to = Exit
    BY <2>1
  <2>4. j = m
    BY <2>2, <2>3 DEF ExitOnce
  <2> QED
    BY <2>2, <2>3, <2>4
<1>6. ASSUME NEW c \in 1 .. Len(t), NEW b \in BOOLEAN,
             l = c => ~b /\ l < Len(t), l + 1 # c
      PROVE  Ahead(u, LegAfterRemove(t, c, l), b) = Ahead(t, c, b) \ {t[l].order}
  <2> DEFINE d == LegAfterRemove(t, c, l)
             In(i) == i > d \/ (i = d /\ ~b)
             Was(j) == j > c \/ (j = c /\ ~b)
  <2>0. d = IF l < c THEN c - 1 ELSE c
    BY <1>0, <1>6 DEF LegAfterRemove
  <2>1. \A j \in PointLegs(t) : j # l /\ Was(j) => In(to(j))
    <3> SUFFICES ASSUME NEW j \in PointLegs(t), j # l, Was(j) PROVE In(to(j))
      OBVIOUS
    <3>1. j \in 1 .. Len(t)
      BY <1>3
    <3> QED
      BY <1>0, <1>6, <2>0, <3>1
  <2>2. \A j \in PointLegs(t) : j # l /\ In(to(j)) => Was(j)
    <3> SUFFICES ASSUME NEW j \in PointLegs(t), j # l, In(to(j)) PROVE Was(j)
      OBVIOUS
    <3>1. j \in 1 .. Len(t)
      BY <1>3
    <3> QED
      BY <1>0, <1>6, <2>0, <3>1
  <2> HIDE DEF In, Was, to, d
  <2>4. ASSUME NEW o \in Ahead(u, d, b) PROVE o \in Ahead(t, c, b) \ {t[l].order}
    <3>1. PICK i \in PointLegs(u) : In(i) /\ o = u[i].order
      BY DEF Ahead, In
    <3>2. PICK j \in PointLegs(t) : j # l /\ i = to(j) /\ u[i] = t[j]
      BY <1>1
    <3>3. Was(j) /\ o = t[j].order /\ o # t[l].order
      BY <1>3, <2>2, <3>1, <3>2
    <3>4. o \in Ahead(t, c, b)
      BY <3>3 DEF Ahead, Was
    <3> QED
      BY <3>3, <3>4
  <2>5. ASSUME NEW o \in Ahead(t, c, b), o # t[l].order PROVE o \in Ahead(u, d, b)
    <3>1. PICK j \in PointLegs(t) : Was(j) /\ o = t[j].order
      BY DEF Ahead, Was
    <3>2. j # l
      BY <2>5, <3>1
    <3>3. to(j) \in PointLegs(u) /\ u[to(j)] = t[j] /\ In(to(j))
      BY <1>2, <2>1, <3>1, <3>2
    <3> QED
      BY <3>1, <3>3 DEF Ahead, In
  <2>7. Ahead(u, d, b) = Ahead(t, c, b) \ {t[l].order}
    BY <2>4, <2>5
  <2> QED
    BY <2>7 DEF d
<1> QED
  BY <1>4, <1>5, <1>6

(* A vehicle left alone still owes what it was asked.                      *)
LEMMA AskedKept ==
  ASSUME IInv, NEW v \in Vehicles, ServedInv(v), orders' \in {orders, orders + 1},
         trip'[v] = trip[v], leg'[v] = leg[v], stage'[v] = stage[v],
         asked'[v] = asked[v], served'[v] = served[v],
         v \in upset' <=> v \in upset, AtTripNode(v)' = AtTripNode(v)
  PROVE  ServedInv(v)'
<1>1. Pending(v)' = Pending(v)
  <2>1. Pending(v)' = Ahead(trip'[v], leg'[v], AtTripNode(v)')
    BY DEF Pending, Ahead
  <2> QED
    BY <2>1, PendingAhead
<1>2. Dest(v)' = Dest(v)
  BY DEF Dest
<1>3. asked[v] \subseteq 1 .. orders'
  <2>1. orders \in Nat
    BY Constants DEF IInv, Values
  <2>2. \A i \in 1 .. orders : i \in 1 .. orders + 1
    BY <2>1
  <2> QED
    BY <2>2 DEF ServedInv
<1>4. v \notin upset /\ Served(v) => Served(v)'
  BY <1>1, <1>2 DEF Served
<1> QED
  BY <1>3, <1>4 DEF ServedInv

(* Nobody else has stopped or moved on.                                    *)
LEMMA SameNode ==
  ASSUME IInv, NEW v \in Vehicles, trip'[v] = trip[v], leg'[v] = leg[v],
         listed' = listed
  PROVE  AtTripNode(v)' = AtTripNode(v)
BY DEF AtTripNode, Dest

(* A vehicle left alone is at its node, or not, as before.                 *)
LEMMA SameNodeBut ==
  ASSUME IInv, NEW v \in Vehicles, trip'[v] = trip[v], leg'[v] = leg[v],
         \A p \in Points : v \in Range(listed'[p]) <=> v \in Range(listed[p])
  PROVE  AtTripNode(v)' = AtTripNode(v)
<1>1. Dest(v)' = Dest(v)
  BY DEF Dest
<1> QED
  BY <1>1 DEF AtTripNode

(* Nothing is owed at first.                                               *)
LEMMA InitServed == Init => SInv
<1> SUFFICES ASSUME Init PROVE SInv
  OBVIOUS
<1>0. MaxOrder \in Nat /\ Len(Plan) \in Nat /\ Plan \in Seq(Points) /\ Exit \notin Points
  BY Constants
<1>1. /\ Len(tour) = Len(Plan) + 1 /\ DOMAIN tour = 1 .. Len(Plan) + 1
      /\ \A i \in 1 .. Len(Plan) : tour[i].to \in Points /\ tour[i].order = i
      /\ tour[Len(Plan) + 1].to = Exit
  <2>4. /\ Len(tour) = Len(Plan) + 1 /\ DOMAIN tour = 1 .. Len(Plan) + 1
        /\ \A i \in 1 .. Len(Plan) : tour[i] = Leg(Plan[i], i)
        /\ tour[Len(Plan) + 1] = Leg(Exit, Nothing)
    <3>1. tour = [i \in 1 .. Len(Plan) |-> Leg(Plan[i], i)] \o <<Leg(Exit, Nothing)>>
      BY DEF Init
    <3> QED
      BY <3>1, PlanLegs
  <2>5. \A i \in 1 .. Len(Plan) : Plan[i] \in Points
    BY <1>0
  <2>6. ASSUME NEW i \in 1 .. Len(Plan)
        PROVE  tour[i].to \in Points /\ tour[i].order = i
    <3>1. tour[i] = Leg(Plan[i], i)
      BY <2>4
    <3>2. Leg(Plan[i], i).to = Plan[i] /\ Leg(Plan[i], i).order = i
      BY DEF Leg
    <3> QED
      BY <2>5, <3>1, <3>2
  <2>7. tour[Len(Plan) + 1].to = Exit
    BY <2>4 DEF Leg
  <2> QED
    BY <2>4, <2>6, <2>7
<1>2. Distinct(tour)
  <2>1. \A l \in PointLegs(tour) : l \in 1 .. Len(Plan)
    BY <1>0, <1>1 DEF PointLegs
  <2> QED
    BY <1>1, <2>1 DEF Distinct
<1>3. ExitOnce(tour)
  <2>1. \A l \in DOMAIN tour : tour[l].to = Exit => l = Len(Plan) + 1
    BY <1>0, <1>1
  <2> QED
    BY <2>1 DEF ExitOnce
<1>4. ASSUME NEW v \in Vehicles PROVE ServedInv(v)
  <2>1. trip[v] = <<>> /\ asked[v] = {} /\ served[v] = <<>> /\ stage[v] = "depot"
    BY DEF Init
  <2>2. Distinct(<<>>) /\ ExitOnce(<<>>)
    BY DEF Distinct, ExitOnce, PointLegs
  <2> QED
    BY <2>1, <2>2 DEF ServedInv
<1> QED
  BY <1>2, <1>3, <1>4 DEF SInv

(* The plan is asked as a vehicle leaves the depot.                        *)
LEMMA ActivateServed ==
  ASSUME IInv, SInv, IInv', NEW v \in Vehicles, ActivateVehicle(v)
  PROVE  SInv'
<1> USE DEF ActivateVehicle
<1>1. Distinct(tour') /\ ExitOnce(tour')
  BY DEF SInv
<1>2. ASSUME NEW w \in Vehicles, w # v PROVE ServedInv(w)'
  <2>1. /\ trip'[w] = trip[w] /\ leg'[w] = leg[w] /\ stage'[w] = stage[w]
        /\ asked'[w] = asked[w] /\ served'[w] = served[w] /\ listed' = listed
        /\ orders' = orders
    BY <1>2 DEF IInv, Values
  <2>2. AtTripNode(w)' = AtTripNode(w)
    BY <2>1, SameNode
  <2> QED
    BY <2>1, <2>2, AskedKept DEF SInv
<1>3. ServedInv(v)'
  <2>1. /\ trip'[v] = tour /\ leg'[v] = 1 /\ stage'[v] = "out" /\ served'[v] = served[v]
        /\ asked'[v] = {tour[l].order : l \in PointLegs(tour)}
        /\ listed' = listed /\ orders' = orders /\ stage[v] = "depot" /\ v \notin upset
    BY DEF IInv, Values, OnTrip
  <2>2. served[v] = <<>>
    BY <2>1 DEF SInv, ServedInv
  <2>3. ~AtTripNode(v)'
    <3>1. \A p \in Points : ~Listed(v, p)
      BY <2>1, ListedThere
    <3> QED
      BY <2>1, <3>1 DEF AtTripNode, Listed
  <2>4. Pending(v)' = {tour[l].order : l \in PointLegs(tour)}
    <3>1. Pending(v)' = Ahead(trip'[v], leg'[v], AtTripNode(v)')
      BY DEF Pending, Ahead
    <3>2. \A l \in PointLegs(tour) : l > 1 \/ l = 1
      BY DEF PointLegs
    <3>3. Ahead(tour, 1, FALSE) = {tour[l].order : l \in PointLegs(tour)}
      BY <3>2 DEF Ahead
    <3>4. Ahead(tour, 1, AtTripNode(v)') = Ahead(tour, 1, FALSE)
      BY <2>3 DEF Ahead
    <3> QED
      BY <2>1, <3>1, <3>3, <3>4
  <2>5. \A l \in PointLegs(tour) : tour[l].order \in 1 .. orders
    BY DEF IInv, TourInv, Numbered
  <2>6. Range(<<>>) = {} /\ IsInjective(<<>>)
    BY DEF Range, IsInjective
  <2>7. /\ Distinct(trip'[v]) /\ asked'[v] \subseteq 1 .. orders' /\ stage'[v] = "out"
        /\ ExitOnce(trip'[v]) /\ asked'[v] = Range(served'[v]) \cup Pending(v)'
        /\ Range(served'[v]) \cap Pending(v)' = {} /\ IsInjective(served'[v])
    BY <2>1, <2>2, <2>4, <2>5, <2>6 DEF SInv
  <2> QED
    BY <2>7 DEF ServedInv, Served
<1> QED
  BY <1>1, <1>2, <1>3 DEF SInv

(* Entering the network serves nothing.                                    *)
LEMMA InsertVehicleServed ==
  ASSUME IInv, SInv, NEW v \in Vehicles, InsertVehicle(v)
  PROVE  SInv'
BY SameNode, AskedKept DEF InsertVehicle, SInv

(* A vehicle that leaves is at the end of its trip: nothing is ahead.      *)
LEMMA ReachServed ==
  ASSUME IInv, SInv, NEW v \in Vehicles, ReachDestination(v)
  PROVE  SInv'
<1>0. /\ stage[v] = "out" /\ ~AtTripNode(v) /\ upset' = upset
      /\ tour' = tour /\ tourLoads' = tourLoads /\ orders' = orders /\ asked' = asked
  BY DEF ReachDestination
<1> DEFINE t == trip[v]
           c == leg[v]
           o == t[c].order
           p == Dest(v)
<1>1. t \in Seq(Legs) /\ c \in 1 .. Len(t) /\ p \in Points \cup {Exit}
  BY <1>0, DestType
<1>2. /\ Distinct(t) /\ asked[v] \subseteq 1 .. orders /\ ExitOnce(t)
      /\ v \notin upset =>
           /\ asked[v] = Range(served[v]) \cup Ahead(t, c, FALSE)
           /\ Range(served[v]) \cap Ahead(t, c, FALSE) = {}
           /\ IsInjective(served[v])
  <2>1. Pending(v) = Ahead(t, c, FALSE)
    BY <1>0, PendingAhead, AheadStopped
  <2>2. ServedInv(v)
    BY DEF SInv
  <2> QED
    BY <1>0, <2>1, <2>2 DEF ServedInv, Served
<1>5. t[c].to = p
  BY DEF Dest
<1>6. CASE Leave(v) /\ p \in {Exit, Last(t).to}
  <2>1. /\ stage' = [stage EXCEPT ![v] = "left"] /\ trip' = trip /\ leg' = leg
        /\ listed' = listed /\ served' = served
    BY <1>6 DEF Leave
  <2>2. \A w \in Vehicles : AtTripNode(w)' = AtTripNode(w)
    BY <2>1, SameNode
  <2>3. ASSUME NEW w \in Vehicles, w # v PROVE ServedInv(w)'
    <3>1. stage'[w] = stage[w]
      BY <2>1, <2>3 DEF IInv, Values
    <3> QED
      BY <1>0, <2>1, <2>2, <3>1, AskedKept DEF SInv
  <2>4. ASSUME Last(t).to = Exit PROVE p = Exit /\ Ahead(t, c, FALSE) = {}
    <3>1. c \in DOMAIN t /\ Len(t) \in DOMAIN t /\ p = Exit
      BY <1>1, <1>6, <2>4
    <3>2. c = Len(t)
      BY <1>2, <1>5, <2>4, <3>1 DEF ExitOnce, Last
    <3>3. ASSUME NEW l \in PointLegs(t), l > c \/ l = c PROVE FALSE
      <4>1. l \in 1 .. Len(t) /\ t[l].to \in Points
        BY DEF PointLegs
      <4>2. l = c
        BY <1>1, <3>2, <3>3, <4>1
      <4> QED
        BY <1>5, <3>1, <4>1, <4>2, Constants
    <3> QED
      BY <3>1, <3>3 DEF Ahead
  <2>5. ServedInv(v)'
    <3>1. Pending(v)' = Ahead(t, c, FALSE)
      <4>1. Pending(v)' = Ahead(trip'[v], leg'[v], AtTripNode(v)')
        BY DEF Pending, Ahead
      <4>2. ~AtTripNode(v)'
        BY <1>0, <2>2
      <4> QED
        BY <2>1, <4>1, <4>2, AheadStopped
    <3>2. stage'[v] = "left" /\ Dest(v)' = p
      BY <2>1 DEF IInv, Values, Dest
    <3>3. Distinct(trip'[v]) /\ asked'[v] \subseteq 1 .. orders' /\ ExitOnce(trip'[v])
      BY <1>0, <1>2, <2>1
    <3>4. ASSUME v \notin upset PROVE Served(v)'
      BY <1>0, <1>2, <2>1, <2>4, <3>1, <3>2, <3>4 DEF Served
    <3> QED
      BY <1>0, <3>2, <3>3, <3>4 DEF ServedInv
  <2> QED
    BY <1>0, <2>3, <2>5 DEF SInv
<1>7. CASE Stop(v, p) /\ p # Exit
  <2>0. p \in Points /\ Stop(v, p)
    BY <1>1, <1>7
  <2>1. /\ trip' = trip /\ leg' = leg /\ stage' = stage
        /\ listed' = [listed EXCEPT ![p] = Append(@, v)]
    BY <2>0 DEF Stop
  <2>2. served' = [served EXCEPT ![v] = Append(@, o)] /\ o \in Orders
    BY <1>0, <2>0, HandledType DEF Stop, WithLoadHandled
  <2>3. listed[p] \in Seq(Vehicles) /\ IsInjective(listed[p]) /\ v \notin Range(listed[p])
    BY <1>0, <2>0, NotListedTwice
  <2> HIDE DEF t, c, o, p
  <2>4. Range(listed'[p]) = Range(listed[p]) \cup {v}
    <3>1. listed'[p] = Append(listed[p], v)
      BY <2>0, <2>1 DEF IInv, Values
    <3> QED
      BY <2>3, <3>1, AppendListed
  <2>5. \A p2 \in Points : p2 # p => listed'[p2] = listed[p2]
    BY <2>1 DEF IInv, Values
  <2>6. ASSUME NEW w \in Vehicles, w # v PROVE ServedInv(w)'
    <3>1. \A p2 \in Points : w \in Range(listed'[p2]) <=> w \in Range(listed[p2])
      BY <2>4, <2>5, <2>6
    <3>2. AtTripNode(w)' = AtTripNode(w)
      BY <2>1, <3>1, SameNodeBut
    <3>3. served'[w] = served[w]
      BY <2>2, <2>6 DEF IInv, Values
    <3> QED
      BY <1>0, <2>1, <3>2, <3>3, AskedKept DEF SInv
  <2>7. ServedInv(v)'
    <3>1. AtTripNode(v)'
      <4>1. Dest(v)' = p
        BY <2>1 DEF Dest, p
      <4> QED
        BY <2>0, <2>4, <4>1 DEF AtTripNode
    <3>2. Pending(v)' = Ahead(t, c, TRUE)
      <4>1. Pending(v)' = Ahead(trip'[v], leg'[v], AtTripNode(v)')
        BY DEF Pending, Ahead
      <4> QED
        BY <2>1, <3>1, <4>1, AheadStopped DEF t, c
    <3>3. c \in PointLegs(t) /\ t[c].order = o
      BY <1>1, <1>5, <2>0 DEF PointLegs, o
    <3>4. Ahead(t, c, FALSE) = Ahead(t, c, TRUE) \cup {o} /\ o \notin Ahead(t, c, TRUE)
      <4>1. \A l \in PointLegs(t) : l > c => t[l].order # o
        BY <1>1, <1>2, <3>3 DEF Distinct
      <4> QED
        BY <3>3, <4>1 DEF Ahead
    <3>5. /\ served'[v] = Append(served[v], o) /\ served[v] \in Seq(0 .. MaxOrder)
          /\ o \in 0 .. MaxOrder
      BY <2>2, Constants DEF IInv, Values, Orders
    <3>7. ASSUME v \notin upset
          PROVE  /\ IsInjective(served'[v])
                 /\ Range(served'[v]) = Range(served[v]) \cup {o}
      <4> DEFINE q == served[v]
                 Loads == 0 .. MaxOrder
      <4>1. q \in Seq(Loads) /\ IsInjective(q) /\ o \in Loads /\ o \notin Range(q)
        BY <1>2, <3>4, <3>5, <3>7
      <4> HIDE DEF q, Loads
      <4>2. IsInjective(Append(q, o)) /\ Range(Append(q, o)) = Range(q) \cup {o}
        BY <4>1, AppendListed
      <4> QED
        BY <3>5, <4>2 DEF q
    <3>8. ASSUME v \notin upset
          PROVE  /\ asked'[v] = Range(served'[v]) \cup Pending(v)'
                 /\ Range(served'[v]) \cap Pending(v)' = {}
      BY <1>0, <1>2, <3>2, <3>4, <3>7, <3>8
    <3>9. /\ Distinct(trip'[v]) /\ asked'[v] \subseteq 1 .. orders' /\ ExitOnce(trip'[v])
          /\ stage'[v] = "out"
      BY <1>0, <1>2, <2>1 DEF t
    <3> QED
      BY <1>0, <3>7, <3>8, <3>9 DEF ServedInv, Served
  <2> QED
    BY <1>0, <2>6, <2>7 DEF SInv
<1> QED
  BY <1>6, <1>7 DEF ReachDestination

(* The end of a stop: the order of the leg left behind has been served.    *)
LEMMA MoveServed ==
  ASSUME IInv, SInv, NEW v \in Vehicles, MoveToNextLeg(v)
  PROVE  SInv'
<1> DEFINE p == Dest(v)
           t == trip[v]
           c == leg[v]
<1>0. /\ stage[v] = "out" /\ p \in Points /\ AtTripNode(v)
      /\ tour' = tour /\ orders' = orders /\ asked' = asked
      /\ trip' = trip /\ served' = served /\ upset' = upset /\ OnLeg(v)
      /\ listed' = [listed EXCEPT ![p] = VehiculeExit(@, v)]
      /\ leg' = [leg EXCEPT ![v] = @ + 1]
  BY DEF MoveToNextLeg, AtTripNode
<1>1. Range(listed'[p]) = Range(listed[p]) \cap (Vehicles \ {v})
  <2>1. listed'[p] = Keep(listed[p], Vehicles \ {v})
    BY <1>0 DEF IInv, Values, VehiculeExit
  <2>2. listed[p] \in Seq(Vehicles) /\ IsInjective(listed[p])
    BY <1>0 DEF IInv, Values, NoPlaceLost
  <2> HIDE DEF p
  <2> QED
    BY <2>1, <2>2, KeepInjective
<1>2. \A p2 \in Points : p2 # p => listed'[p2] = listed[p2]
  BY <1>0 DEF IInv, Values
<1>3. leg'[v] = c + 1 /\ \A w \in Vehicles : w # v => leg'[w] = leg[w]
  BY <1>0 DEF IInv, Values
<1>4. t \in Seq(Legs) /\ c \in 1 .. Len(t) /\ t[c].to = p
  BY <1>0, DestType DEF Dest
<1>5. v \notin upset => \A p2 \in Points : Listed(v, p2) => p2 = p
  BY ListedThere
<1>5a. /\ \A w \in Vehicles : w # v => stage'[w] = stage[w]
       /\ stage'[v] \in {"out", "lost"}
  BY <1>0, OnLegFacts
<1> HIDE DEF p, t, c
<1>6. ASSUME NEW w \in Vehicles, w # v PROVE ServedInv(w)'
  <2>1. \A p2 \in Points : w \in Range(listed'[p2]) <=> w \in Range(listed[p2])
    BY <1>1, <1>2, <1>6
  <2>2. AtTripNode(w)' = AtTripNode(w)
    BY <1>0, <1>3, <1>6, <2>1, SameNodeBut
  <2> QED
    BY <1>0, <1>3, <1>5a, <1>6, <2>2, AskedKept DEF SInv
<1>7. ASSUME v \notin upset PROVE Served(v)'
  <2>1. ~AtTripNode(v)'
    <3>1. \A p2 \in Points : v \notin Range(listed'[p2])
      BY <1>1, <1>2, <1>5, <1>7 DEF Listed
    <3> QED
      BY <3>1 DEF AtTripNode
  <2>2. Pending(v)' = Ahead(t, c + 1, FALSE)
    <3>1. Pending(v)' = Ahead(trip'[v], leg'[v], AtTripNode(v)')
      BY DEF Pending, Ahead
    <3>2. Ahead(t, c + 1, AtTripNode(v)') = Ahead(t, c + 1, FALSE)
      BY <2>1 DEF Ahead
    <3> QED
      BY <1>0, <1>3, <3>1, <3>2 DEF t
  <2>3. Pending(v) = Ahead(t, c, TRUE)
    BY <1>0, PendingAhead, AheadStopped DEF t, c
  <2>4. Ahead(t, c + 1, FALSE) = Ahead(t, c, TRUE)
    <3>1. \A l \in PointLegs(t) : l > c + 1 \/ l = c + 1 <=> l > c
      BY <1>4 DEF PointLegs
    <3> QED
      BY <3>1 DEF Ahead
  <2>5. Served(v)
    BY <1>0, <1>7 DEF SInv, ServedInv
  <2>6. Pending(v)' = Pending(v)
    BY <2>2, <2>3, <2>4
  <2> QED
    BY <1>0, <1>5a, <2>5, <2>6 DEF Served
<1>8. ServedInv(v)'
  BY <1>0, <1>5a, <1>7 DEF SInv, ServedInv
<1> QED
  BY <1>0, <1>6, <1>8 DEF SInv

(* An order added to a tour is asked later.                                *)
LEMMA AddToTourServed ==
  ASSUME IInv, SInv, NEW p \in Points, AddToTour(p)
  PROVE  SInv'
<1>0. /\ trip' = trip /\ leg' = leg /\ stage' = stage
      /\ listed' = listed /\ asked' = asked /\ served' = served /\ NewOrder
      /\ upset' = upset
  BY DEF AddToTour
<1>1. PICK l \in PointLegs(tour) \cup Appending(tour) :
        tour' = InsertTripLeg(tour, l, Leg(p, orders'))
  BY DEF AddToTour
<1>2. /\ orders \in Nat /\ orders' = orders + 1 /\ orders' \in Orders
  BY <1>0, NewOrderType
<1> DEFINE x == Leg(p, orders')
           u == tour'
<1>3. x \in Legs /\ x.to = p /\ x.order = orders + 1
  <2>1. orders + 1 \in Orders
    BY <1>2
  <2> DEFINE o == orders + 1
  <2> HIDE DEF o
  <2>2. Leg(p, o) \in Legs /\ Leg(p, o).to = p /\ Leg(p, o).order = o
    BY <2>1, LegType DEF o
  <2> QED
    BY <1>2, <2>2 DEF o
<1>4. tour \in Seq(Legs) /\ \A i \in PointLegs(tour) : tour[i].order \in 1 .. orders
  BY DEF IInv, TourInv, Numbered
<1>5. l \in 1 .. Len(tour) + 1
  BY <1>4 DEF PointLegs, Appending
<1>6. u = InsertAt(tour, l, x)
  BY <1>1 DEF InsertTripLeg
<1> HIDE DEF x, u
<1>8. Distinct(u) /\ ExitOnce(u)
  <2>1. Distinct(tour) /\ ExitOnce(tour)
    BY DEF SInv
  <2> QED
    BY <1>2, <1>3, <1>4, <1>5, <1>6, <2>1, InsertAhead
<1>9. ASSUME NEW v \in Vehicles PROVE ServedInv(v)'
  <2>1. AtTripNode(v)' = AtTripNode(v)
    BY <1>0, SameNode
  <2> QED
    BY <1>0, <1>2, <2>1, AskedKept DEF SInv
<1> QED
  BY <1>8, <1>9 DEF SInv, u

(* An order removed from a tour was not asked yet.                         *)
LEMMA RemoveFromTourServed ==
  ASSUME IInv, SInv, RemoveFromTour
  PROVE  SInv'
<1>0. /\ trip' = trip /\ leg' = leg /\ stage' = stage /\ orders' = orders
      /\ listed' = listed /\ asked' = asked /\ served' = served /\ upset' = upset
  BY DEF RemoveFromTour
<1>1. PICK l \in PointLegs(tour) : tour' = RemoveTripLeg(tour, l)
  BY DEF RemoveFromTour
<1>2. tour \in Seq(Legs) /\ Distinct(tour) /\ ExitOnce(tour)
  BY DEF IInv, TourInv, Numbered, SInv
<1> DEFINE u == tour'
<1>3. u = RemoveAt(tour, l) /\ l \in 1 .. Len(tour)
  BY <1>1 DEF RemoveTripLeg, PointLegs
<1> HIDE DEF u
<1>4. /\ u \in Seq(Legs) /\ Len(u) = Len(tour) - 1
      /\ \A i \in 1 .. Len(tour) - 1 : u[i] = IF i < l THEN tour[i] ELSE tour[i + 1]
  BY <1>2, <1>3, RemoveFacts
<1>5. Distinct(u) /\ ExitOnce(u)
  BY <1>2, <1>4, RemoveAhead
<1>6. ASSUME NEW v \in Vehicles PROVE ServedInv(v)'
  <2>1. AtTripNode(v)' = AtTripNode(v)
    BY <1>0, SameNode
  <2> QED
    BY <1>0, <2>1, AskedKept DEF SInv
<1> QED
  BY <1>5, <1>6 DEF SInv, u

(* A point inserted at the current leg becomes the current destination; a  *)
(* point inserted behind is not asked from the vehicle.                    *)
LEMMA AddToVehicleServed ==
  ASSUME IInv, SInv, NEW v \in Vehicles, NEW p \in Points, AddToVehicle(v, p)
  PROVE  SInv'
<1>0. /\ tour' = tour /\ stage' = stage /\ listed' = listed /\ served' = served
      /\ NewOrder /\ stage[v] = "out"
  BY DEF AddToVehicle
<1>1. PICK l \in Orderable(v) :
        /\ upset' = IF AtStop(v, l) THEN upset \cup {v} ELSE upset
        /\ trip' = [trip EXCEPT ![v] = InsertTripLeg(@, l, Leg(p, orders'))]
        /\ leg' = [leg EXCEPT ![v] = LegAfterInsert(@, l)]
        /\ asked' = IF l < leg[v] THEN asked
                    ELSE [asked EXCEPT ![v] = @ \cup {orders'}]
  BY DEF AddToVehicle
<1>2. /\ orders \in Nat /\ orders' = orders + 1 /\ orders' \in Orders
  BY <1>0, NewOrderType
<1> DEFINE t == trip[v]
           c == leg[v]
           x == Leg(p, orders')
           u == trip'[v]
           d == leg'[v]
           b == AtTripNode(v)
<1>3. x \in Legs /\ x.to = p /\ x.order = orders + 1
  <2>1. orders + 1 \in Orders
    BY <1>2
  <2> DEFINE o == orders + 1
  <2> HIDE DEF o
  <2>2. Leg(p, o) \in Legs /\ Leg(p, o).to = p /\ Leg(p, o).order = o
    BY <2>1, LegType DEF o
  <2> QED
    BY <1>2, <2>2 DEF o
<1>4. /\ t \in Seq(Legs) /\ c \in 1 .. Len(t)
      /\ \A i \in PointLegs(t) : t[i].order \in 1 .. orders
  BY <1>0, DestType DEF IInv, TripInv, Numbered
<1>5. /\ l \in 1 .. Len(t) + 1
      /\ v \notin upset' => v \notin upset /\ (l = c => ~b)
      /\ \A w \in Vehicles : w # v => (w \in upset' <=> w \in upset)
  <2>1. l \in 1 .. Len(t) + 1
    BY <1>0, OrderableLegs
  <2>2. upset' = upset \/ upset' = upset \cup {v}
    BY <1>1
  <2>3. v \notin upset' => v \notin upset /\ (l = c => ~b)
    BY <1>1 DEF AtStop
  <2> HIDE DEF t, c, b
  <2> QED
    BY <2>1, <2>2, <2>3, UpsetGrows
<1>6. /\ u = InsertAt(t, l, x) /\ d = LegAfterInsert(c, l)
      /\ asked'[v] = IF l < c THEN asked[v] ELSE asked[v] \cup {orders + 1}
      /\ \A w \in Vehicles : w # v =>
           trip'[w] = trip[w] /\ leg'[w] = leg[w] /\ asked'[w] = asked[w]
  <2>1. u = InsertAt(t, l, x) /\ d = LegAfterInsert(c, l)
    BY <1>1 DEF IInv, Values, InsertTripLeg
  <2>2. asked'[v] = IF l < c THEN asked[v] ELSE asked[v] \cup {orders + 1}
    BY <1>1, <1>2 DEF IInv, Values
  <2>3. \A w \in Vehicles : w # v =>
           trip'[w] = trip[w] /\ leg'[w] = leg[w] /\ asked'[w] = asked[w]
    BY <1>1 DEF IInv, Values
  <2> QED
    BY <2>1, <2>2, <2>3
<1>7. b \in BOOLEAN
  BY DEF AtTripNode
<1>8. /\ Distinct(t) /\ asked[v] \subseteq 1 .. orders /\ ExitOnce(t)
      /\ v \notin upset =>
           /\ asked[v] = Range(served[v]) \cup Ahead(t, c, b)
           /\ Range(served[v]) \cap Ahead(t, c, b) = {}
           /\ IsInjective(served[v])
  <2>1. Pending(v) = Ahead(t, c, b)
    BY PendingAhead
  <2>2. ServedInv(v)
    BY DEF SInv
  <2> QED
    BY <1>0, <2>1, <2>2 DEF ServedInv, Served
<1>9. /\ b <=> t[c].to \in Points /\ Listed(v, t[c].to)
      /\ AtTripNode(v)' <=> u[d].to \in Points /\ Listed(v, u[d].to)
      /\ v \notin upset => \A p2 \in Points : Listed(v, p2) => b
  <2>1. b <=> t[c].to \in Points /\ Listed(v, t[c].to)
    BY DEF AtTripNode, Dest, Listed
  <2>2. AtTripNode(v)' <=> u[d].to \in Points /\ Listed(v, u[d].to)
    BY <1>0 DEF AtTripNode, Dest, Listed
  <2>3. v \notin upset => \A p2 \in Points : Listed(v, p2) => b
    BY AtNode
  <2> QED
    BY <2>1, <2>2, <2>3
<1>10. Pending(v)' = Ahead(u, d, AtTripNode(v)')
  BY DEF Pending, Ahead
<1> HIDE DEF t, c, x, u, d, b
<1>11. /\ u \in Seq(Legs) /\ Len(u) = Len(t) + 1
       /\ \A i \in 1 .. Len(t) + 1 :
            u[i] = IF i < l THEN t[i] ELSE IF i = l THEN x ELSE t[i - 1]
       /\ Distinct(u) /\ ExitOnce(u)
       /\ \A k \in 1 .. Len(t), a \in BOOLEAN : (l = k => ~a) =>
               Ahead(u, LegAfterInsert(k, l), a) =
                 IF l < k THEN Ahead(t, k, a) ELSE Ahead(t, k, a) \cup {orders + 1}
  <2>1. Distinct(t) /\ ExitOnce(t) /\ t \in Seq(Legs) /\ l \in 1 .. Len(t) + 1
    BY <1>4, <1>5, <1>8
  <2>2. x \in Legs /\ x.to \in Points /\ x.order = orders + 1 /\ orders \in Nat
    BY <1>2, <1>3
  <2>3. \A i \in PointLegs(t) : t[i].order \in 1 .. orders
    BY <1>4
  <2>4. u = InsertAt(t, l, x)
    BY <1>6
  <2> DEFINE n == orders
  <2>5. \A i \in PointLegs(t) : t[i].order \in 1 .. n
    BY <2>3
  <2>6. x.order = n + 1 /\ n \in Nat
    BY <2>2
  <2> HIDE DEF n
  <2>7. /\ u \in Seq(Legs) /\ Len(u) = Len(t) + 1
        /\ \A i \in 1 .. Len(t) + 1 :
              u[i] = IF i < l THEN t[i] ELSE IF i = l THEN x ELSE t[i - 1]
        /\ Distinct(u) /\ ExitOnce(u)
        /\ \A k \in 1 .. Len(t), a \in BOOLEAN : (l = k => ~a) =>
              Ahead(u, LegAfterInsert(k, l), a) =
                IF l < k THEN Ahead(t, k, a) ELSE Ahead(t, k, a) \cup {n + 1}
    BY <2>1, <2>2, <2>4, <2>5, <2>6, InsertAhead
  <2> QED
    BY <2>7 DEF n
<1>13. ASSUME v \notin upset'
       PROVE  Ahead(u, d, b) = IF l < c THEN Ahead(t, c, b)
                               ELSE Ahead(t, c, b) \cup {orders + 1}
  BY <1>4, <1>5, <1>6, <1>7, <1>11, <1>13
<1>14. ASSUME v \notin upset' PROVE AtTripNode(v)' <=> b
  <2>0. d = IF l < c THEN c + 1 ELSE c
    BY <1>6 DEF LegAfterInsert
  <2>1. CASE l = c
    BY <1>5, <1>9, <1>14, <2>1
  <2>2. CASE l < c
    <3>1. d \in 1 .. Len(t) + 1 /\ ~(d < l) /\ d # l /\ d - 1 = c
      BY <1>4, <1>5, <2>0, <2>2
    <3>2. u[d] = t[c]
      BY <1>11, <3>1
    <3> QED
      BY <1>9, <3>2
  <2>3. CASE l > c
    <3>1. d = c /\ c \in 1 .. Len(t) + 1 /\ c < l
      BY <1>4, <1>5, <2>0, <2>3
    <3>2. u[d] = t[c]
      BY <1>11, <3>1
    <3> QED
      BY <1>9, <3>2
  <2> QED
    BY <1>4, <1>5, <2>1, <2>2, <2>3
<1>15. ASSUME v \notin upset' PROVE Pending(v)' = Ahead(u, d, b)
  <2>1. Ahead(u, d, AtTripNode(v)') = Ahead(u, d, b)
    BY <1>14, <1>15 DEF Ahead
  <2> QED
    BY <1>10, <2>1
<1>16. ServedInv(v)'
  <2>1. ASSUME v \notin upset'
        PROVE  /\ asked'[v] = Range(served'[v]) \cup Pending(v)'
               /\ Range(served'[v]) \cap Pending(v)' = {}
               /\ IsInjective(served'[v])
    <3>0. v \notin upset
      BY <1>5, <2>1
    <3>1. orders + 1 \notin Range(served[v])
      BY <1>2, <1>8, <3>0
    <3> QED
      BY <1>0, <1>6, <1>8, <1>13, <1>15, <2>1, <3>0, <3>1
  <2>2. asked'[v] \subseteq 1 .. orders'
    <3>1. \A o \in 1 .. orders : o \in 1 .. orders + 1
      BY <1>2
    <3>2. orders + 1 \in 1 .. orders + 1
      BY <1>2
    <3> QED
      BY <1>2, <1>6, <1>8, <3>1, <3>2
  <2>3. Distinct(trip'[v]) /\ ExitOnce(trip'[v]) /\ stage'[v] = "out"
    BY <1>0, <1>11 DEF u
  <2> QED
    BY <2>1, <2>2, <2>3 DEF ServedInv, Served
<1>17. ASSUME NEW w \in Vehicles, w # v PROVE ServedInv(w)'
  <2>1. AtTripNode(w)' = AtTripNode(w)
    BY <1>0, <1>6, <1>17, SameNode
  <2> QED
    BY <1>0, <1>2, <1>5, <1>6, <1>17, <2>1, AskedKept DEF SInv
<1> QED
  BY <1>0, <1>16, <1>17 DEF SInv

(* A removed order is no longer asked, unless it has been served.          *)
LEMMA RemoveFromVehicleServed ==
  ASSUME IInv, SInv, NEW v \in Vehicles, RemoveFromVehicle(v)
  PROVE  SInv'
<1>0. /\ tour' = tour /\ listed' = listed /\ served' = served
      /\ orders' = orders /\ stage[v] = "out" /\ OnLeg(v)
  BY DEF RemoveFromVehicle
<1>0a. /\ \A w \in Vehicles : w # v => stage'[w] = stage[w]
       /\ stage'[v] \in {"out", "lost"}
  BY <1>0, OnLegFacts
<1>1. PICK l \in Removable(v) :
        /\ upset' = IF l + 1 = leg[v] \/ AtStop(v, l) THEN upset \cup {v} ELSE upset
        /\ trip' = [trip EXCEPT ![v] = RemoveTripLeg(@, l)]
        /\ leg' = [leg EXCEPT ![v] = LegAfterRemove(trip[v], @, l)]
        /\ asked' = [asked EXCEPT ![v] = @ \ ({trip[v][l].order} \ Range(served[v]))]
  BY DEF RemoveFromVehicle
<1> DEFINE t == trip[v]
           c == leg[v]
           u == trip'[v]
           d == leg'[v]
           b == AtTripNode(v)
<1>2. /\ v \notin upset' => v \notin upset /\ l + 1 # c /\ (l = c => ~b)
      /\ \A w \in Vehicles : w # v => (w \in upset' <=> w \in upset)
  <2>1. upset' = upset \/ upset' = upset \cup {v}
    BY <1>1
  <2>2. v \notin upset' => v \notin upset /\ l + 1 # c /\ (l = c => ~b)
    BY <1>1 DEF AtStop
  <2> HIDE DEF c, b
  <2> QED
    BY <2>1, <2>2, UpsetGrows
<1>3. t \in Seq(Legs) /\ c \in 1 .. Len(t)
  BY <1>0, DestType
<1>4. /\ l \in PointLegs(t) /\ l \in 1 .. Len(t)
      /\ l = c /\ v \notin upset => l < Len(t)
  BY <1>0, RemovableLegs
<1>5. /\ u = RemoveAt(t, l) /\ d = LegAfterRemove(t, c, l)
      /\ asked'[v] = asked[v] \ ({t[l].order} \ Range(served[v]))
      /\ \A w \in Vehicles : w # v =>
           trip'[w] = trip[w] /\ leg'[w] = leg[w] /\ asked'[w] = asked[w]
  BY <1>1 DEF IInv, Values, RemoveTripLeg
<1>6. b \in BOOLEAN
  BY DEF AtTripNode
<1>7. /\ Distinct(t) /\ asked[v] \subseteq 1 .. orders /\ ExitOnce(t)
      /\ v \notin upset =>
           /\ asked[v] = Range(served[v]) \cup Ahead(t, c, b)
           /\ Range(served[v]) \cap Ahead(t, c, b) = {}
           /\ IsInjective(served[v])
  <2>1. Pending(v) = Ahead(t, c, b)
    BY PendingAhead
  <2>2. ServedInv(v)
    BY DEF SInv
  <2> QED
    BY <1>0, <2>1, <2>2 DEF ServedInv, Served
<1>8. /\ b <=> t[c].to \in Points /\ Listed(v, t[c].to)
      /\ AtTripNode(v)' <=> u[d].to \in Points /\ Listed(v, u[d].to)
      /\ v \notin upset => \A p2 \in Points : Listed(v, p2) => b
  <2>1. b <=> t[c].to \in Points /\ Listed(v, t[c].to)
    BY DEF AtTripNode, Dest, Listed
  <2>2. AtTripNode(v)' <=> u[d].to \in Points /\ Listed(v, u[d].to)
    BY <1>0 DEF AtTripNode, Dest, Listed
  <2>3. v \notin upset => \A p2 \in Points : Listed(v, p2) => b
    BY AtNode
  <2> QED
    BY <2>1, <2>2, <2>3
<1>9. Pending(v)' = Ahead(u, d, AtTripNode(v)')
  BY DEF Pending, Ahead
<1> HIDE DEF t, c, u, d, b
<1>10. /\ u \in Seq(Legs) /\ Len(u) = Len(t) - 1
       /\ \A i \in 1 .. Len(t) - 1 : u[i] = IF i < l THEN t[i] ELSE t[i + 1]
  BY SMTT(30), <1>3, <1>4, <1>5, RemoveFacts
<1>11. /\ Distinct(u) /\ ExitOnce(u)
       /\ \A k \in 1 .. Len(t), a \in BOOLEAN :
               (l = k => ~a /\ l < Len(t)) /\ l + 1 # k =>
               Ahead(u, LegAfterRemove(t, k, l), a) = Ahead(t, k, a) \ {t[l].order}
  BY <1>3, <1>4, <1>7, <1>10, RemoveAhead
<1>12. ASSUME v \notin upset'
       PROVE  Ahead(u, d, b) = Ahead(t, c, b) \ {t[l].order}
  <2>1. (l = c => ~b /\ l < Len(t)) /\ l + 1 # c
    BY <1>2, <1>4, <1>12
  <2> QED
    BY <1>3, <1>5, <1>6, <1>11, <2>1
<1>13. ASSUME v \notin upset' PROVE AtTripNode(v)' <=> b
  <2>0. d = IF l < c THEN c - 1 ELSE c
    BY <1>2, <1>3, <1>4, <1>5, <1>13 DEF LegAfterRemove
  <2>1. CASE l = c
    BY <1>2, <1>8, <1>13, <2>1
  <2>2. CASE l < c
    <3>1. d \in 1 .. Len(t) - 1 /\ ~(d < l) /\ d + 1 = c
      BY <1>2, <1>3, <1>4, <1>13, <2>0, <2>2
    <3>2. u[d] = t[c]
      BY <1>10, <3>1
    <3> QED
      BY <1>8, <3>2
  <2>3. CASE l > c
    <3>1. d = c /\ c \in 1 .. Len(t) - 1 /\ c < l
      BY <1>3, <1>4, <2>0, <2>3
    <3>2. u[d] = t[c]
      BY <1>10, <3>1
    <3> QED
      BY <1>8, <3>2
  <2> QED
    BY <1>3, <1>4, <2>1, <2>2, <2>3
<1>14. ASSUME v \notin upset'
       PROVE  Pending(v)' = Ahead(t, c, b) \ {t[l].order}
  <2>1. Ahead(u, d, AtTripNode(v)') = Ahead(u, d, b)
    BY <1>13, <1>14 DEF Ahead
  <2> QED
    BY <1>9, <1>12, <1>14, <2>1
<1>15. ServedInv(v)'
  <2>1. ASSUME v \notin upset'
        PROVE  /\ asked'[v] = Range(served'[v]) \cup Pending(v)'
               /\ Range(served'[v]) \cap Pending(v)' = {}
               /\ IsInjective(served'[v])
    <3>1. v \notin upset
      BY <1>2, <2>1
    <3> QED
      BY <1>0, <1>5, <1>7, <1>14, <2>1, <3>1
  <2>2. asked'[v] \subseteq 1 .. orders'
    BY <1>0, <1>5, <1>7
  <2>3. Distinct(trip'[v]) /\ ExitOnce(trip'[v])
    BY <1>11 DEF u
  <2>4. stage'[v] = "depot" \/ stage'[v] = "left" => FALSE
    BY <1>0a
  <2> QED
    BY <2>1, <2>2, <2>3, <2>4 DEF ServedInv, Served
<1>16. ASSUME NEW w \in Vehicles, w # v PROVE ServedInv(w)'
  <2>1. AtTripNode(w)' = AtTripNode(w)
    BY <1>0, <1>5, <1>16, SameNode
  <2> QED
    BY <1>0, <1>0a, <1>2, <1>5, <1>16, <2>1, AskedKept DEF SInv
<1> QED
  BY <1>0, <1>15, <1>16 DEF SInv

(* Every step keeps orders asked either served or ahead.                   *)
LEMMA NextServed ==
  ASSUME IInv, SInv, IInv', [Next]_vars
  PROVE  SInv'
<1>1. CASE \E v \in Vehicles : ActivateVehicle(v) \/ Drive(v) \/ RemoveFromVehicle(v)
  BY <1>1, ActivateServed, ReachServed, MoveServed, InsertVehicleServed,
     RemoveFromVehicleServed DEF Drive
<1>2. CASE \E p \in Points : AddToTour(p) \/ (\E v \in Vehicles : AddToVehicle(v, p))
  BY <1>2, AddToTourServed, AddToVehicleServed
<1>3. CASE RemoveFromTour
  BY <1>3, RemoveFromTourServed
<1>4. CASE UNCHANGED vars
  <2>1. /\ tour' = tour /\ trip' = trip /\ leg' = leg /\ stage' = stage
        /\ listed' = listed /\ orders' = orders /\ asked' = asked /\ served' = served
        /\ upset' = upset
    BY <1>4 DEF vars
  <2> QED
    BY <2>1, SameNode, AskedKept DEF SInv
<1> QED
  BY <1>1, <1>2, <1>3, <1>4 DEF Next

(***************************************************************************)
(* The theorems.                                                           *)
(***************************************************************************)
(* The invariant holds whatever orders are made.                           *)
THEOREM Invariance == Spec => []IInv
<1>1. Init => IInv
  BY InitInv
<1>2. IInv /\ [Next]_vars => IInv'
  BY NextInv
<1> QED
  BY <1>1, <1>2, PTL DEF Spec

(* The variables keep their types: a vehicle that is not lost always has a *)
(* current leg (Trip::GetCurrentLeg), whatever orders are made.            *)
THEOREM TypeCorrect == Spec => []TypeOK
BY Invariance, TypeFromInv, PTL

(* The loads of every point answer the legs that lead to it, whatever was  *)
(* inserted into the tour and the trips or removed from them.              *)
THEOREM LoadsInStep == Spec => []LoadsFollowLegs
BY Invariance, InStepFromInv, PTL

(* Every place of a delivery point is held by a vehicle that stops there,  *)
(* or that an order took its current destination from.                     *)
THEOREM PlacesGivenBack == Spec => []NoPlaceLost
<1>1. IInv => NoPlaceLost
  BY DEF IInv
<1> QED
  BY <1>1, Invariance, PTL

(* Every accepted order is served once or still on the way, unless an      *)
(* order took the current destination of the vehicle, and vehicles whose   *)
(* trip ends at the destination of the tour leave with nothing left to do. *)
THEOREM OrdersServedOnce == Spec => []OrdersServed
<1>1. Spec => []IInv
  BY Invariance
<1>2. Init => SInv
  BY InitServed
<1>3. IInv /\ IInv' /\ SInv /\ [Next]_vars => SInv'
  BY NextServed
<1>4. IInv /\ SInv => OrdersServed
  <2> SUFFICES ASSUME IInv, SInv, NEW v \in Vehicles, v \notin upset,
                      stage[v] # "depot"
               PROVE  stage[v] # "lost" /\ Served(v)
    BY DEF OrdersServed, Served
  <2>1. stage[v] # "lost"
    BY DEF IInv, OnTrip
  <2> QED
    BY <2>1 DEF SInv, ServedInv
<1> QED
  BY <1>1, <1>2, <1>3, <1>4, PTL DEF Spec
=============================================================================
