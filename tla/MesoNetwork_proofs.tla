-------------------------- MODULE MesoNetwork_proofs --------------------------
(***************************************************************************)
(* Proofs about MesoNetwork, for every network, every demand and every     *)
(* outcome of the congested nodes.                                         *)
(***************************************************************************)
EXTENDS MesoNetwork, FiniteSetTheorems, SequenceTheorems,
        WellFoundedInduction, TLAPS

(***************************************************************************)
(* Networks the theorems are about.  An entry that leads to two links may  *)
(* have its event overwritten by a vehicle of the other link.              *)
(***************************************************************************)
NoLoops == \A l \in Links : Up[l] # Down[l]
OneLinkEntries == \A e \in Entries : \A l, m \in OutLinks(e) : l = m

Records == [time : Nat, veh : Vehicles]
VehsOf(A) == {a.veh : a \in A}

(* The nodes whose event is about to be computed again.                     *)
Pending == IF stage = "nodes" THEN ToSet(todo) ELSE {}

(* Vehicles are where their itinerary leads them, at one place each, and the *)
(* records of their place agree.                                             *)
OnRoute ==
  /\ \A l \in Links : \A v \in Arrivals(l) :
        l \in MesoLinks /\ \E i \in DOMAIN route[v] : route[v][i] = l
  /\ \A n \in Nodes : \A v \in Arrivals(n) : n \in Entries /\ Up[route[v][1]] = n
Apart == \A k, j \in Keys : k # j => Arrivals(k) \cap Arrivals(j) = {}
Present == /\ \A v \in Vehicles \ gone : \E k \in Keys : v \in Arrivals(k)
           /\ \A v \in gone : \A k \in Keys : v \notin Arrivals(k)
OnLinks == \A l \in MesoLinks : on[l] = Arrivals(l)
Queued == \A l \in MesoLinks :
            /\ ToSet(waiting[l]) = {v \in Arrivals(Up[l]) : route[v][1] = l}
            /\ \A i, j \in DOMAIN waiting[l] : waiting[l][i] = waiting[l][j] => i = j
Places == OnRoute /\ Apart /\ Present /\ OnLinks /\ Queued

(* Lists that hold no vehicle twice.                                         *)
SingleIn(A) == \A a, b \in A : a.veh = b.veh => a = b
Single == \A k \in Keys : SingleIn(arrivals[k])

(* Events of the nodes that are not pending refer to a real arrival.        *)
Scheduled ==
  \A n \in Nodes \ Pending : event[n] # Never =>
     nextArrival[via[n]] \in arrivals[via[n]] /\ nextArrival[via[n]].time = event[n]

(* Where the program is in SimuTrafic.                                       *)
Current ==
  /\ stage = "passage" => now # Never
  /\ stage \in {"supplies", "passage"} /\ now # Never => event[node] = now

(* The vehicles on a link are those that entered less those that left.       *)
Counted == \A l \in MesoLinks :
             IsFiniteSet(on[l]) /\ Cardinality(on[l]) = Len(entered[l]) - Len(left[l])

IInv == TypeOK /\ Places /\ Single /\ Scheduled /\ Current /\ Counted

(***************************************************************************)
(* Integers: least and greatest elements.                                  *)
(***************************************************************************)
(* A set of naturals that is not empty has a smallest element.             *)
LEMMA Smallest ==
  ASSUME NEW S, S \subseteq Nat, S # {}
  PROVE  Min(S) \in S /\ \A j \in S : Min(S) <= j
<1> DEFINE R == {p \in Nat \X Nat : p[1] < p[2]}
<1>1. IsWellFoundedOn(R, Nat)
  BY NatLessThanWellFounded DEF OpToRel
<1> HIDE DEF R
<1>2. PICK i \in S : \A j \in S : <<j, i>> \notin R
  BY <1>1, WFMin
<1>3. ASSUME NEW j \in S PROVE i <= j
  <2>1. <<j, i>> \in R <=> j < i
    BY DEF R
  <2> QED BY <1>2, <2>1
<1> QED BY <1>3 DEF Min

(* The later of two instants.                                              *)
LEMMA LaterOfTwo ==
  ASSUME NEW a \in Int, NEW b \in Int
  PROVE  Later(a, b) = IF a >= b THEN a ELSE b
<1> DEFINE m == IF a >= b THEN a ELSE b
<1>1. m \in {a, b} /\ \A y \in {a, b} : m >= y
  OBVIOUS
<1>2. \A x \in {a, b} : (\A y \in {a, b} : x >= y) => x = m
  OBVIOUS
<1> QED BY <1>1, <1>2 DEF Later, Max

(* A finite set of integers that is not empty has a greatest element.      *)
LEMMA Greatest ==
  ASSUME NEW S, S \subseteq Int, IsFiniteSet(S), S # {}
  PROVE  Max(S) \in S /\ \A y \in S : Max(S) >= y
<1> DEFINE Bounded(T) == T # {} => \E m \in T : \A y \in T : m >= y
           Sized(n) == {T \in SUBSET S : IsFiniteSet(T) /\ Cardinality(T) = n}
           Done == {n \in Nat : \A T \in Sized(n) : Bounded(T)}
           Undone == Nat \ Done
<1>1. ASSUME Undone # {} PROVE FALSE
  <2>1. PICK n \in Undone : \A k \in Undone : n <= k
    <3>1. Undone \subseteq Nat
      OBVIOUS
    <3> HIDE DEF Undone
    <3>2. Min(Undone) \in Undone /\ \A k \in Undone : Min(Undone) <= k
      BY <1>1, <3>1, Smallest
    <3> QED BY <3>2
  <2>2. PICK T \in Sized(n) : ~Bounded(T)
    BY <2>1
  <2>3. PICK x \in T : TRUE
    BY <2>2
  <2>4. T \ {x} \in Sized(n - 1) /\ n - 1 \in Nat
    <3>1. IsFiniteSet(T) /\ Cardinality(T) = n /\ T \in SUBSET S
      BY <2>2
    <3>2. IsFiniteSet(T \ {x}) /\ Cardinality(T \ {x}) = n - 1
      BY <3>1, <2>3, FS_RemoveElement
    <3>3. n - 1 \in Nat
      BY <3>2, FS_CardinalityType
    <3>4. T \ {x} \in SUBSET S
      BY <3>1
    <3> QED BY <3>2, <3>3, <3>4
  <2>5. Bounded(T \ {x})
    BY <2>1, <2>4
  <2>6. CASE T \ {x} = {}
    <3>1. \A y \in T : x >= y
      BY <2>6, <2>3, <2>2
    <3> QED BY <3>1, <2>2, <2>3
  <2>7. CASE T \ {x} # {}
    <3>1. PICK m \in T \ {x} : \A y \in T \ {x} : m >= y
      BY <2>5, <2>7
    <3>2. m \in Int /\ x \in Int
      BY <2>2, <2>3
    <3>3. CASE m >= x
      BY <3>1, <3>2, <3>3, <2>2, <2>3
    <3>4. CASE x > m
      BY <3>1, <3>2, <3>4, <2>2, <2>3
    <3> QED BY <3>2, <3>3, <3>4
  <2> QED BY <2>6, <2>7
<1>2. Cardinality(S) \in Nat /\ S \in Sized(Cardinality(S))
  BY FS_CardinalityType
<1>3. Bounded(S)
  BY <1>1, <1>2
<1> QED BY <1>3 DEF Max

(***************************************************************************)
(* Lists of arrivals.                                                      *)
(***************************************************************************)
(* A list that is not empty has a front, before all the others.            *)
LEMMA FrontInList ==
  ASSUME NEW V, V \subseteq Nat, NEW A \in SUBSET [time : Nat, veh : V], A # {}
  PROVE  FrontOf(A) \in A /\ \A b \in A : FrontOf(A).time <= b.time
<1> DEFINE T == {a.time : a \in A}
           t == Min(T)
           W == {a.veh : a \in {b \in A : b.time = t}}
           w == Min(W)
<1>1. t \in T /\ \A j \in T : t <= j
  <2>1. T \subseteq Nat /\ T # {}
    OBVIOUS
  <2> HIDE DEF T
  <2> QED BY <2>1, Smallest
<1>2. w \in W /\ \A j \in W : w <= j
  <2>1. W \subseteq Nat /\ W # {}
    BY <1>1
  <2> HIDE DEF W
  <2> QED BY <2>1, Smallest
<1>3. PICK a \in A : a.time = t /\ a.veh = w
  BY <1>2
<1>4. ASSUME NEW b \in A \ {a} PROVE Before(a, b)
  <2>1. a = [time |-> a.time, veh |-> a.veh] /\ b = [time |-> b.time, veh |-> b.veh]
    OBVIOUS
  <2>2. t <= b.time /\ b.time \in Nat /\ b.veh \in Nat /\ t \in Nat /\ w \in Nat
    BY <1>1, <1>2
  <2>3. CASE b.time = t
    <3>1. w <= b.veh
      BY <1>2, <2>3
    <3>2. w # b.veh
      BY <2>1, <2>3, <1>3, <1>4
    <3> HIDE DEF t, w
    <3> QED BY <3>1, <3>2, <2>3, <2>2, <1>3 DEF Before
  <2>4. CASE b.time # t
    <3> HIDE DEF t, w
    <3> QED BY <2>2, <2>4, <1>3 DEF Before
  <2> QED BY <2>3, <2>4
<1> HIDE DEF t, w
<1>5. FrontOf(A) \in A /\ \A b \in A \ {FrontOf(A)} : Before(FrontOf(A), b)
  BY <1>3, <1>4 DEF FrontOf
<1>6. ASSUME NEW b \in A PROVE FrontOf(A).time <= b.time
  BY <1>5 DEF Before
<1> QED BY <1>5, <1>6

(* The first of a list, or nobody.                                         *)
LEMMA MinArrivalType ==
  ASSUME NEW V, V \subseteq Nat, NEW A \in SUBSET [time : Nat, veh : V]
  PROVE  MinArrival(A) \in [time : Nat, veh : V \cup {0}]
<1>1. Nobody \in [time : Nat, veh : V \cup {0}]
  BY DEF Nobody, Never
<1>2. [time : Nat, veh : V] \subseteq [time : Nat, veh : V \cup {0}]
  OBVIOUS
<1>3. A # {} => FrontOf(A) \in A
  BY FrontInList
<1> QED BY <1>1, <1>2, <1>3 DEF MinArrival

(* The instants of a finite list are finite.                               *)
LEMMA FiniteTimes ==
  ASSUME NEW V, NEW A \in SUBSET [time : Nat, veh : V], IsFiniteSet(A)
  PROVE  IsFiniteSet({a.time : a \in A})
<1> DEFINE T == {a.time : a \in A}
           f == [a \in A |-> a.time]
<1>1. f \in Surjection(A, T)
  BY DEF Surjection
<1> HIDE DEF T, f
<1>2. IsFiniteSet(T)
  BY <1>1, FS_Surjection
<1> QED BY <1>2 DEF T

(* The latest instant of a list.                                           *)
LEMMA LastTimeOfList ==
  ASSUME NEW V, NEW A \in SUBSET [time : Nat, veh : V], IsFiniteSet(A)
  PROVE  /\ LastTime(A) \in Int /\ LastTime(A) >= -1
         /\ A = {} => LastTime(A) = -1
         /\ A # {} => \E a \in A : LastTime(A) = a.time
<1> DEFINE T == {a.time : a \in A}
           S == {-1} \cup T
<1>1. IsFiniteSet(T)
  BY FiniteTimes
<1>2. IsFiniteSet(S)
  <2> HIDE DEF T
  <2>1. IsFiniteSet(T \cup {-1})
    BY <1>1, FS_AddElement
  <2> QED BY <2>1
<1>3. S \subseteq Int /\ S # {} /\ -1 \in S
  OBVIOUS
<1>4. Max(S) \in S /\ \A y \in S : Max(S) >= y
  <2> HIDE DEF S
  <2> QED BY <1>2, <1>3, Greatest
<1>5. LastTime(A) = Max(S)
  BY DEF LastTime
<1>6. A # {} => Max(S) # -1
  BY <1>4
<1> HIDE DEF S
<1> QED BY <1>3, <1>4, <1>5, <1>6 DEF S

(* A vehicle is added at the end of a list.                                *)
LEMMA AddedLast ==
  ASSUME NEW V, NEW W, V \subseteq W,
         NEW A \in SUBSET [time : Nat, veh : V], IsFiniteSet(A),
         NEW t \in Nat, NEW v \in W
  PROVE  /\ AddLast(A, t, v) \in SUBSET [time : Nat, veh : W]
         /\ IsFiniteSet(AddLast(A, t, v))
         /\ VehsOf(AddLast(A, t, v)) = VehsOf(A) \cup {v}
         /\ SingleIn(A) /\ v \notin VehsOf(A) => SingleIn(AddLast(A, t, v))
         /\ A \subseteq AddLast(A, t, v)
         /\ A = {} => AddLast(A, t, v) = {[time |-> t, veh |-> v]}
<1> DEFINE b == [time |-> Later(t, LastTime(A)), veh |-> v]
<1>1. Later(t, LastTime(A)) \in Nat /\ (A = {} => Later(t, LastTime(A)) = t)
  <2>1. LastTime(A) \in Int /\ (A = {} => LastTime(A) = -1)
    BY LastTimeOfList
  <2> HIDE DEF b
  <2> QED BY <2>1, LaterOfTwo
<1>2. b \in [time : Nat, veh : W] /\ b.veh = v
  BY <1>1
<1>3. AddLast(A, t, v) = A \cup {b}
  BY DEF AddLast
<1>4. A = {} => b = [time |-> t, veh |-> v]
  BY <1>1
<1> HIDE DEF b
<1>5. [time : Nat, veh : V] \subseteq [time : Nat, veh : W]
  OBVIOUS
<1>6. IsFiniteSet(A \cup {b})
  BY FS_AddElement
<1>7. VehsOf(A \cup {b}) = VehsOf(A) \cup {v}
  BY <1>2 DEF VehsOf
<1>8. SingleIn(A) /\ v \notin VehsOf(A) => SingleIn(A \cup {b})
  BY <1>2 DEF SingleIn, VehsOf
<1> QED BY <1>2, <1>3, <1>4, <1>5, <1>6, <1>7, <1>8

(* A record of a list gets another time.                                   *)
LEMMA RecordMoved ==
  ASSUME NEW A, IsFiniteSet(A), NEW a \in A, NEW b, b.veh = a.veh, SingleIn(A)
  PROVE  /\ IsFiniteSet((A \ {a}) \cup {b})
         /\ VehsOf((A \ {a}) \cup {b}) = VehsOf(A)
         /\ SingleIn((A \ {a}) \cup {b})
<1>1. IsFiniteSet(A \ {a})
  BY FS_RemoveElement
<1>2. IsFiniteSet((A \ {a}) \cup {b})
  BY <1>1, FS_AddElement
<1>3. VehsOf((A \ {a}) \cup {b}) = VehsOf(A)
  BY DEF VehsOf
<1>4. SingleIn((A \ {a}) \cup {b})
  BY DEF SingleIn
<1> QED BY <1>2, <1>3, <1>4

(* The vehicles behind the one that passes.                                *)
LEMMA RestOfList ==
  ASSUME NEW V, NEW A \in SUBSET [time : Nat, veh : V], IsFiniteSet(A),
         NEW a \in A, SingleIn(A), now \in Nat
  PROVE  /\ Delayed(A \ {a}) \in SUBSET [time : Nat, veh : V]
         /\ IsFiniteSet(Delayed(A \ {a}))
         /\ VehsOf(Delayed(A \ {a})) = VehsOf(A) \ {a.veh}
         /\ SingleIn(Delayed(A \ {a}))
<1> DEFINE B == A \ {a}
           d(b) == [b EXCEPT !.time = Later(@, now + Headway)]
           f == [b \in B |-> d(b)]
           D == {d(b) : b \in B}
<1>1. ASSUME NEW b \in B
      PROVE  d(b) \in [time : Nat, veh : V] /\ d(b).veh = b.veh
  <2>1. b \in [time : Nat, veh : V]
    OBVIOUS
  <2>2. now + Headway \in Nat
    BY ClockAssumption
  <2>3. Later(b.time, now + Headway) \in Nat
    BY <2>1, <2>2, LaterOfTwo
  <2>4. d(b) = [time |-> Later(b.time, now + Headway), veh |-> b.veh]
    BY <2>1
  <2> HIDE DEF d
  <2> QED BY <2>1, <2>3, <2>4
<1>2. Delayed(B) = D
  BY DEF Delayed
<1>3. IsFiniteSet(B)
  BY FS_RemoveElement
<1>4. f \in Surjection(B, D)
  <2> HIDE DEF d
  <2> QED BY DEF Surjection
<1> HIDE DEF d
<1>5. IsFiniteSet(D)
  <2> HIDE DEF f, D, B
  <2> QED BY <1>3, <1>4, FS_Surjection
<1>6. VehsOf(D) = VehsOf(A) \ {a.veh}
  BY <1>1 DEF VehsOf, SingleIn
<1>7. SingleIn(D)
  BY <1>1 DEF SingleIn
<1>8. D \in SUBSET [time : Nat, veh : V]
  BY <1>1
<1> HIDE DEF D
<1> QED BY <1>2, <1>5, <1>6, <1>7, <1>8

(***************************************************************************)
(* Itineraries.                                                            *)
(***************************************************************************)
(* Where a vehicle goes from the list it is in.                            *)
LEMMA NextOfVehicle ==
  ASSUME TypeOK, OnRoute, NEW k \in Keys, NEW v \in Arrivals(k)
  PROVE  /\ k \in Nodes => /\ k \in Entries /\ k \notin Links
                           /\ NextLink(v, k) = route[v][1]
                           /\ NextLink(v, k) \in MesoLinks /\ Up[NextLink(v, k)] = k
         /\ k \in Links => /\ k \in MesoLinks
                           /\ \/ NextLink(v, k) = Down[k]
                              \/ NextLink(v, k) \in Links /\ Up[NextLink(v, k)] = Down[k]
         /\ NextLink(v, k) \in Links =>
              \E i \in DOMAIN route[v] : route[v][i] = NextLink(v, k)
<1>1. v \in Vehicles /\ route[v] \in Routes
  <2>1. arrivals[k] \in SUBSET [time : Nat, veh : Vehicles] /\ route \in Seq(Routes)
    BY DEF TypeOK
  <2> QED BY <2>1 DEF Arrivals, Vehicles
<1>2. route[v] \in Seq(Links) /\ Len(route[v]) > 0 /\ route[v][1] \in MesoLinks
  BY <1>1, NetworkAssumption
<1>3. CASE k \in Nodes
  <2>1. NextLink(v, k) = route[v][1] /\ k \in Entries /\ Up[route[v][1]] = k
    BY <1>3 DEF NextLink, OnRoute
  <2>2. k \notin Links
    BY <1>3, NetworkAssumption
  <2>3. 1 \in DOMAIN route[v]
    BY <1>2
  <2> QED BY <1>2, <2>1, <2>2, <2>3
<1>4. CASE k \in Links
  <2> DEFINE i == CHOOSE j \in DOMAIN route[v] : route[v][j] = k
  <2>1. k \in MesoLinks /\ k \notin Nodes
    BY <1>4, NetworkAssumption DEF OnRoute
  <2>2. i \in DOMAIN route[v] /\ route[v][i] = k
    BY <1>4 DEF OnRoute
  <2>3. NextLink(v, k) = IF i = Len(route[v]) THEN Down[k] ELSE route[v][i + 1]
    BY <2>1 DEF NextLink
  <2> HIDE DEF i
  <2>4. i \in 1 .. Len(route[v]) /\ Len(route[v]) \in Nat
    BY <1>2, <2>2
  <2>5. ASSUME i # Len(route[v])
        PROVE  /\ route[v][i + 1] \in Links /\ Up[route[v][i + 1]] = Down[k]
               /\ i + 1 \in DOMAIN route[v]
    <3>1. i \in 1 .. Len(route[v]) - 1 /\ i + 1 \in 1 .. Len(route[v])
      BY <2>4, <2>5
    <3>2. Down[route[v][i]] = Up[route[v][i + 1]]
      BY <1>1, <3>1, NetworkAssumption
    <3>3. route[v][i + 1] \in Links
      BY <1>2, <3>1, ElementOfSeq
    <3> QED BY <3>1, <3>2, <3>3, <2>2, <1>2
  <2>6. k \notin Nodes /\ Down[k] \notin Links
    BY <2>1, <1>4, NetworkAssumption
  <2> QED BY <2>1, <2>3, <2>5, <2>6, <1>4
<1> QED BY <1>3, <1>4 DEF Keys

(***************************************************************************)
(* A passage: the vehicle enters a link, is refused, or leaves the         *)
(* mesoscopic network.                                                     *)
(***************************************************************************)
Passing(u, a, d) ==
  /\ u = via[node] /\ a = nextArrival[u] /\ d = NextLink(a.veh, u)
  /\ u \in Keys /\ a \in arrivals[u] /\ a.time = now /\ a.veh \in Vehicles
  /\ d \in Links => \E i \in DOMAIN route[a.veh] : route[a.veh][i] = d
  /\ u \in Nodes => d = route[a.veh][1]
  /\ \/ u = node /\ u \in Entries /\ u \notin Links /\ d \in MesoLinks /\ Up[d] = node
     \/ /\ u \in MesoLinks /\ u \notin Nodes /\ Down[u] = node
        /\ d = node \/ (d \in Links /\ Up[d] = node)
  /\ d # u
  /\ stage = "passage" /\ stage' = "nodes"
  /\ UNCHANGED <<inst, now, node, event, via, route>>
  /\ left' = [left EXCEPT ![u] = Append(@, [time |-> now, veh |-> a.veh])]

Inserted(u, a, d) ==
  LET rest == Delayed(arrivals[u] \ {a})
      arrived == AddLast(arrivals[d], now + TravelTime[d], a.veh)
  IN  /\ d \in MesoLinks /\ (u \in Entries => CanInsert(a.veh, d))
      /\ entered' = [entered EXCEPT ![d] = Append(@, [time |-> now, veh |-> a.veh])]
      /\ supply' = [supply EXCEPT ![d] = NextSupplyTime(d, Rank(d) + 1)]
      /\ arrivals' = [arrivals EXCEPT ![u] = rest, ![d] = arrived]
      /\ nextArrival' = [nextArrival EXCEPT ![u] = MinArrival(rest),
                                            ![d] = MinArrival(arrived)]
      /\ todo' = todo \o <<node, Down[d]>>
      /\ on' = [l \in MesoLinks |-> IF l = u THEN on[l] \ {a.veh}
                                    ELSE IF l = d THEN on[l] \cup {a.veh} ELSE on[l]]
      /\ waiting' = IF u \in Entries THEN [waiting EXCEPT ![d] = Tail(@)] ELSE waiting
      /\ gone' = gone

Refused(u, a, d) ==
  LET rest == Delayed(arrivals[u] \ {a})
  IN  /\ d \in MesoLinks /\ u \in Entries
      /\ supply' = [supply EXCEPT ![d] = NextSupplyTime(d, Rank(d))]
      /\ arrivals' = [arrivals EXCEPT ![u] = rest \cup {a}]
      /\ nextArrival' = [nextArrival EXCEPT ![u] = MinArrival(rest)]
      /\ todo' = Append(todo, node)
      /\ UNCHANGED <<entered, on, waiting, gone>>

Departed(u, a, d) ==
  LET rest == Delayed(arrivals[u] \ {a})
  IN  /\ d \notin MesoLinks /\ u \in MesoLinks /\ u \notin Entries
      /\ \E s \in Nat \cup {AnyTime} : supply' = [supply EXCEPT ![d] = s]
      /\ gone' = gone \cup {a.veh}
      /\ arrivals' = [arrivals EXCEPT ![u] = rest]
      /\ nextArrival' = [nextArrival EXCEPT ![u] = MinArrival(rest)]
      /\ todo' = Append(todo, node)
      /\ on' = [l \in MesoLinks |-> IF l = u THEN on[l] \ {a.veh} ELSE on[l]]
      /\ UNCHANGED <<entered, waiting>>

(* A passage lets a vehicle in, refuses it or lets it leave.               *)
LEMMA PassageCases ==
  ASSUME NoLoops, IInv, Passage
  PROVE  \E u, a, d : Passing(u, a, d) /\ (Inserted(u, a, d) \/ Refused(u, a, d)
                                             \/ Departed(u, a, d))
<1> DEFINE u == via[node]
           a == nextArrival[u]
           d == NextLink(a.veh, u)
<1>1. node \in Nodes /\ u \in Incoming(node) \cup {node} /\ u \in Keys
  BY DEF IInv, TypeOK
<1>2. a \in arrivals[u] /\ a.time = now
  BY <1>1 DEF IInv, Passage, Current, Scheduled, Pending
<1>3. a.veh \in Vehicles /\ a.veh \in Arrivals(u)
  BY <1>1, <1>2 DEF IInv, TypeOK, Arrivals
<1>4. /\ u \in Nodes => /\ u \in Entries /\ u \notin Links
                        /\ d \in MesoLinks /\ Up[d] = u /\ d = route[a.veh][1]
      /\ u \in Links => /\ u \in MesoLinks
                        /\ d = Down[u] \/ (d \in Links /\ Up[d] = Down[u])
      /\ d \in Links => \E i \in DOMAIN route[a.veh] : route[a.veh][i] = d
  BY <1>1, <1>3, NextOfVehicle DEF IInv, Places
<1>5. u = node \/ (u \in Links /\ Down[u] = node)
  BY <1>1 DEF Incoming, InLinks
<1>6. Nodes \cap Links = {} /\ MesoLinks \subseteq Links /\ Entries \subseteq Nodes
  BY NetworkAssumption DEF MesoLinks, Entries
<1>7. u = node \/ u \notin Nodes
  BY <1>5, <1>6
<1>8. d # u
  BY <1>1, <1>4, <1>5, <1>6 DEF NoLoops
<1>9. Passing(u, a, d)
  <2> HIDE DEF u, a, d
  <2>1. /\ stage = "passage" /\ stage' = "nodes"
        /\ UNCHANGED <<inst, now, node, event, via, route>>
        /\ left' = [left EXCEPT ![u] = Append(@, [time |-> now, veh |-> a.veh])]
    BY DEF Passage, u, a, d
  <2>2. u = via[node] /\ a = nextArrival[u] /\ d = NextLink(a.veh, u)
    BY DEF u, a, d
  <2>3. u \in Nodes => u = node
    BY <1>7
  <2>4. \/ u = node /\ u \in Entries /\ u \notin Links /\ d \in MesoLinks /\ Up[d] = node
        \/ /\ u \in MesoLinks /\ u \notin Nodes /\ Down[u] = node
           /\ d = node \/ (d \in Links /\ Up[d] = node)
    BY <1>1, <1>4, <1>5, <1>6, <2>3
  <2> QED BY <1>1, <1>2, <1>3, <1>4, <1>8, <2>1, <2>2, <2>4 DEF Passing
<1> DEFINE rest == Delayed(arrivals[u] \ {a})
           inserted == u \in Entries => CanInsert(a.veh, d)
<1>10. /\ on' = [l \in MesoLinks |-> IF l = u THEN on[l] \ {a.veh}
                                     ELSE IF l = d /\ inserted THEN on[l] \cup {a.veh}
                                     ELSE on[l]]
       /\ waiting' = IF u \in Entries /\ inserted
                     THEN [waiting EXCEPT ![d] = Tail(@)] ELSE waiting
       /\ \/ d \in MesoLinks /\ EnterMeso(a.veh, d, u, inserted, rest)
          \/ d \in MicroLinks /\ Leave(a.veh, d, u, rest, {Later(s, supply[d]) :
                                         s \in {Never, AnyTime, now + Headway}})
          \/ d \in Nodes /\ Leave(a.veh, d, u, rest, {now + ExitHeadway})
  BY DEF Passage
<1> HIDE DEF u, a, d, rest, inserted
<1>11. CASE d \in MesoLinks /\ inserted
  <2>1. EnterMeso(a.veh, d, u, inserted, rest)
    BY <1>10, <1>11, <1>6 DEF MesoLinks
  <2>2. Inserted(u, a, d)
    BY <2>1, <1>10, <1>11 DEF EnterMeso, Inserted, NodesAround, rest, inserted
  <2> QED BY <1>9, <2>2
<1>12. CASE d \in MesoLinks /\ ~inserted
  <2>1. EnterMeso(a.veh, d, u, inserted, rest)
    BY <1>10, <1>12, <1>6 DEF MesoLinks
  <2>2. u \in Entries /\ u \notin MesoLinks
    BY <1>12, <1>6 DEF inserted
  <2>3. on' = on
    BY <1>10, <1>12, <2>2 DEF IInv, TypeOK
  <2>4. nextArrival[u] = a
    BY DEF a
  <2>5. Refused(u, a, d)
    BY <2>1, <2>2, <2>3, <2>4, <1>10, <1>12
    DEF EnterMeso, Refused, RestoredArrivals, rest
  <2> QED BY <1>9, <2>5
<1>13. CASE d \notin MesoLinks
  <2>1. u \in MesoLinks /\ u \notin Entries
    BY <1>1, <1>4, <1>5, <1>6, <1>13
  <2>2. inserted
    BY <2>1 DEF inserted
  <2>3. supply[d] \in Nat \cup {AnyTime}
    BY <1>1, <1>4, <1>5, <2>1, <1>6 DEF IInv, TypeOK, Keys
  <2>4. now \in Nat
    BY DEF IInv, TypeOK
  <2>5. \E supplies : Leave(a.veh, d, u, rest, supplies) /\ supplies \subseteq Nat \cup {AnyTime}
    <3>1. now + ExitHeadway \in Nat /\ now + Headway \in Nat
      BY <2>4, ClockAssumption
    <3>2. \A s \in {Never, AnyTime, now + Headway} : Later(s, supply[d]) \in Nat \cup {AnyTime}
      <4>1. ASSUME NEW s \in {Never, AnyTime, now + Headway}
            PROVE  Later(s, supply[d]) \in Nat \cup {AnyTime}
        <5>1. s \in Nat \cup {AnyTime}
          BY <3>1 DEF Never
        <5>2. s \in Int /\ supply[d] \in Int
          BY <5>1, <2>3 DEF AnyTime
        <5>3. Later(s, supply[d]) \in {s, supply[d]}
          BY <5>2, LaterOfTwo
        <5> QED BY <5>1, <5>3, <2>3
      <4> QED BY <4>1
    <3> QED BY <1>10, <1>13, <3>1, <3>2
  <2>6. on' = [l \in MesoLinks |-> IF l = u THEN on[l] \ {a.veh} ELSE on[l]]
    BY <1>10, <1>13
  <2>7. Departed(u, a, d)
    BY <2>1, <2>5, <2>6, <1>10, <1>13 DEF Leave, Departed, rest
  <2> QED BY <1>9, <2>7
<1> QED BY <1>11, <1>12, <1>13

(***************************************************************************)
(* Instants.                                                               *)
(***************************************************************************)
(* The earliest event.                                                     *)
LEMMA EarliestEvent ==
  ASSUME TypeOK
  PROVE  /\ NextEvent \in Nat /\ \A n \in Nodes : NextEvent <= event[n]
         /\ \E n \in Nodes : event[n] = NextEvent
<1> DEFINE S == {event[n] : n \in Nodes}
<1>1. S \subseteq Nat /\ S # {}
  BY NetworkAssumption DEF TypeOK
<1> HIDE DEF S
<1>2. Min(S) \in S /\ \A j \in S : Min(S) <= j
  BY <1>1, Smallest
<1>3. NextEvent = Min(S)
  BY DEF NextEvent, S
<1> QED BY <1>1, <1>2, <1>3 DEF S

(* When the end of a link is free for a vehicle of some rank.              *)
LEMMA DownstreamType ==
  ASSUME TypeOK, NEW l \in MesoLinks, NEW rank \in Nat
  PROVE  /\ DownstreamTime(l, rank) \in Nat \cup {AnyTime}
         /\ \/ DownstreamTime(l, rank) = AnyTime /\ rank - Storage[l] <= 1
            \/ DownstreamTime(l, rank) = Never /\ rank - Storage[l] >= Len(left[l])
            \/ \E i \in 1 .. Len(left[l]) :
                 DownstreamTime(l, rank) = left[l][i].time + Wave[l]
<1>1. /\ l \in Links /\ l \in Keys /\ left[l] \in Seq(Records)
      /\ Storage[l] \in Nat /\ Wave[l] \in Nat
  BY NetworkAssumption DEF TypeOK, MesoLinks, Keys, Records
<1> DEFINE ref == rank - Storage[l]
<1>2. ref \in Int /\ Len(left[l]) \in Nat
  BY <1>1
<1>3. DownstreamTime(l, rank) = IF ref <= 1 THEN AnyTime
                                ELSE IF ref >= Len(left[l]) THEN Never
                                ELSE left[l][ref].time + Wave[l]
  BY DEF DownstreamTime
<1>4. CASE ref > 1 /\ ref < Len(left[l])
  <2>1. ref \in 1 .. Len(left[l])
    BY <1>2, <1>4
  <2>2. left[l][ref] \in Records
    BY <1>1, <2>1, ElementOfSeq
  <2>3. left[l][ref].time + Wave[l] \in Nat
    BY <1>1, <2>2 DEF Records
  <2>4. DownstreamTime(l, rank) = left[l][ref].time + Wave[l]
    BY <1>2, <1>3, <1>4
  <2> QED BY <2>1, <2>3, <2>4
<1>5. CASE ref <= 1
  BY <1>3, <1>5
<1>6. CASE ref > 1 /\ ref >= Len(left[l])
  BY <1>3, <1>6, <1>2 DEF Never
<1> QED BY <1>2, <1>4, <1>5, <1>6

(* The supply time of a link after a passage.                              *)
LEMMA SupplyType ==
  ASSUME TypeOK, NEW l \in MesoLinks, NEW rank \in Nat
  PROVE  /\ NextSupplyTime(l, rank) \in Nat
         /\ NextSupplyTime(l, rank) >= now + Headway
         /\ \/ NextSupplyTime(l, rank) = now + Headway
            \/ NextSupplyTime(l, rank) = DownstreamTime(l, rank)
<1> DEFINE t == IF left[l] = <<>> THEN AnyTime ELSE DownstreamTime(l, rank)
<1>1. now + Headway \in Nat
  BY ClockAssumption DEF TypeOK
<1>2. t \in Nat \cup {AnyTime} /\ (t # AnyTime => t = DownstreamTime(l, rank))
  BY DownstreamType
<1>3. NextSupplyTime(l, rank) = Later(now + Headway, t)
  BY DEF NextSupplyTime
<1> HIDE DEF t
<1>4. t \in Int /\ (t = AnyTime => t < now + Headway)
  BY <1>1, <1>2 DEF AnyTime
<1>5. NextSupplyTime(l, rank) = IF now + Headway >= t THEN now + Headway ELSE t
  BY <1>1, <1>3, <1>4, LaterOfTwo
<1> QED BY <1>1, <1>2, <1>4, <1>5

(* Somebody on a link has entered it.                                      *)
LEMMA SomebodyEntered ==
  ASSUME TypeOK, OnLinks, Counted, NEW l \in MesoLinks, arrivals[l] # {}
  PROVE  Rank(l) \in Nat \ {0} /\ entered[l][Rank(l)] \in Records
<1>1. on[l] # {} /\ IsFiniteSet(on[l])
  <2>1. PICK a \in arrivals[l] : TRUE
    OBVIOUS
  <2>2. a.veh \in Arrivals(l)
    BY DEF Arrivals
  <2>3. on[l] = Arrivals(l)
    BY DEF OnLinks
  <2> QED BY <2>2, <2>3 DEF Counted
<1>2. Cardinality(on[l]) \in Nat /\ Cardinality(on[l]) # 0
  BY <1>1, FS_EmptySet, FS_CardinalityType
<1>3. entered[l] \in Seq(Records) /\ left[l] \in Seq(Records)
  BY DEF TypeOK, MesoLinks, Keys, Records
<1>4. Len(entered[l]) \in Nat /\ Len(left[l]) \in Nat
  BY <1>3
<1>5. Len(entered[l]) \in 1 .. Len(entered[l])
  <2>1. Cardinality(on[l]) = Len(entered[l]) - Len(left[l])
    BY DEF Counted
  <2> QED BY <1>2, <1>4, <2>1
<1> QED BY <1>3, <1>5, ElementOfSeq DEF Rank

(* A supply time computed later.                                           *)
LEMMA PostponedType ==
  ASSUME TypeOK, OnLinks, Counted, NEW l \in MesoLinks
  PROVE  /\ PostponedSupply(l) \in Nat \cup {AnyTime}
         /\ arrivals[l] # {} =>
              /\ entered[l][Rank(l)].time + Headway \in Nat
              /\ PostponedSupply(l) >= entered[l][Rank(l)].time + Headway
              /\ \/ PostponedSupply(l) = entered[l][Rank(l)].time + Headway
                 \/ PostponedSupply(l) = DownstreamTime(l, Rank(l))
<1>1. CASE arrivals[l] = {}
  BY <1>1 DEF PostponedSupply
<1>2. CASE arrivals[l] # {}
  <2> DEFINE s == entered[l][Rank(l)].time + Headway
             t == DownstreamTime(l, Rank(l))
  <2>1. Rank(l) \in Nat /\ s \in Nat
    BY <1>2, SomebodyEntered, ClockAssumption DEF Records
  <2>2. t \in Nat \cup {AnyTime}
    BY <2>1, DownstreamType
  <2>3. PostponedSupply(l) = Later(s, t)
    BY <1>2 DEF PostponedSupply
  <2> HIDE DEF s, t
  <2>4. t \in Int /\ (t = AnyTime => t < s)
    BY <2>1, <2>2 DEF AnyTime
  <2>5. PostponedSupply(l) = IF s >= t THEN s ELSE t
    BY <2>1, <2>3, <2>4, LaterOfTwo
  <2>6. /\ PostponedSupply(l) \in Nat
        /\ s \in Nat /\ PostponedSupply(l) >= s
        /\ PostponedSupply(l) = s \/ PostponedSupply(l) = t
    BY <2>1, <2>2, <2>4, <2>5
  <2> QED BY <2>6, <1>2 DEF s, t
<1> QED BY <1>1, <1>2

(* The supply time of a microscopic link.                                  *)
LEMMA MicroType ==
  ASSUME TypeOK
  PROVE  MicroSupplies \subseteq Nat \cup {AnyTime}
<1> DEFINE s == inst - TimeStep
           t == IF now = Never THEN AnyTime ELSE now
<1>1. s \in Int /\ t \in Nat \cup {AnyTime}
  BY ClockAssumption DEF TypeOK
<1>2. t \in Int /\ t >= -1
  BY <1>1 DEF AnyTime
<1> HIDE DEF s, t
<1>3. Later(s, t) = IF s >= t THEN s ELSE t
  BY <1>1, <1>2, LaterOfTwo
<1>4. Later(s, t) \in Nat \cup {AnyTime}
  BY <1>1, <1>2, <1>3 DEF AnyTime
<1> QED BY <1>4 DEF MicroSupplies, Never, s, t

(* The event of a node towards o.                                          *)
LEMMA LocalEvent ==
  ASSUME TypeOK, NEW n \in Nodes, NEW o \in Outgoing(n)
  PROVE  /\ LocalEventTime(n, o) \in Nat
         /\ \/ LocalEventTime(n, o) = supply[o]
            \/ LocalEventTime(n, o) = Never
            \/ LocalEventTime(n, o) > supply[o]
         /\ \A u \in Candidates(n, o) : /\ u \in Keys /\ FrontOf(arrivals[u]) \in arrivals[u]
                                        /\ FrontOf(arrivals[u]) \in Records
<1>1. o \in Keys /\ supply[o] \in Nat \cup {AnyTime}
  BY DEF Outgoing, OutLinks, Keys, TypeOK
<1>2. Vehicles \subseteq Nat
  BY DEF Vehicles, TypeOK
<1>3. ASSUME NEW u \in Candidates(n, o)
      PROVE  u \in Keys /\ FrontOf(arrivals[u]) \in arrivals[u]
             /\ FrontOf(arrivals[u]) \in Records
  <2>1. u \in Keys /\ arrivals[u] # {}
    BY DEF Candidates, Incoming, InLinks, Keys
  <2>2. arrivals[u] \in SUBSET [time : Nat, veh : Vehicles]
    BY <2>1 DEF TypeOK
  <2>3. FrontOf(arrivals[u]) \in arrivals[u]
    BY <1>2, <2>1, <2>2, FrontInList
  <2> QED BY <2>1, <2>2, <2>3 DEF Records
<1>4. CASE Congested(n, o) # {}
  <2>1. PICK u \in Congested(n, o) : TRUE
    BY <1>4
  <2>2. u \in Candidates(n, o) /\ FrontOf(arrivals[u]).time <= supply[o]
    BY <2>1 DEF Congested
  <2>3. FrontOf(arrivals[u]).time \in Nat
    BY <1>3, <2>2 DEF Records
  <2>4. supply[o] \in Nat
    BY <1>1, <2>2, <2>3 DEF AnyTime
  <2> QED BY <1>3, <1>4, <2>4 DEF LocalEventTime
<1>5. CASE Congested(n, o) = {}
  <2> DEFINE S == {Never} \cup {Arrival(u) : u \in Candidates(n, o)}
  <2>1. S \subseteq Nat /\ S # {}
    BY <1>3 DEF Arrival, Never, Records
  <2>2. LocalEventTime(n, o) = Min(S)
    BY <1>5 DEF LocalEventTime
  <2> HIDE DEF S
  <2>3. Min(S) \in S
    BY <2>1, Smallest
  <2>4. CASE Min(S) = Never
    BY <1>3, <2>2, <2>4 DEF Never
  <2>5. CASE \E u \in Candidates(n, o) : Min(S) = Arrival(u)
    <3>1. PICK u \in Candidates(n, o) : Min(S) = Arrival(u)
      BY <2>5
    <3>2. Arrival(u) = FrontOf(arrivals[u]).time /\ Arrival(u) \in Nat
      BY <1>3 DEF Arrival, Records
    <3>3. ~(Arrival(u) <= supply[o])
      BY <1>5, <3>2 DEF Congested
    <3>4. Arrival(u) > supply[o]
      BY <3>2, <3>3, <1>1 DEF AnyTime
    <3> QED BY <1>3, <2>2, <3>1, <3>2, <3>4
  <2> QED BY <2>3, <2>4, <2>5 DEF S
<1> QED BY <1>4, <1>5

(* An event is never in the past.                                          *)
LEMMA EventType ==
  ASSUME TypeOK, NEW n \in Nodes, NEW o \in Outgoing(n)
  PROVE  /\ EventTime(n, o) \in Nat /\ EventTime(n, o) >= LocalEventTime(n, o)
         /\ EventTime(n, o) \in {LocalEventTime(n, o), now}
<1>1. LocalEventTime(n, o) \in Nat /\ now \in Nat
  BY LocalEvent DEF TypeOK
<1> QED BY <1>1, LaterOfTwo DEF EventTime

(***************************************************************************)
(* Types.                                                                  *)
(***************************************************************************)
LEMMA InitType == Init => TypeOK
<1> SUFFICES ASSUME Init PROVE TypeOK
  OBVIOUS
<1>1. (CHOOSE n \in Nodes : TRUE) \in Nodes
  BY NetworkAssumption
<1>2. IsFiniteSet({})
  BY FS_EmptySet
<1>3. \A S : <<>> \in Seq(S)
  OBVIOUS
<1>4. Vehicles = {}
  BY DEF Init, Vehicles
<1>5. /\ inst \in Nat /\ now \in Nat /\ node \in Nodes /\ todo \in Seq(Nodes)
      /\ event \in [Nodes -> Nat]
  BY <1>1, <1>3 DEF Init, Never
<1>6. via \in [Nodes -> Keys] /\ \A n \in Nodes : via[n] \in Incoming(n) \cup {n}
  BY DEF Init, Keys
<1>7. arrivals \in [Keys -> SUBSET [time : Nat, veh : Vehicles]]
      /\ \A k \in Keys : IsFiniteSet(arrivals[k])
  BY <1>2 DEF Init
<1>8. nextArrival \in [Keys -> [time : Nat, veh : Vehicles \cup {0}]]
  BY DEF Init, Never, Nobody
<1>9. supply \in [Keys -> Nat \cup {AnyTime}]
  BY DEF Init
<1>10. entered \in [Links -> Seq([time : Nat, veh : Vehicles])]
       /\ left \in [Keys -> Seq([time : Nat, veh : Vehicles])]
  BY <1>3 DEF Init
<1>11. on \in [MesoLinks -> SUBSET Vehicles] /\ waiting \in [MesoLinks -> Seq(Vehicles)]
  BY <1>3 DEF Init
<1>12. route \in Seq(Routes) /\ gone \subseteq Vehicles
  BY <1>3 DEF Init
<1>13. stage \in {"call", "decide", "step", "create", "supplies", "passage", "nodes"}
  BY DEF Init
<1> QED BY <1>5, <1>6, <1>7, <1>8, <1>9, <1>10, <1>11, <1>12, <1>13 DEF TypeOK

(* The clock and the choice between a step and an event.                   *)
LEMMA TypeClock ==
  ASSUME TypeOK, Call \/ Decide \/ Step \/ EndStep \/ NodesUpdated
  PROVE  TypeOK'
<1> USE DEF links
<1>1. ASSUME Dispatch
      PROVE  /\ now' \in Nat /\ node' \in Nodes
             /\ stage' \in {"step", "supplies"}
  BY <1>1, EarliestEvent DEF Dispatch, TypeOK
<1>2. CASE Call
  <2>1. now' \in Nat /\ node' \in Nodes /\ stage' \in {"step", "supplies"}
    BY <1>1, <1>2 DEF Call, TypeOK, Never
  <2> QED BY <1>2, <2>1 DEF Call, TypeOK, Vehicles
<1>3. CASE Decide
  BY <1>1, <1>3 DEF Decide, TypeOK, Vehicles
<1>4. CASE Step
  <2>1. inst + TimeStep \in Nat
    BY ClockAssumption DEF TypeOK
  <2> QED BY <1>4, <2>1 DEF Step, TypeOK, Vehicles
<1>5. CASE EndStep
  BY <1>5 DEF EndStep, TypeOK, Vehicles
<1>6. CASE NodesUpdated
  BY <1>6 DEF NodesUpdated, TypeOK, Vehicles
<1> QED BY <1>2, <1>3, <1>4, <1>5, <1>6

(* A vehicle created is a new one.                                         *)
LEMMA Newcomer ==
  ASSUME TypeOK, NEW r \in Routes, route' = Append(route, r)
  PROVE  /\ route' \in Seq(Routes) /\ Len(route') = Len(route) + 1 /\ Len(route) \in Nat
         /\ Vehicles = 1 .. Len(route) /\ Vehicles' = 1 .. Len(route) + 1
         /\ Vehicles \subseteq Vehicles' /\ Len(route) + 1 \in Vehicles' \ Vehicles
         /\ \A v \in Vehicles : route'[v] = route[v]
         /\ route'[Len(route) + 1] = r
BY AppendProperties DEF TypeOK, Vehicles

(* A creation keeps the types.                                             *)
LEMMA TypeCreate ==
  ASSUME TypeOK, NEW r \in Routes, CreateVehicle(r)
  PROVE  TypeOK'
<1> DEFINE e == Up[r[1]]
           v == Len(route) + 1
<1>1. e \in Nodes /\ e \in Keys /\ r[1] \in MesoLinks
  BY NetworkAssumption DEF Entries, Keys
<1>2. route' = Append(route, r)
  BY DEF CreateVehicle
<1>3. Vehicles \subseteq Vehicles' /\ v \in Vehicles' /\ route' \in Seq(Routes)
  BY <1>2, Newcomer
<1>4. inst \in Nat /\ arrivals[e] \in SUBSET [time : Nat, veh : Vehicles]
      /\ IsFiniteSet(arrivals[e])
  BY <1>1 DEF TypeOK
<1>5. /\ AddLast(arrivals[e], inst, v) \in SUBSET [time : Nat, veh : Vehicles']
      /\ IsFiniteSet(AddLast(arrivals[e], inst, v))
  <2> DEFINE V == Vehicles
             W == Vehicles'
             A == arrivals[e]
  <2>1. V \subseteq W /\ v \in W /\ inst \in Nat /\ IsFiniteSet(A)
        /\ A \in SUBSET [time : Nat, veh : V]
    BY <1>3, <1>4
  <2> HIDE DEF V, W, A, e, v
  <2>2. /\ AddLast(A, inst, v) \in SUBSET [time : Nat, veh : W]
        /\ IsFiniteSet(AddLast(A, inst, v))
    BY <2>1, AddedLast
  <2> QED BY <2>2 DEF V, W, A
<1>6. arrivals' = [arrivals EXCEPT ![e] = AddLast(@, inst, v)]
      /\ waiting' = [waiting EXCEPT ![r[1]] = Append(@, v)]
  BY DEF CreateVehicle
<1>7. UNCHANGED <<stage, inst, now, node, todo, links, gone>>
  BY DEF CreateVehicle
<1>8. /\ event' = event \/ event' = [event EXCEPT ![e] = inst]
      /\ via' = via \/ via' = [via EXCEPT ![e] = e]
      /\ \/ nextArrival' = nextArrival
         \/ nextArrival' = [nextArrival EXCEPT ![e] = [time |-> inst, veh |-> v]]
  BY DEF CreateVehicle
<1> HIDE DEF e, v
<1>9. /\ stage' = stage /\ inst' = inst /\ now' = now /\ node' = node /\ todo' = todo
      /\ supply' = supply /\ entered' = entered /\ left' = left /\ on' = on /\ gone' = gone
  BY <1>7 DEF links
<1>10. event' \in [Nodes -> Nat] /\ via' \in [Nodes -> Keys]
       /\ \A n \in Nodes : via'[n] \in Incoming(n) \cup {n}
  <2>1. event \in [Nodes -> Nat] /\ via \in [Nodes -> Keys]
        /\ \A n \in Nodes : via[n] \in Incoming(n) \cup {n}
    BY DEF TypeOK
  <2>2. event' \in [Nodes -> Nat]
    BY <2>1, <1>4, <1>8
  <2>3. via' \in [Nodes -> Keys]
    BY <2>1, <1>1, <1>8
  <2>4. \A n \in Nodes : via'[n] \in Incoming(n) \cup {n}
    BY <2>1, <1>8
  <2> QED BY <2>2, <2>3, <2>4
<1>11. arrivals' \in [Keys -> SUBSET [time : Nat, veh : Vehicles']]
  <2>1. [time : Nat, veh : Vehicles] \subseteq [time : Nat, veh : Vehicles']
    BY <1>3
  <2> QED BY <1>5, <1>6, <2>1 DEF TypeOK
<1>12. \A k \in Keys : IsFiniteSet(arrivals'[k])
  BY <1>1, <1>5, <1>6 DEF TypeOK
<1>13. nextArrival' \in [Keys -> [time : Nat, veh : Vehicles' \cup {0}]]
  <2>1. [time : Nat, veh : Vehicles \cup {0}] \subseteq [time : Nat, veh : Vehicles' \cup {0}]
    BY <1>3
  <2>2. [time |-> inst, veh |-> v] \in [time : Nat, veh : Vehicles' \cup {0}]
    BY <1>3, <1>4
  <2> QED BY <1>8, <2>1, <2>2 DEF TypeOK
<1>14. entered' \in [Links -> Seq([time : Nat, veh : Vehicles'])]
       /\ left' \in [Keys -> Seq([time : Nat, veh : Vehicles'])]
  <2>1. [time : Nat, veh : Vehicles] \subseteq [time : Nat, veh : Vehicles']
    BY <1>3
  <2>2. Seq([time : Nat, veh : Vehicles]) \subseteq Seq([time : Nat, veh : Vehicles'])
    BY <2>1, SeqMonotonic
  <2> QED BY <1>9, <2>2 DEF TypeOK
<1>15. waiting' \in [MesoLinks -> Seq(Vehicles')]
  <2>1. Seq(Vehicles) \subseteq Seq(Vehicles')
    BY <1>3
  <2>2. waiting[r[1]] \in Seq(Vehicles')
    BY <1>1, <2>1 DEF TypeOK
  <2>3. Append(waiting[r[1]], v) \in Seq(Vehicles')
    BY <1>3, <2>2
  <2> QED BY <1>6, <2>1, <2>3 DEF TypeOK
<1>16. on' \in [MesoLinks -> SUBSET Vehicles'] /\ gone' \subseteq Vehicles'
  BY <1>3, <1>9 DEF TypeOK
<1>17. /\ stage' \in {"call", "decide", "step", "create", "supplies", "passage", "nodes"}
       /\ inst' \in Nat /\ now' \in Nat /\ node' \in Nodes /\ todo' \in Seq(Nodes)
       /\ supply' \in [Keys -> Nat \cup {AnyTime}]
  BY <1>9 DEF TypeOK
<1> QED BY <1>3, <1>10, <1>11, <1>12, <1>13, <1>14, <1>15, <1>16, <1>17 DEF TypeOK

(* The nodes whose supply is computed again.                               *)
LEMMA ResuppliedType == Resupplied \in Seq(Nodes)
<1> DEFINE blocked == SetToSeq(Blocked)
           N == Cardinality(Blocked)
<1>1. Blocked \subseteq Links /\ IsFiniteSet(Blocked) /\ N \in Nat
  <2>1. Blocked \subseteq Links
    BY DEF Blocked
  <2> QED BY <2>1, NetworkAssumption, FS_Subset, FS_CardinalityType
<1>2. \E f : f \in Bijection(1 .. N, Blocked)
  BY <1>1, FS_CardinalityType DEF ExistsBijection
<1>3. \E f \in [1 .. N -> Blocked] : IsInjective(f)
  <2>1. PICK f : f \in Bijection(1 .. N, Blocked)
    BY <1>2
  <2>2. f \in [1 .. N -> Blocked] /\ IsInjective(f)
    BY <2>1 DEF Bijection, Injection, IsInjective
  <2> QED BY <2>2
<1>4. blocked \in [1 .. N -> Blocked]
  BY <1>3 DEF SetToSeq
<1> HIDE DEF blocked, N
<1>5. \A i \in 1 .. N : Up[blocked[i]] \in Nodes
  BY <1>1, <1>4, NetworkAssumption
<1>6. Resupplied = [i \in 1 .. N |-> Up[blocked[i]]]
  BY <1>4 DEF Resupplied, blocked
<1>7. [i \in 1 .. N |-> Up[blocked[i]]] \in Seq(Nodes)
  BY <1>1, <1>5, IsASeq
<1> QED BY <1>6, <1>7

(* Supply times computed once more keep the types.                         *)
LEMMA TypeSupplies ==
  ASSUME TypeOK, OnLinks, Counted, Supplies
  PROVE  TypeOK'
<1>1. UNCHANGED <<inst, now, node, event, via, arrivals, entered, left, on, waiting,
                  route, gone>>
  BY DEF Supplies
<1>2. supply' \in [Keys -> Nat \cup {AnyTime}]
  <2>1. PICK micro \in [Blocked \cap MicroLinks -> MicroSupplies] :
           supply' = [l \in DOMAIN supply |->
                        IF l \notin Blocked THEN supply[l]
                        ELSE IF l \in MicroLinks THEN micro[l] ELSE PostponedSupply(l)]
    BY DEF Supplies
  <2>2. \A l \in Blocked \cap MicroLinks : micro[l] \in Nat \cup {AnyTime}
    BY MicroType
  <2>3. \A l \in Blocked \ MicroLinks : PostponedSupply(l) \in Nat \cup {AnyTime}
    BY PostponedType DEF Blocked, MesoLinks
  <2>4. DOMAIN supply = Keys /\ \A k \in Keys : supply[k] \in Nat \cup {AnyTime}
    BY DEF TypeOK
  <2> QED BY <2>1, <2>2, <2>3, <2>4
<1>3. nextArrival' \in [Keys -> [time : Nat, veh : Vehicles \cup {0}]]
  <2>1. Vehicles \subseteq Nat
    BY DEF Vehicles, TypeOK
  <2>2. ASSUME NEW k \in Keys
        PROVE  MinArrival(arrivals[k]) \in [time : Nat, veh : Vehicles \cup {0}]
    BY <2>1, MinArrivalType DEF TypeOK
  <2> QED BY <2>2 DEF Supplies, TypeOK
<1>4. todo' \in Seq(Nodes) /\ stage' \in {"passage", "nodes"}
  BY ResuppliedType DEF Supplies
<1> QED BY <1>1, <1>2, <1>3, <1>4 DEF TypeOK, Vehicles

(* A node that is scheduled keeps the types.                               *)
LEMMA TypeUpdate ==
  ASSUME TypeOK, UpdateNode
  PROVE  TypeOK'
<1> DEFINE n == Head(todo)
<1>1. n \in Nodes /\ n \in Keys /\ Tail(todo) \in Seq(Nodes)
  BY HeadTailProperties DEF TypeOK, UpdateNode, Keys
<1>2. UNCHANGED <<stage, inst, now, node, links, waiting, route, gone>>
      /\ todo' = Tail(todo)
  BY DEF UpdateNode
<1>3. CASE IdleNode(n)
  <2>1. /\ event' = [event EXCEPT ![n] = Never] /\ via' = [via EXCEPT ![n] = n]
        /\ nextArrival' = [nextArrival EXCEPT ![n] = Nobody] /\ arrivals' = arrivals
    BY <1>3 DEF IdleNode
  <2> HIDE DEF n
  <2>2. Never \in Nat /\ Nobody \in [time : Nat, veh : Vehicles \cup {0}]
    BY DEF Never, Nobody
  <2>3. event' \in [Nodes -> Nat]
    BY <1>1, <2>1, <2>2 DEF TypeOK
  <2>4. via' \in [Nodes -> Keys] /\ \A m \in Nodes : via'[m] \in Incoming(m) \cup {m}
    BY <1>1, <2>1 DEF TypeOK
  <2>5. nextArrival' \in [Keys -> [time : Nat, veh : Vehicles \cup {0}]]
    BY <1>1, <2>1, <2>2 DEF TypeOK
  <2> QED BY <1>1, <1>2, <2>1, <2>3, <2>4, <2>5 DEF TypeOK, Vehicles, links
<1>4. ASSUME NEW o \in EventLinks(n), NEW u \in Selected(n, o), ScheduleNode(n, o, u)
      PROVE  TypeOK'
  <2> HIDE DEF n
  <2>1. o \in Outgoing(n) /\ u \in Candidates(n, o)
    BY DEF EventLinks, Selected, Congested
  <2> DEFINE a == FrontOf(arrivals[u])
             b == [a EXCEPT !.time = EventTime(n, o)]
  <2>2. u \in Keys /\ a \in arrivals[u] /\ a \in Records /\ u \in Incoming(n)
    BY <1>1, <2>1, LocalEvent DEF Candidates
  <2>3. EventTime(n, o) \in Nat
    BY <1>1, <2>1, EventType
  <2>4. /\ event' = [event EXCEPT ![n] = b.time] /\ via' = [via EXCEPT ![n] = u]
        /\ arrivals' = [arrivals EXCEPT ![u] = (@ \ {a}) \cup {b}]
        /\ nextArrival' = [nextArrival EXCEPT ![u] = b]
    BY <1>4 DEF ScheduleNode
  <2> HIDE DEF a
  <2>5. b \in Records /\ b.time \in Nat
    BY <2>2, <2>3 DEF Records
  <2> HIDE DEF b
  <2>6. IsFiniteSet((arrivals[u] \ {a}) \cup {b})
    <3>1. IsFiniteSet(arrivals[u])
      BY <2>2 DEF TypeOK
    <3>2. IsFiniteSet(arrivals[u] \ {a})
      BY <3>1, FS_RemoveElement
    <3> QED BY <3>2, FS_AddElement
  <2>7. arrivals' \in [Keys -> SUBSET Records] /\ \A k \in Keys : IsFiniteSet(arrivals'[k])
    BY <2>2, <2>4, <2>5, <2>6 DEF TypeOK, Records
  <2>8. nextArrival' \in [Keys -> [time : Nat, veh : Vehicles \cup {0}]]
    BY <2>2, <2>4, <2>5 DEF TypeOK, Records
  <2>9. event' \in [Nodes -> Nat] /\ via' \in [Nodes -> Keys]
        /\ \A m \in Nodes : via'[m] \in Incoming(m) \cup {m}
    BY <1>1, <2>2, <2>4, <2>5 DEF TypeOK
  <2> QED BY <1>1, <1>2, <2>7, <2>8, <2>9 DEF TypeOK, Vehicles, links, Records
<1> QED BY <1>3, <1>4 DEF UpdateNode

(* What is left of the list a vehicle comes from, and the list it joins.   *)
LEMMA PassingLists ==
  ASSUME TypeOK, Single, NEW u, NEW a, NEW d, Passing(u, a, d)
  PROVE  LET rest == Delayed(arrivals[u] \ {a})
             arrived == AddLast(arrivals[d], now + TravelTime[d], a.veh)
         IN  /\ rest \in SUBSET Records /\ IsFiniteSet(rest) /\ SingleIn(rest)
             /\ VehsOf(rest) = VehsOf(arrivals[u]) \ {a.veh}
             /\ rest \cup {a} \in SUBSET Records /\ IsFiniteSet(rest \cup {a})
             /\ SingleIn(rest \cup {a}) /\ VehsOf(rest \cup {a}) = VehsOf(arrivals[u])
             /\ d \in MesoLinks =>
                  /\ d \in Keys /\ arrived \in SUBSET Records /\ IsFiniteSet(arrived)
                  /\ VehsOf(arrived) = VehsOf(arrivals[d]) \cup {a.veh}
                  /\ a.veh \notin VehsOf(arrivals[d]) => SingleIn(arrived)
<1> DEFINE A == arrivals[u]
           rest == Delayed(A \ {a})
<1>1. /\ u \in Keys /\ a \in A /\ a.veh \in Vehicles /\ now \in Nat
      /\ A \in SUBSET [time : Nat, veh : Vehicles] /\ IsFiniteSet(A) /\ SingleIn(A)
  BY DEF Passing, TypeOK, Single
<1> HIDE DEF A
<1>2. /\ rest \in SUBSET [time : Nat, veh : Vehicles] /\ IsFiniteSet(rest)
      /\ SingleIn(rest) /\ VehsOf(rest) = VehsOf(A) \ {a.veh}
  BY <1>1, RestOfList
<1> HIDE DEF rest
<1>3. /\ rest \cup {a} \in SUBSET Records /\ IsFiniteSet(rest \cup {a})
      /\ SingleIn(rest \cup {a}) /\ VehsOf(rest \cup {a}) = VehsOf(A)
  <2>1. IsFiniteSet(rest \cup {a})
    BY <1>2, FS_AddElement
  <2>2. VehsOf(rest \cup {a}) = VehsOf(A)
    BY <1>1, <1>2 DEF VehsOf
  <2>3. SingleIn(rest \cup {a})
    <3>1. a.veh \notin VehsOf(rest)
      BY <1>2
    <3> QED BY <3>1, <1>2 DEF SingleIn, VehsOf
  <2> QED BY <1>1, <1>2, <2>1, <2>2, <2>3 DEF Records
<1>4. ASSUME d \in MesoLinks
      PROVE  LET arrived == AddLast(arrivals[d], now + TravelTime[d], a.veh)
             IN  /\ d \in Keys /\ arrived \in SUBSET Records /\ IsFiniteSet(arrived)
                 /\ VehsOf(arrived) = VehsOf(arrivals[d]) \cup {a.veh}
                 /\ a.veh \notin VehsOf(arrivals[d]) => SingleIn(arrived)
  <2> DEFINE B == arrivals[d]
             t == now + TravelTime[d]
             v == a.veh
             V == Vehicles
  <2>1. d \in Keys
    BY <1>4 DEF MesoLinks, Keys
  <2>2. B \in SUBSET [time : Nat, veh : V] /\ IsFiniteSet(B) /\ SingleIn(B)
    BY <2>1 DEF TypeOK, Single
  <2>3. TravelTime[d] \in Nat
    BY <1>4, NetworkAssumption
  <2>4. t \in Nat /\ v \in V /\ V \subseteq V
    BY <1>1, <2>3
  <2> HIDE DEF B, t, v, V
  <2>5. /\ AddLast(B, t, v) \in SUBSET [time : Nat, veh : V]
        /\ IsFiniteSet(AddLast(B, t, v)) /\ VehsOf(AddLast(B, t, v)) = VehsOf(B) \cup {v}
        /\ SingleIn(B) /\ v \notin VehsOf(B) => SingleIn(AddLast(B, t, v))
    BY SMTT(30), <2>2, <2>4, AddedLast
  <2> QED BY <2>1, <2>2, <2>5 DEF B, t, v, V, Records
<1> QED BY <1>2, <1>3, <1>4 DEF A, rest, Records

(* A passage keeps the types.                                              *)
LEMMA TypePassage ==
  ASSUME TypeOK, Single, NEW u, NEW a, NEW d, Passing(u, a, d),
         Inserted(u, a, d) \/ Refused(u, a, d) \/ Departed(u, a, d)
  PROVE  TypeOK'
<1> DEFINE rest == Delayed(arrivals[u] \ {a})
           arrived == AddLast(arrivals[d], now + TravelTime[d], a.veh)
           here == [time |-> now, veh |-> a.veh]
           Chosen == [time : Nat, veh : Vehicles \cup {0}]
<1>1. /\ u \in Keys /\ a.veh \in Vehicles /\ now \in Nat /\ here \in Records
      /\ node \in Nodes /\ todo \in Seq(Nodes)
  BY DEF Passing, TypeOK, Records
<1>2. /\ rest \in SUBSET Records /\ IsFiniteSet(rest)
      /\ rest \cup {a} \in SUBSET Records /\ IsFiniteSet(rest \cup {a})
      /\ d \in MesoLinks =>
           d \in Keys /\ d \in Links /\ arrived \in SUBSET Records /\ IsFiniteSet(arrived)
  BY PassingLists DEF MesoLinks
<1> HIDE DEF rest, arrived, here
<1>3. \A A \in SUBSET Records : MinArrival(A) \in Chosen
  <2>1. Vehicles \subseteq Nat
    BY DEF Vehicles, TypeOK
  <2> QED BY <2>1, MinArrivalType DEF Records
<1> HIDE DEF Chosen
<1>4. /\ arrivals \in [Keys -> SUBSET Records] /\ \A k \in Keys : IsFiniteSet(arrivals[k])
      /\ nextArrival \in [Keys -> Chosen] /\ supply \in [Keys -> Nat \cup {AnyTime}]
      /\ entered \in [Links -> Seq(Records)] /\ left \in [Keys -> Seq(Records)]
      /\ on \in [MesoLinks -> SUBSET Vehicles] /\ waiting \in [MesoLinks -> Seq(Vehicles)]
      /\ gone \subseteq Vehicles
  BY DEF TypeOK, Records, Chosen
<1>5. /\ UNCHANGED <<inst, now, node, event, via, route>> /\ stage' = "nodes"
      /\ left' = [left EXCEPT ![u] = Append(@, here)]
  BY DEF Passing, here
<1>6. left' \in [Keys -> Seq(Records)]
  BY <1>1, <1>4, <1>5
<1>7. /\ arrivals' \in [Keys -> SUBSET Records] /\ \A k \in Keys : IsFiniteSet(arrivals'[k])
      /\ nextArrival' \in [Keys -> Chosen] /\ supply' \in [Keys -> Nat \cup {AnyTime}]
      /\ entered' \in [Links -> Seq(Records)] /\ todo' \in Seq(Nodes)
      /\ on' \in [MesoLinks -> SUBSET Vehicles] /\ waiting' \in [MesoLinks -> Seq(Vehicles)]
      /\ gone' \subseteq Vehicles
  <2>1. CASE Inserted(u, a, d)
    <3>1. /\ d \in MesoLinks
          /\ entered' = [entered EXCEPT ![d] = Append(@, here)]
          /\ supply' = [supply EXCEPT ![d] = NextSupplyTime(d, Rank(d) + 1)]
          /\ arrivals' = [arrivals EXCEPT ![u] = rest, ![d] = arrived]
          /\ nextArrival' = [nextArrival EXCEPT ![u] = MinArrival(rest),
                                                ![d] = MinArrival(arrived)]
          /\ todo' = todo \o <<node, Down[d]>>
          /\ on' = [l \in MesoLinks |-> IF l = u THEN on[l] \ {a.veh}
                                    ELSE IF l = d THEN on[l] \cup {a.veh} ELSE on[l]]
          /\ waiting' = IF u \in Entries THEN [waiting EXCEPT ![d] = Tail(@)] ELSE waiting
          /\ gone' = gone
      BY <2>1 DEF Inserted, rest, arrived, here
    <3>2. NextSupplyTime(d, Rank(d) + 1) \in Nat
      <4>1. Rank(d) + 1 \in Nat
        BY <1>2, <1>4, <3>1 DEF Rank
      <4> QED BY <4>1, <3>1, SupplyType
    <3>3. arrivals' \in [Keys -> SUBSET Records] /\ \A k \in Keys : IsFiniteSet(arrivals'[k])
      BY <1>2, <1>4, <3>1
    <3>4. nextArrival' \in [Keys -> Chosen]
      BY <1>2, <1>3, <1>4, <3>1
    <3>5. supply' \in [Keys -> Nat \cup {AnyTime}]
      BY <1>4, <3>1, <3>2
    <3>6. entered' \in [Links -> Seq(Records)]
      BY <1>1, <1>2, <1>4, <3>1
    <3>7. todo' \in Seq(Nodes)
      <4>1. Down[d] \in Nodes
        BY <1>2, <3>1, NetworkAssumption
      <4> QED BY <4>1, <1>1, <3>1
    <3>8. on' \in [MesoLinks -> SUBSET Vehicles]
      BY <1>1, <1>4, <3>1
    <3>9. waiting' \in [MesoLinks -> Seq(Vehicles)]
      <4>1. u \in Entries => waiting[d] # <<>>
        BY <2>1 DEF Inserted, CanInsert
      <4>2. u \in Entries => Tail(waiting[d]) \in Seq(Vehicles)
        BY <4>1, <1>4, <3>1, HeadTailProperties
      <4> QED BY <4>2, <1>4, <3>1
    <3> QED BY <1>4, <3>1, <3>3, <3>4, <3>5, <3>6, <3>7, <3>8, <3>9
  <2>2. CASE Refused(u, a, d)
    <3>1. /\ d \in MesoLinks
          /\ supply' = [supply EXCEPT ![d] = NextSupplyTime(d, Rank(d))]
          /\ arrivals' = [arrivals EXCEPT ![u] = rest \cup {a}]
          /\ nextArrival' = [nextArrival EXCEPT ![u] = MinArrival(rest)]
          /\ todo' = Append(todo, node)
          /\ UNCHANGED <<entered, on, waiting, gone>>
      BY <2>2 DEF Refused, rest
    <3>2. NextSupplyTime(d, Rank(d)) \in Nat
      <4>1. Rank(d) \in Nat
        BY <1>2, <1>4, <3>1 DEF Rank
      <4> QED BY <4>1, <3>1, SupplyType
    <3>3. arrivals' \in [Keys -> SUBSET Records] /\ \A k \in Keys : IsFiniteSet(arrivals'[k])
      BY <1>2, <1>4, <3>1
    <3>4. nextArrival' \in [Keys -> Chosen]
      BY <1>2, <1>3, <1>4, <3>1
    <3>5. supply' \in [Keys -> Nat \cup {AnyTime}]
      BY <1>4, <3>1, <3>2
    <3>6. todo' \in Seq(Nodes)
      BY <1>1, <3>1
    <3> QED BY <1>4, <3>1, <3>3, <3>4, <3>5, <3>6
  <2>3. CASE Departed(u, a, d)
    <3>1. /\ \E s \in Nat \cup {AnyTime} : supply' = [supply EXCEPT ![d] = s]
          /\ gone' = gone \cup {a.veh}
          /\ arrivals' = [arrivals EXCEPT ![u] = rest]
          /\ nextArrival' = [nextArrival EXCEPT ![u] = MinArrival(rest)]
          /\ todo' = Append(todo, node)
          /\ on' = [l \in MesoLinks |-> IF l = u THEN on[l] \ {a.veh} ELSE on[l]]
          /\ UNCHANGED <<entered, waiting>>
      BY <2>3 DEF Departed, rest
    <3>2. arrivals' \in [Keys -> SUBSET Records] /\ \A k \in Keys : IsFiniteSet(arrivals'[k])
      BY <1>2, <1>4, <3>1
    <3>3. nextArrival' \in [Keys -> Chosen]
      BY <1>2, <1>3, <1>4, <3>1
    <3>4. supply' \in [Keys -> Nat \cup {AnyTime}]
      BY <1>4, <3>1
    <3>5. on' \in [MesoLinks -> SUBSET Vehicles] /\ gone' \subseteq Vehicles
      BY <1>1, <1>4, <3>1
    <3>6. todo' \in Seq(Nodes)
      BY <1>1, <3>1
    <3> QED BY <1>4, <3>1, <3>2, <3>3, <3>4, <3>5, <3>6
  <2> QED BY <2>1, <2>2, <2>3
<1>8. Vehicles' = Vehicles
  BY <1>5 DEF Vehicles
<1> QED BY <1>5, <1>6, <1>7, <1>8 DEF TypeOK, Records, Chosen

(***************************************************************************)
(* Places.                                                                 *)
(***************************************************************************)
(* The set of a sequence that grows or loses its head.                     *)
LEMMA SetOfAppend ==
  ASSUME NEW S, NEW s \in Seq(S), NEW e \in S
  PROVE  ToSet(Append(s, e)) = ToSet(s) \cup {e}
<1> DEFINE t == Append(s, e)
<1>1. /\ t \in Seq(S) /\ Len(t) = Len(s) + 1 /\ Len(s) \in Nat
      /\ \A i \in 1 .. Len(s) : t[i] = s[i]
      /\ t[Len(s) + 1] = e
  BY AppendProperties
<1> HIDE DEF t
<1>2. DOMAIN t = 1 .. Len(s) + 1 /\ DOMAIN s = 1 .. Len(s)
  BY <1>1
<1>3. ASSUME NEW x \in ToSet(t) PROVE x \in ToSet(s) \cup {e}
  <2>1. PICK i \in 1 .. Len(s) + 1 : x = t[i]
    BY <1>2 DEF ToSet
  <2>2. CASE i = Len(s) + 1
    BY <1>1, <2>1, <2>2
  <2>3. CASE i # Len(s) + 1
    <3>1. i \in 1 .. Len(s)
      BY <1>1, <2>3
    <3> QED BY <1>1, <1>2, <2>1, <3>1 DEF ToSet
  <2> QED BY <2>2, <2>3
<1>4. ASSUME NEW x \in ToSet(s) PROVE x \in ToSet(t)
  <2>1. PICK i \in 1 .. Len(s) : x = s[i]
    BY <1>2 DEF ToSet
  <2> QED BY <1>1, <1>2, <2>1 DEF ToSet
<1>5. e \in ToSet(t)
  BY <1>1, <1>2 DEF ToSet
<1> QED BY <1>3, <1>4, <1>5 DEF t

(* The elements of a sequence without repetition, but the first.           *)
LEMMA SetOfTail ==
  ASSUME NEW S, NEW s \in Seq(S), s # <<>>,
         \A i, j \in DOMAIN s : s[i] = s[j] => i = j
  PROVE  /\ ToSet(Tail(s)) = ToSet(s) \ {s[1]}
         /\ \A i, j \in DOMAIN Tail(s) : Tail(s)[i] = Tail(s)[j] => i = j
<1> DEFINE t == Tail(s)
<1>1. /\ t \in Seq(S) /\ Len(t) = Len(s) - 1 /\ Len(s) \in Nat \ {0}
      /\ \A i \in 1 .. Len(t) : t[i] = s[i + 1]
  BY HeadTailProperties, EmptySeq
<1> HIDE DEF t
<1>2. DOMAIN t = 1 .. Len(s) - 1 /\ DOMAIN s = 1 .. Len(s)
  BY <1>1
<1>3. ASSUME NEW x \in ToSet(t) PROVE x \in ToSet(s) \ {s[1]}
  <2>1. PICK i \in 1 .. Len(s) - 1 : x = t[i]
    BY <1>2 DEF ToSet
  <2>2. i + 1 \in DOMAIN s /\ x = s[i + 1] /\ i + 1 # 1 /\ 1 \in DOMAIN s
    BY <1>1, <1>2, <2>1
  <2> QED BY <2>2 DEF ToSet
<1>4. ASSUME NEW x \in ToSet(s) \ {s[1]} PROVE x \in ToSet(t)
  <2>1. PICK i \in 1 .. Len(s) : x = s[i]
    BY <1>2 DEF ToSet
  <2>2. i # 1
    BY <2>1
  <2>3. i - 1 \in 1 .. Len(s) - 1 /\ i - 1 + 1 = i
    BY <1>1, <2>1, <2>2
  <2>4. t[i - 1] = s[i]
    BY <1>1, <2>3
  <2> QED BY <1>2, <2>1, <2>3, <2>4 DEF ToSet
<1>5. ASSUME NEW i \in DOMAIN t, NEW j \in DOMAIN t, t[i] = t[j] PROVE i = j
  <2>1. i \in Nat /\ j \in Nat /\ i + 1 \in DOMAIN s /\ j + 1 \in DOMAIN s
        /\ t[i] = s[i + 1] /\ t[j] = s[j + 1]
    BY <1>1, <1>2
  <2>2. i + 1 = j + 1
    BY <1>5, <2>1
  <2> QED BY <2>1, <2>2
<1> QED BY <1>3, <1>4, <1>5 DEF t

(* A step that leaves every vehicle where it is.                           *)
LEMMA PlacesKept ==
  ASSUME Places, UNCHANGED <<route, gone, on, waiting>>,
         \A k \in Keys : VehsOf(arrivals'[k]) = VehsOf(arrivals[k])
  PROVE  Places'
<1>1. \A k \in Keys : Arrivals(k) = VehsOf(arrivals[k])
  BY DEF Arrivals, VehsOf
<1>2. \A k \in Keys : Arrivals(k)' = VehsOf(arrivals'[k])
  BY DEF Arrivals, VehsOf
<1>3. \A k \in Keys : Arrivals(k)' = Arrivals(k)
  BY <1>1, <1>2
<1>4. /\ Links \subseteq Keys /\ Nodes \subseteq Keys /\ MesoLinks \subseteq Keys
      /\ \A l \in MesoLinks : Up[l] \in Keys
  BY NetworkAssumption DEF Keys, MesoLinks
<1>5. OnRoute'
  BY <1>3, <1>4 DEF Places, OnRoute
<1>6. Apart'
  BY <1>3 DEF Places, Apart
<1>7. Present'
  BY <1>3 DEF Places, Present, Vehicles
<1>8. OnLinks'
  BY <1>3, <1>4 DEF Places, OnLinks
<1>9. Queued'
  BY <1>3, <1>4 DEF Places, Queued
<1> QED BY <1>5, <1>6, <1>7, <1>8, <1>9 DEF Places

(* The list of a key holds vehicles that were created.                     *)
LEMMA ArrivalsCreated ==
  ASSUME TypeOK, NEW k \in Keys
  PROVE  Arrivals(k) \subseteq Vehicles /\ Arrivals(k) = VehsOf(arrivals[k])
BY DEF TypeOK, Arrivals, VehsOf

(* A vehicle that is created is at its origin, and nowhere else.           *)
LEMMA PlacesCreate ==
  ASSUME TypeOK, Places, Single, NEW r \in Routes, CreateVehicle(r)
  PROVE  Places' /\ Single'
<1> DEFINE e == Up[r[1]]
           v == Len(route) + 1
           q == r[1]
<1>1. /\ e \in Nodes /\ e \in Entries /\ e \in Keys /\ q \in MesoLinks
      /\ e \notin Links
  BY NetworkAssumption DEF Entries, Keys
<1>2. route' = Append(route, r)
  BY DEF CreateVehicle
<1>3. /\ Vehicles \subseteq Vehicles' /\ v \in Vehicles' /\ v \notin Vehicles
      /\ Vehicles' = Vehicles \cup {v}
      /\ \A w \in Vehicles : route'[w] = route[w]
      /\ route'[v] = r
  BY <1>2, Newcomer
<1>4. /\ VehsOf(AddLast(arrivals[e], inst, v)) = VehsOf(arrivals[e]) \cup {v}
      /\ v \notin VehsOf(arrivals[e]) => SingleIn(AddLast(arrivals[e], inst, v))
  <2> DEFINE V == Vehicles
             W == Vehicles'
             A == arrivals[e]
  <2>1. V \subseteq W /\ v \in W /\ inst \in Nat /\ IsFiniteSet(A)
        /\ A \in SUBSET [time : Nat, veh : V] /\ SingleIn(A)
    BY <1>1, <1>3 DEF TypeOK, Single
  <2> HIDE DEF V, W, A, e, v
  <2>2. /\ VehsOf(AddLast(A, inst, v)) = VehsOf(A) \cup {v}
        /\ SingleIn(A) /\ v \notin VehsOf(A) => SingleIn(AddLast(A, inst, v))
    BY ONLY <2>1, AddedLast
  <2> QED BY <2>1, <2>2 DEF A
<1>5. /\ arrivals' = [arrivals EXCEPT ![e] = AddLast(@, inst, v)]
      /\ waiting' = [waiting EXCEPT ![q] = Append(@, v)]
      /\ on' = on /\ gone' = gone
  BY DEF CreateVehicle, links
<1> HIDE DEF e, v, q
<1>6. \A k \in Keys : Arrivals(k) \subseteq Vehicles /\ Arrivals(k) = VehsOf(arrivals[k])
  BY ArrivalsCreated
<1>7. \A k \in Keys : Arrivals(k)' = VehsOf(arrivals'[k])
  BY DEF Arrivals, VehsOf
<1>8. /\ arrivals \in [Keys -> SUBSET Records] /\ waiting \in [MesoLinks -> Seq(Vehicles)]
      /\ gone \subseteq Vehicles
  BY DEF TypeOK, Records
<1>9. /\ Arrivals(e)' = Arrivals(e) \cup {v}
      /\ \A k \in Keys \ {e} : Arrivals(k)' = Arrivals(k)
  BY <1>1, <1>4, <1>5, <1>6, <1>7, <1>8
<1>10. Single'
  <2>1. SingleIn(arrivals'[e])
    BY <1>1, <1>3, <1>4, <1>5, <1>6, <1>8
  <2>2. \A k \in Keys \ {e} : SingleIn(arrivals'[k])
    BY <1>5, <1>8 DEF Single
  <2> QED BY <2>1, <2>2 DEF Single
<1>11. OnRoute'
  <2>1. ASSUME NEW l \in Links, NEW w \in Arrivals(l)'
        PROVE  l \in MesoLinks /\ \E i \in DOMAIN route'[w] : route'[w][i] = l
    <3>1. l \in Keys /\ l # e
      BY <1>1 DEF Keys
    <3>2. w \in Arrivals(l) /\ w \in Vehicles
      BY <1>6, <1>9, <2>1, <3>1
    <3>3. route'[w] = route[w]
      BY <1>3, <3>2
    <3> QED BY <3>2, <3>3 DEF Places, OnRoute
  <2>2. ASSUME NEW n \in Nodes, NEW w \in Arrivals(n)'
        PROVE  n \in Entries /\ Up[route'[w][1]] = n
    <3>1. n \in Keys
      BY DEF Keys
    <3>2. CASE w \in Arrivals(n)
      <4>1. w \in Vehicles
        BY <1>6, <3>1, <3>2
      <4>2. route'[w] = route[w]
        BY <1>3, <4>1
      <4> QED BY <3>2, <4>2 DEF Places, OnRoute
    <3>3. CASE w \notin Arrivals(n)
      <4>1. n = e /\ w = v
        BY <1>9, <2>2, <3>1, <3>3
      <4>2. route'[w] = r
        BY <1>3, <4>1
      <4> QED BY <1>1, <4>1, <4>2 DEF e
    <3> QED BY <3>2, <3>3
  <2>3. OnRoute' = (/\ \A l \in Links : \A w \in Arrivals(l)' :
                         l \in MesoLinks /\ \E i \in DOMAIN route'[w] : route'[w][i] = l
                    /\ \A n \in Nodes : \A w \in Arrivals(n)' :
                         n \in Entries /\ Up[route'[w][1]] = n)
    BY DEF OnRoute
  <2> QED BY <2>1, <2>2, <2>3
<1>12. Apart'
  <2>1. ASSUME NEW k \in Keys, NEW j \in Keys, k # j
        PROVE  Arrivals(k)' \cap Arrivals(j)' = {}
    <3>1. Arrivals(k) \cap Arrivals(j) = {} /\ v \notin Arrivals(k) /\ v \notin Arrivals(j)
      BY <1>3, <1>6, <2>1 DEF Places, Apart
    <3> QED BY <1>9, <2>1, <3>1
  <2> QED BY <2>1 DEF Apart
<1>13. Present'
  <2>1. ASSUME NEW w \in Vehicles' \ gone' PROVE \E k \in Keys : w \in Arrivals(k)'
    <3>1. CASE w = v
      BY <1>1, <1>9, <3>1
    <3>2. CASE w # v
      <4>1. PICK k \in Keys : w \in Arrivals(k)
        BY <1>3, <1>5, <2>1, <3>2 DEF Places, Present
      <4> QED BY <1>9, <4>1
    <3> QED BY <3>1, <3>2
  <2>2. ASSUME NEW w \in gone', NEW k \in Keys PROVE w \notin Arrivals(k)'
    <3>1. w # v /\ w \notin Arrivals(k)
      BY <1>3, <1>5, <1>8 DEF Places, Present
    <3> QED BY <1>9, <3>1
  <2> QED BY <2>1, <2>2 DEF Present
<1>14. OnLinks'
  <2>1. ASSUME NEW l \in MesoLinks PROVE on'[l] = Arrivals(l)'
    <3>1. l \in Keys \ {e}
      BY <1>1 DEF Keys, MesoLinks
    <3> QED BY <1>5, <1>9, <3>1 DEF Places, OnLinks
  <2> QED BY <2>1 DEF OnLinks
<1>15. Queued'
  <2>1. ASSUME NEW l \in MesoLinks
        PROVE  /\ ToSet(waiting'[l]) = {w \in Arrivals(Up[l])' : route'[w][1] = l}
               /\ \A i, j \in DOMAIN waiting'[l] : waiting'[l][i] = waiting'[l][j] => i = j
    <3>1. Up[l] \in Keys
      BY NetworkAssumption DEF Keys, MesoLinks
    <3>2. /\ ToSet(waiting[l]) = {w \in Arrivals(Up[l]) : route[w][1] = l}
          /\ \A i, j \in DOMAIN waiting[l] : waiting[l][i] = waiting[l][j] => i = j
      BY DEF Places, Queued
    <3>3. waiting[l] \in Seq(Vehicles)
      BY <1>8
    <3>4. \A w \in Arrivals(Up[l]) : route'[w] = route[w]
      BY <1>3, <1>6, <3>1
    <3>5. CASE l = q
      <4>1. waiting'[l] = Append(waiting[l], v)
        BY <1>5, <1>8, <3>5
      <4>2. Up[l] = e
        BY <3>5 DEF e, q
      <4>3. waiting[l] \in Seq(Vehicles') /\ v \in Vehicles'
        BY <1>3, <3>3, SeqMonotonic
      <4>4. ToSet(waiting'[l]) = ToSet(waiting[l]) \cup {v}
        <5> DEFINE S == Vehicles'
                   s == waiting[l]
        <5>1. s \in Seq(S) /\ v \in S
          BY <4>3
        <5> HIDE DEF S, s
        <5>2. ToSet(Append(s, v)) = ToSet(s) \cup {v}
          BY <5>1, SetOfAppend
        <5> QED BY <4>1, <5>2 DEF s
      <4>5. route'[v][1] = l
        BY <1>3, <3>5 DEF q
      <4>6. ToSet(waiting'[l]) = {w \in Arrivals(Up[l])' : route'[w][1] = l}
        BY <1>9, <3>2, <3>4, <4>2, <4>4, <4>5
      <4>7. ASSUME NEW i \in DOMAIN waiting'[l], NEW j \in DOMAIN waiting'[l],
                   waiting'[l][i] = waiting'[l][j]
            PROVE  i = j
        <5>1. /\ Len(waiting[l]) \in Nat /\ DOMAIN waiting[l] = 1 .. Len(waiting[l])
              /\ DOMAIN waiting'[l] = 1 .. Len(waiting[l]) + 1
              /\ \A x \in DOMAIN waiting[l] : waiting'[l][x] = waiting[l][x]
              /\ waiting'[l][Len(waiting[l]) + 1] = v
          BY <3>3, <4>1, <4>3, AppendProperties
        <5>2. \A x \in DOMAIN waiting[l] : waiting[l][x] # v
          BY <1>3, <3>3, <5>1, ElementOfSeq
        <5>3. i \in DOMAIN waiting[l] \/ i = Len(waiting[l]) + 1
          BY <5>1
        <5>4. j \in DOMAIN waiting[l] \/ j = Len(waiting[l]) + 1
          BY <5>1
        <5> QED BY <3>2, <4>7, <5>1, <5>2, <5>3, <5>4
      <4> QED BY <4>6, <4>7
    <3>6. CASE l # q
      <4>1. waiting'[l] = waiting[l]
        BY <1>5, <1>8, <3>6
      <4>2. route'[v][1] # l
        BY <1>3, <3>6 DEF q
      <4>3. {w \in Arrivals(Up[l])' : route'[w][1] = l} = {w \in Arrivals(Up[l]) : route[w][1] = l}
        BY <1>9, <3>1, <3>4, <4>2
      <4> QED BY <3>2, <4>1, <4>3
    <3> QED BY <3>5, <3>6
  <2>2. Queued' = \A l \in MesoLinks :
           /\ ToSet(waiting'[l]) = {w \in Arrivals(Up[l])' : route'[w][1] = l}
           /\ \A i, j \in DOMAIN waiting'[l] : waiting'[l][i] = waiting'[l][j] => i = j
    BY DEF Queued
  <2> QED BY <2>1, <2>2
<1> QED BY <1>10, <1>11, <1>12, <1>13, <1>14, <1>15 DEF Places

(* A vehicle that passes goes from one place to the next.                  *)
LEMMA PlacesPassage ==
  ASSUME TypeOK, Places, Single, NEW u, NEW a, NEW d, Passing(u, a, d),
         Inserted(u, a, d) \/ Refused(u, a, d) \/ Departed(u, a, d)
  PROVE  Places' /\ Single'
<1> DEFINE v == a.veh
           rest == Delayed(arrivals[u] \ {a})
           arrived == AddLast(arrivals[d], now + TravelTime[d], v)
<1>1. /\ u \in Keys /\ d # u /\ route' = route /\ v \in Vehicles /\ v \in Arrivals(u)
      /\ u \in Nodes => u \in Entries /\ u \notin Links /\ u \notin MesoLinks
                        /\ d = route[v][1] /\ Up[d] = u
      /\ u \notin Nodes => u \in MesoLinks /\ u \notin Entries
      /\ d \in Links => \E i \in DOMAIN route[v] : route[v][i] = d
  BY NetworkAssumption DEF Passing, Arrivals, Entries, MesoLinks
<1>2. \A k \in Keys : Arrivals(k) \subseteq Vehicles /\ Arrivals(k) = VehsOf(arrivals[k])
  BY ArrivalsCreated
<1>3. \A k \in Keys : Arrivals(k)' = VehsOf(arrivals'[k])
  BY DEF Arrivals, VehsOf
<1>4. /\ arrivals \in [Keys -> SUBSET Records] /\ waiting \in [MesoLinks -> Seq(Vehicles)]
      /\ gone \subseteq Vehicles
      /\ \A k \in Keys : SingleIn(arrivals[k])
  BY DEF TypeOK, Records, Single
<1>5. /\ SingleIn(rest) /\ VehsOf(rest) = VehsOf(arrivals[u]) \ {v}
      /\ SingleIn(rest \cup {a}) /\ VehsOf(rest \cup {a}) = VehsOf(arrivals[u])
      /\ d \in MesoLinks =>
           /\ d \in Keys /\ VehsOf(arrived) = VehsOf(arrivals[d]) \cup {v}
           /\ v \notin VehsOf(arrivals[d]) => SingleIn(arrived)
  BY ZenonT(40), PassingLists
<1>6. Vehicles' = Vehicles
  BY <1>1 DEF Vehicles
<1>7. /\ Links \subseteq Keys /\ Nodes \subseteq Keys /\ MesoLinks \subseteq Links
      /\ Nodes \cap Links = {} /\ \A l \in MesoLinks : Up[l] \in Nodes
  BY NetworkAssumption DEF Keys, MesoLinks
<1>8. \A k \in Keys \ {u} : v \notin Arrivals(k)
  BY <1>1 DEF Places, Apart
<1> HIDE DEF v, rest, arrived
<1>9. CASE Refused(u, a, d)
  <2>1. arrivals' = [arrivals EXCEPT ![u] = rest \cup {a}]
        /\ UNCHANGED <<route, gone, on, waiting>>
    BY <1>1, <1>9 DEF Refused, rest
  <2>2. \A k \in Keys : VehsOf(arrivals'[k]) = VehsOf(arrivals[k]) /\ SingleIn(arrivals'[k])
    BY <2>1, <1>1, <1>4, <1>5
  <2> QED BY <2>1, <2>2, PlacesKept DEF Single
<1>10. CASE Departed(u, a, d)
  <2>1. /\ arrivals' = [arrivals EXCEPT ![u] = rest] /\ gone' = gone \cup {v}
        /\ on' = [l \in MesoLinks |-> IF l = u THEN on[l] \ {v} ELSE on[l]]
        /\ waiting' = waiting /\ u \in MesoLinks
    BY <1>10 DEF Departed, rest, v
  <2>2. /\ Arrivals(u)' = Arrivals(u) \ {v}
        /\ \A k \in Keys \ {u} : Arrivals(k)' = Arrivals(k)
    BY <2>1, <1>1, <1>2, <1>3, <1>4, <1>5
  <2>3. \A k \in Keys : Arrivals(k)' \subseteq Arrivals(k)
    BY <2>2
  <2>4. Single'
    BY <2>1, <1>1, <1>4, <1>5 DEF Single
  <2>5. OnRoute'
    BY <2>3, <1>1, <1>7 DEF Places, OnRoute
  <2>6. Apart'
    BY <2>3 DEF Places, Apart
  <2>7. Present'
    <3>1. ASSUME NEW w \in Vehicles' \ gone' PROVE \E k \in Keys : w \in Arrivals(k)'
      <4>1. PICK k \in Keys : w \in Arrivals(k)
        BY <1>6, <2>1, <3>1 DEF Places, Present
      <4> QED BY <2>1, <2>2, <3>1, <4>1
    <3>2. ASSUME NEW w \in gone', NEW k \in Keys PROVE w \notin Arrivals(k)'
      <4>1. CASE w = v
        BY <1>8, <2>2, <4>1
      <4>2. CASE w # v
        <5>1. w \notin Arrivals(k)
          BY <2>1, <3>2, <4>2 DEF Places, Present
        <5> QED BY <2>3, <5>1
      <4> QED BY <4>1, <4>2
    <3> QED BY <3>1, <3>2 DEF Present
  <2>8. OnLinks'
    <3>1. ASSUME NEW l \in MesoLinks PROVE on'[l] = Arrivals(l)'
      <4>1. on[l] = Arrivals(l) /\ l \in Keys
        BY <1>7 DEF Places, OnLinks
      <4> QED BY <2>1, <2>2, <4>1
    <3> QED BY <3>1 DEF OnLinks
  <2>9. Queued'
    <3>1. \A l \in MesoLinks : Arrivals(Up[l])' = Arrivals(Up[l])
      BY <2>1, <2>2, <1>7
    <3> QED BY <3>1, <2>1, <1>1 DEF Places, Queued
  <2> QED BY <2>4, <2>5, <2>6, <2>7, <2>8, <2>9 DEF Places
<1>11. CASE Inserted(u, a, d)
  <2>1. /\ d \in MesoLinks /\ (u \in Entries => CanInsert(v, d))
        /\ arrivals' = [arrivals EXCEPT ![u] = rest, ![d] = arrived] /\ gone' = gone
        /\ on' = [l \in MesoLinks |-> IF l = u THEN on[l] \ {v}
                                      ELSE IF l = d THEN on[l] \cup {v} ELSE on[l]]
        /\ waiting' = IF u \in Entries THEN [waiting EXCEPT ![d] = Tail(@)] ELSE waiting
    BY <1>11 DEF Inserted, rest, arrived, v
  <2>2. /\ Arrivals(u)' = Arrivals(u) \ {v}
        /\ Arrivals(d)' = Arrivals(d) \cup {v}
        /\ \A k \in Keys \ {u, d} : Arrivals(k)' = Arrivals(k)
        /\ d \in Keys /\ v \notin Arrivals(d)
    BY <2>1, <1>1, <1>2, <1>3, <1>4, <1>5, <1>8
  <2>3. \A k \in Keys : \A w \in Arrivals(k)' : w \in Arrivals(k) \/ (k = d /\ w = v)
    BY <2>2
  <2>4. Single'
    BY <2>1, <2>2, <1>1, <1>2, <1>4, <1>5 DEF Single
  <2>5. OnRoute'
    <3>1. ASSUME NEW l \in Links, NEW w \in Arrivals(l)'
          PROVE  l \in MesoLinks /\ \E i \in DOMAIN route'[w] : route'[w][i] = l
      <4>1. w \in Arrivals(l) \/ (l = d /\ w = v)
        BY <1>7, <2>3, <3>1
      <4> QED BY <4>1, <2>1, <1>1, <1>7 DEF Places, OnRoute
    <3>2. ASSUME NEW n \in Nodes, NEW w \in Arrivals(n)'
          PROVE  n \in Entries /\ Up[route'[w][1]] = n
      <4>1. w \in Arrivals(n)
        BY <1>7, <2>1, <2>3, <3>2
      <4> QED BY <4>1, <1>1 DEF Places, OnRoute
    <3>3. OnRoute' = (/\ \A l \in Links : \A w \in Arrivals(l)' :
                           l \in MesoLinks /\ \E i \in DOMAIN route'[w] : route'[w][i] = l
                      /\ \A n \in Nodes : \A w \in Arrivals(n)' :
                           n \in Entries /\ Up[route'[w][1]] = n)
      BY DEF OnRoute
    <3> QED BY <3>1, <3>2, <3>3
  <2>6. Apart'
    <3>1. ASSUME NEW k \in Keys, NEW j \in Keys, k # j, NEW w \in Arrivals(k)',
                 w \in Arrivals(j)'
          PROVE  FALSE
      <4>1. CASE w = v
        <5>1. \A i \in Keys : v \in Arrivals(i)' => i = d
          BY <1>8, <2>2
        <5> QED BY <3>1, <4>1, <5>1
      <4>2. CASE w # v
        <5>1. w \in Arrivals(k) /\ w \in Arrivals(j)
          BY <2>3, <3>1, <4>2
        <5> QED BY <3>1, <5>1 DEF Places, Apart
      <4> QED BY <4>1, <4>2
    <3> QED BY <3>1 DEF Apart
  <2>7. Present'
    <3>1. ASSUME NEW w \in Vehicles' \ gone' PROVE \E k \in Keys : w \in Arrivals(k)'
      <4>1. PICK k \in Keys : w \in Arrivals(k)
        BY <1>6, <2>1, <3>1 DEF Places, Present
      <4>2. CASE w = v
        BY <2>2, <4>2
      <4>3. CASE w # v
        BY <2>2, <4>1, <4>3
      <4> QED BY <4>2, <4>3
    <3>2. ASSUME NEW w \in gone', NEW k \in Keys PROVE w \notin Arrivals(k)'
      <4>1. w \in gone /\ w \notin Arrivals(k) /\ w \notin Arrivals(u)
        BY <1>1, <2>1, <3>2 DEF Places, Present
      <4>2. w # v
        BY <1>1, <4>1
      <4> QED BY <2>3, <4>1, <4>2
    <3> QED BY <3>1, <3>2 DEF Present
  <2>8. OnLinks'
    <3>1. ASSUME NEW l \in MesoLinks PROVE on'[l] = Arrivals(l)'
      <4>1. on[l] = Arrivals(l) /\ l \in Keys
        BY <1>7 DEF Places, OnLinks
      <4> QED BY <2>1, <2>2, <1>1, <4>1
    <3> QED BY <3>1 DEF OnLinks
  <2>9. Queued'
    <3>1. ASSUME NEW l \in MesoLinks
          PROVE  /\ ToSet(waiting'[l]) = {w \in Arrivals(Up[l])' : route'[w][1] = l}
                 /\ \A i, j \in DOMAIN waiting'[l] : waiting'[l][i] = waiting'[l][j] => i = j
      <4>1. /\ ToSet(waiting[l]) = {w \in Arrivals(Up[l]) : route[w][1] = l}
            /\ \A i, j \in DOMAIN waiting[l] : waiting[l][i] = waiting[l][j] => i = j
        BY DEF Places, Queued
      <4>2. Up[l] \in Nodes /\ Up[l] \in Keys /\ Up[l] # d
        BY <1>7, <2>1
      <4>3. CASE Up[l] # u
        <5>1. Arrivals(Up[l])' = Arrivals(Up[l])
          BY <2>2, <4>2, <4>3
        <5>2. waiting'[l] = waiting[l]
          <6>1. u \in Entries => l # d
            BY <4>3, <1>1
          <6> QED BY <6>1, <2>1, <1>4
        <5> QED BY <4>1, <5>1, <5>2, <1>1
      <4>4. CASE Up[l] = u /\ l # d
        <5>1. u \in Entries /\ waiting'[l] = waiting[l]
          BY <4>2, <4>4, <2>1, <1>1, <1>4
        <5>2. route[v][1] # l
          BY <4>2, <4>4, <1>1
        <5> QED BY <4>1, <4>4, <5>1, <5>2, <2>2, <1>1
      <4>5. CASE Up[l] = u /\ l = d
        <5>1. u \in Entries /\ route[v][1] = l
          BY <4>2, <4>5, <1>1
        <5>2. waiting[l] \in Seq(Vehicles) /\ waiting[l] # <<>> /\ waiting[l][1] = v
          BY <5>1, <4>5, <2>1, <1>4 DEF CanInsert
        <5>3. waiting'[l] = Tail(waiting[l])
          BY <5>1, <4>5, <2>1, <1>4
        <5>4. /\ ToSet(Tail(waiting[l])) = ToSet(waiting[l]) \ {waiting[l][1]}
              /\ \A i, j \in DOMAIN Tail(waiting[l]) :
                    Tail(waiting[l])[i] = Tail(waiting[l])[j] => i = j
          BY <5>2, <4>1, SetOfTail
        <5>5. ToSet(waiting'[l]) = {w \in Arrivals(Up[l])' : route'[w][1] = l}
          BY <4>1, <4>5, <5>2, <5>3, <5>4, <2>2, <1>1
        <5> QED BY <5>3, <5>4, <5>5
      <4> QED BY <4>3, <4>4, <4>5
    <3>2. Queued' = \A l \in MesoLinks :
             /\ ToSet(waiting'[l]) = {w \in Arrivals(Up[l])' : route'[w][1] = l}
             /\ \A i, j \in DOMAIN waiting'[l] : waiting'[l][i] = waiting'[l][j] => i = j
      BY DEF Queued
    <3> QED BY <3>1, <3>2
  <2> QED BY <2>4, <2>5, <2>6, <2>7, <2>8, <2>9 DEF Places
<1> QED BY <1>9, <1>10, <1>11

(* A node that is scheduled keeps its lists.                               *)
LEMMA PlacesUpdate ==
  ASSUME TypeOK, Places, Single, UpdateNode
  PROVE  Places' /\ Single'
<1> DEFINE n == Head(todo)
<1>1. n \in Nodes
  BY HeadTailProperties DEF TypeOK, UpdateNode
<1>2. UNCHANGED <<route, gone, on, waiting>>
  BY DEF UpdateNode, links
<1>3. CASE IdleNode(n)
  <2>1. arrivals' = arrivals
    BY <1>3 DEF IdleNode
  <2> QED BY <1>2, <2>1, PlacesKept DEF Single
<1>4. ASSUME NEW o \in EventLinks(n), NEW u \in Selected(n, o), ScheduleNode(n, o, u)
      PROVE  Places' /\ Single'
  <2> HIDE DEF n
  <2>1. o \in Outgoing(n) /\ u \in Candidates(n, o)
    BY DEF EventLinks, Selected, Congested
  <2> DEFINE a == FrontOf(arrivals[u])
             b == [a EXCEPT !.time = EventTime(n, o)]
             A == arrivals[u]
             V == Vehicles
  <2>2. u \in Keys /\ a \in A /\ a \in [time : Nat, veh : V]
    BY <1>1, <2>1, LocalEvent DEF Records
  <2>3. EventTime(n, o) \in Nat
    BY <1>1, <2>1, EventType
  <2>4. arrivals' = [arrivals EXCEPT ![u] = (@ \ {a}) \cup {b}]
    BY <1>4 DEF ScheduleNode
  <2>5. A \in SUBSET [time : Nat, veh : V] /\ IsFiniteSet(A) /\ SingleIn(A)
    BY <2>2 DEF TypeOK, Single
  <2> HIDE DEF a, V, A
  <2>6. b \in [time : Nat, veh : V] /\ b.veh = a.veh
    BY <2>2, <2>3
  <2> HIDE DEF b
  <2>7. /\ VehsOf((A \ {a}) \cup {b}) = VehsOf(A)
        /\ SingleIn((A \ {a}) \cup {b})
    BY <2>2, <2>5, <2>6, RecordMoved
  <2>8. \A k \in Keys : VehsOf(arrivals'[k]) = VehsOf(arrivals[k]) /\ SingleIn(arrivals'[k])
    BY <2>2, <2>4, <2>7 DEF TypeOK, Single, A
  <2> QED BY <1>2, <2>8, PlacesKept DEF Single
<1> QED BY <1>3, <1>4 DEF UpdateNode

(***************************************************************************)
(* Events and arrivals.                                                    *)
(***************************************************************************)
(* No node stops being pending when the clock advances.                    *)
LEMMA PendingClock ==
  ASSUME Call \/ Decide \/ Step \/ EndStep \/ NodesUpdated
  PROVE  Pending \subseteq Pending'
<1>1. CASE NodesUpdated
  <2>1. Pending = {}
    BY <1>1 DEF NodesUpdated, Pending, ToSet
  <2> QED BY <2>1
<1>2. CASE Call \/ Decide \/ Step \/ EndStep
  <2>1. stage # "nodes"
    BY <1>2 DEF Call, Decide, Step, EndStep
  <2> QED BY <2>1 DEF Pending
<1> QED BY <1>1, <1>2

(* The steps of the clocks touch neither events nor arrivals.              *)
LEMMA ScheduledClock ==
  ASSUME TypeOK, Scheduled, Call \/ Decide \/ Step \/ EndStep \/ NodesUpdated
  PROVE  Scheduled'
<1>1. UNCHANGED <<todo, event, via, arrivals, nextArrival>>
  BY DEF Call, Decide, Step, EndStep, NodesUpdated
<1>2. Pending \subseteq Pending'
  BY PendingClock
<1> QED BY <1>1, <1>2 DEF Scheduled

(* The event of an entry is overwritten only while nobody waits there.     *)
LEMMA ScheduledCreate ==
  ASSUME OneLinkEntries, TypeOK, Places, Scheduled, NEW r \in Routes, CreateVehicle(r)
  PROVE  Scheduled'
<1> DEFINE e == Up[r[1]]
           v == Len(route) + 1
           q == r[1]
           b == [time |-> inst, veh |-> v]
           A == arrivals[e]
           M == AddLast(A, inst, v)
<1>1. /\ e \in Nodes /\ e \in Entries /\ e \in Keys /\ q \in MesoLinks /\ q \in OutLinks(e)
      /\ e \notin Links
  BY NetworkAssumption DEF Entries, Keys, OutLinks, MesoLinks
<1>2. /\ Vehicles \subseteq Vehicles' /\ v \in Vehicles'
  BY Newcomer DEF CreateVehicle
<1>3. A \subseteq M /\ (A = {} => M = {b})
  <2> DEFINE V == Vehicles
             W == Vehicles'
  <2>1. V \subseteq W /\ v \in W /\ inst \in Nat /\ IsFiniteSet(A)
        /\ A \in SUBSET [time : Nat, veh : V]
    BY <1>1, <1>2 DEF TypeOK
  <2>3. M = AddLast(A, inst, v)
    OBVIOUS
  <2> HIDE DEF V, W, A, e, v, M, b
  <2>2. A \subseteq AddLast(A, inst, v)
    BY <2>1, AddedLast
  <2>4. ASSUME A = {} PROVE M = {b}
    <3>1. LastTime(A) = -1
      BY <2>1, <2>4, LastTimeOfList
    <3>2. Later(inst, LastTime(A)) = inst
      BY <2>1, <3>1, LaterOfTwo
    <3> QED BY <2>3, <2>4, <3>2 DEF AddLast, b
  <2> QED BY <2>2, <2>3, <2>4
<1>4. /\ arrivals' = [arrivals EXCEPT ![e] = M]
      /\ UNCHANGED <<stage, todo>>
      /\ \/ UNCHANGED <<event, via, nextArrival>>
         \/ /\ waiting[q] = <<>>
            /\ event' = [event EXCEPT ![e] = inst] /\ via' = [via EXCEPT ![e] = e]
            /\ nextArrival' = [nextArrival EXCEPT ![e] = b]
  BY DEF CreateVehicle
<1>5. waiting[q] = <<>> => A = {}
  <2> SUFFICES ASSUME waiting[q] = <<>>, NEW x \in A PROVE FALSE
    OBVIOUS
  <2>1. x.veh \in Arrivals(e)
    BY DEF Arrivals
  <2>2. x.veh \in Vehicles
    BY <1>1, <2>1, ArrivalsCreated
  <2>3. route[x.veh] \in Routes
    BY <2>2 DEF TypeOK, Vehicles
  <2>4. Up[route[x.veh][1]] = e /\ route[x.veh][1] \in Links
    BY <1>1, <2>1, <2>3, NetworkAssumption DEF Places, OnRoute, MesoLinks
  <2>5. route[x.veh][1] = q
    BY <1>1, <2>4 DEF OneLinkEntries, OutLinks
  <2>6. x.veh \in ToSet(waiting[q])
    BY <1>1, <2>1, <2>5 DEF Places, Queued
  <2> QED BY <2>6 DEF ToSet
<1> HIDE DEF e, v, q, b, A, M
<1>6. arrivals \in [Keys -> SUBSET Records] /\ event \in [Nodes -> Nat]
      /\ via \in [Nodes -> Keys] /\ nextArrival \in [Keys -> [time : Nat, veh : Vehicles \cup {0}]]
      /\ \A n \in Nodes : via[n] \in Incoming(n) \cup {n}
  BY DEF TypeOK, Records
<1>7. Pending' = Pending
  BY <1>4 DEF Pending
<1>8. \A k \in Keys : arrivals[k] \subseteq arrivals'[k]
  BY <1>3, <1>4, <1>6 DEF A
<1>9. CASE UNCHANGED <<event, via, nextArrival>>
  BY <1>6, <1>7, <1>8, <1>9 DEF Scheduled
<1>10. CASE /\ waiting[q] = <<>>
            /\ event' = [event EXCEPT ![e] = inst] /\ via' = [via EXCEPT ![e] = e]
            /\ nextArrival' = [nextArrival EXCEPT ![e] = b]
  <2>1. /\ event'[e] = inst /\ via'[e] = e /\ nextArrival'[e] = b /\ arrivals'[e] = {b}
        /\ b.time = inst
    BY <1>1, <1>3, <1>4, <1>5, <1>6, <1>10 DEF b
  <2>2. ASSUME NEW n \in Nodes \ Pending', event'[n] # Never
        PROVE  /\ nextArrival'[via'[n]] \in arrivals'[via'[n]]
               /\ nextArrival'[via'[n]].time = event'[n]
    <3>1. CASE n = e
      BY <2>1, <3>1
    <3>2. CASE n # e
      <4>1. event'[n] = event[n] /\ via'[n] = via[n] /\ via[n] \in Keys
        BY <1>6, <1>10, <2>2, <3>2
      <4>2. via[n] # e
        <5>1. via[n] \in Links \/ via[n] = n
          BY <1>6, <2>2 DEF Incoming, InLinks
        <5> QED BY <5>1, <1>1, <3>2
      <4>3. nextArrival'[via[n]] = nextArrival[via[n]]
        BY <1>6, <1>10, <4>1, <4>2
      <4>4. n \in Nodes \ Pending
        BY <1>7, <2>2
      <4> QED BY <1>8, <2>2, <4>1, <4>3, <4>4 DEF Scheduled
    <3> QED BY <3>1, <3>2
  <2> QED BY <2>2 DEF Scheduled
<1> QED BY <1>4, <1>9, <1>10

(* A node that gets an arrival back had no event.                          *)
LEMMA ScheduledSupplies ==
  ASSUME TypeOK, Scheduled, Supplies
  PROVE  /\ Scheduled'
         /\ \A n \in Nodes : event[n] # Never => nextArrival'[via[n]] = nextArrival[via[n]]
<1>1. /\ UNCHANGED <<event, via, arrivals>> /\ stage = "supplies"
      /\ nextArrival' = [k \in Keys |-> IF Reawakens(k) THEN MinArrival(arrivals[k])
                                        ELSE nextArrival[k]]
  BY DEF Supplies
<1>2. ASSUME NEW n \in Nodes, event[n] # Never
      PROVE  /\ nextArrival'[via[n]] = nextArrival[via[n]]
             /\ nextArrival[via[n]] \in arrivals[via[n]]
             /\ nextArrival[via[n]].time = event[n]
  <2>1. via[n] \in Keys
    BY DEF TypeOK
  <2>2. /\ nextArrival[via[n]] \in arrivals[via[n]]
        /\ nextArrival[via[n]].time = event[n]
    BY <1>1, <1>2 DEF Scheduled, Pending
  <2>3. nextArrival[via[n]] # Nobody
    BY <2>2, <1>2 DEF Nobody
  <2>4. ~Reawakens(via[n])
    BY <2>3 DEF Reawakens
  <2> QED BY <1>1, <2>1, <2>2, <2>4
<1> QED BY <1>1, <1>2 DEF Scheduled

(* Only the node that is scheduled stops being pending.                    *)
LEMMA PendingUpdate ==
  ASSUME TypeOK, UpdateNode
  PROVE  Head(todo) \in Nodes /\ \A m \in Pending : m = Head(todo) \/ m \in Pending'
<1> DEFINE n == Head(todo)
<1>1. n \in Nodes /\ stage = "nodes" /\ stage' = "nodes" /\ todo' = Tail(todo)
      /\ todo # <<>> /\ todo \in Seq(Nodes)
  BY HeadTailProperties DEF TypeOK, UpdateNode
<1>2. ASSUME NEW i \in DOMAIN todo PROVE todo[i] = n \/ todo[i] \in ToSet(todo')
  <2>1. i \in 1 .. Len(todo) /\ Len(todo) \in Nat /\ Head(todo) = todo[1]
    BY <1>1
  <2>2. CASE i = 1
    BY <2>1, <2>2
  <2>3. CASE i # 1
    <3>1. i - 1 \in 1 .. Len(todo) - 1 /\ i - 1 + 1 = i
      BY <2>1, <2>3
    <3>2. /\ DOMAIN Tail(todo) = 1 .. Len(todo) - 1
          /\ \A j \in 1 .. Len(todo) - 1 : Tail(todo)[j] = todo[j + 1]
      BY <1>1, HeadTailProperties
    <3> QED BY <1>1, <3>1, <3>2 DEF ToSet
  <2> QED BY <2>2, <2>3
<1> QED BY <1>1, <1>2 DEF Pending, ToSet

(* A node that is scheduled gets the arrival of its event.                 *)
LEMMA ScheduledUpdate ==
  ASSUME TypeOK, Scheduled, UpdateNode
  PROVE  Scheduled'
<1> DEFINE n == Head(todo)
<1>1. n \in Nodes /\ stage = "nodes" /\ stage' = "nodes" /\ todo' = Tail(todo)
      /\ todo # <<>> /\ todo \in Seq(Nodes)
  BY HeadTailProperties DEF TypeOK, UpdateNode
<1>2. \A m \in Pending : m = n \/ m \in Pending'
  BY PendingUpdate
<1> HIDE DEF n
<1>3. /\ arrivals \in [Keys -> SUBSET Records] /\ event \in [Nodes -> Nat]
      /\ via \in [Nodes -> Keys] /\ nextArrival \in [Keys -> [time : Nat, veh : Vehicles \cup {0}]]
      /\ \A m \in Nodes : via[m] \in Incoming(m) \cup {m}
  BY DEF TypeOK, Records
<1>4. \A m \in Nodes : \A u \in Incoming(n) \cup {n} : m # n => via[m] # u
  <2>1. ASSUME NEW m \in Nodes, NEW u \in Incoming(n) \cup {n}, m # n PROVE via[m] # u
    <3>1. via[m] = m \/ (via[m] \in Links /\ Down[via[m]] = m)
      BY <1>3 DEF Incoming, InLinks
    <3>2. u = n \/ (u \in Links /\ Down[u] = n)
      BY <2>1 DEF Incoming, InLinks
    <3> QED BY <1>1, <2>1, <3>1, <3>2, NetworkAssumption
  <2> QED BY <2>1
<1>5. CASE IdleNode(n)
  <2>1. /\ event' = [event EXCEPT ![n] = Never] /\ via' = [via EXCEPT ![n] = n]
        /\ nextArrival' = [nextArrival EXCEPT ![n] = Nobody] /\ arrivals' = arrivals
    BY <1>5 DEF IdleNode
  <2>2. ASSUME NEW m \in Nodes \ Pending', event'[m] # Never
        PROVE  /\ nextArrival'[via'[m]] \in arrivals'[via'[m]]
               /\ nextArrival'[via'[m]].time = event'[m]
    <3>1. m # n
      BY <2>1, <2>2, <1>1, <1>3
    <3>2. via[m] # n /\ m \in Nodes \ Pending
      BY <1>2, <1>4, <2>2, <3>1
    <3>3. event'[m] = event[m] /\ via'[m] = via[m] /\ nextArrival'[via[m]] = nextArrival[via[m]]
      BY <1>3, <2>1, <2>2, <3>1, <3>2
    <3> QED BY <2>1, <2>2, <3>2, <3>3 DEF Scheduled
  <2> QED BY <2>2 DEF Scheduled
<1>6. ASSUME NEW o \in EventLinks(n), NEW u \in Selected(n, o), ScheduleNode(n, o, u)
      PROVE  Scheduled'
  <2>1. o \in Outgoing(n) /\ u \in Candidates(n, o)
    BY DEF EventLinks, Selected, Congested
  <2> DEFINE a == FrontOf(arrivals[u])
             b == [a EXCEPT !.time = EventTime(n, o)]
  <2>2. u \in Keys /\ u \in Incoming(n)
    BY <1>1, <2>1, LocalEvent DEF Candidates
  <2>3. /\ event' = [event EXCEPT ![n] = b.time] /\ via' = [via EXCEPT ![n] = u]
        /\ arrivals' = [arrivals EXCEPT ![u] = (@ \ {a}) \cup {b}]
        /\ nextArrival' = [nextArrival EXCEPT ![u] = b]
    BY <1>6 DEF ScheduleNode
  <2> HIDE DEF a, b
  <2>4. ASSUME NEW m \in Nodes \ Pending', event'[m] # Never
        PROVE  /\ nextArrival'[via'[m]] \in arrivals'[via'[m]]
               /\ nextArrival'[via'[m]].time = event'[m]
    <3>1. CASE m = n
      BY <1>1, <1>3, <2>2, <2>3, <3>1
    <3>2. CASE m # n
      <4>1. via[m] # u /\ m \in Nodes \ Pending /\ via[m] \in Keys
        BY <1>2, <1>3, <1>4, <2>2, <2>4, <3>2
      <4>2. /\ event'[m] = event[m] /\ via'[m] = via[m]
            /\ nextArrival'[via[m]] = nextArrival[via[m]]
            /\ arrivals'[via[m]] = arrivals[via[m]]
        BY <1>3, <2>3, <2>4, <3>2, <4>1
      <4> QED BY <2>4, <4>1, <4>2 DEF Scheduled
    <3> QED BY <3>1, <3>2
  <2> QED BY <2>4 DEF Scheduled
<1> QED BY <1>5, <1>6 DEF UpdateNode, n

(* Who is scheduled again after a passage.                                 *)
LEMMA PendingAfterPassage ==
  ASSUME TypeOK, NEW u, NEW a, NEW d, Passing(u, a, d),
         Inserted(u, a, d) \/ Refused(u, a, d) \/ Departed(u, a, d)
  PROVE  node \in Pending' /\ (Inserted(u, a, d) => Down[d] \in Pending')
<1>1. stage' = "nodes" /\ node \in Nodes /\ todo \in Seq(Nodes)
  BY DEF Passing, TypeOK
<1>2. CASE Inserted(u, a, d)
  <2>1. todo' = todo \o <<node, Down[d]>> /\ Down[d] \in Nodes
    BY <1>2, NetworkAssumption DEF Inserted, MesoLinks
  <2> DEFINE s == <<node, Down[d]>>
  <2>2. s \in Seq(Nodes) /\ Len(s) = 2 /\ s[1] = node /\ s[2] = Down[d]
    BY <1>1, <2>1
  <2>3. todo' = todo \o s
    BY <2>1
  <2> HIDE DEF s
  <2>4. Len(todo) \in Nat
    BY <1>1
  <2> DEFINE t == todo
  <2>7. t \in Seq(Nodes) /\ todo' = t \o s /\ Len(t) \in Nat /\ Len(t) = Len(todo)
    BY <1>1, <2>3, <2>4
  <2> HIDE DEF t
  <2>8. /\ t \o s \in Seq(Nodes) /\ Len(t \o s) = Len(t) + Len(s)
        /\ \A i \in 1 .. Len(t) + Len(s) :
              (t \o s)[i] = IF i <= Len(t) THEN t[i] ELSE s[i - Len(t)]
    BY <2>2, <2>7, ConcatProperties
  <2>5. /\ Len(todo') = Len(todo) + 2 /\ todo' \in Seq(Nodes)
        /\ \A i \in 1 .. Len(todo) + 2 :
              i > Len(todo) => todo'[i] = s[i - Len(todo)]
    BY <2>2, <2>7, <2>8
  <2>6. /\ Len(todo) + 1 \in DOMAIN todo' /\ todo'[Len(todo) + 1] = node
        /\ Len(todo) + 2 \in DOMAIN todo' /\ todo'[Len(todo) + 2] = Down[d]
    BY <2>2, <2>4, <2>5
  <2> QED BY <1>1, <2>6 DEF Pending, ToSet
<1>3. CASE ~Inserted(u, a, d)
  <2>1. todo' = Append(todo, node)
    BY <1>3 DEF Refused, Departed
  <2>2. Len(todo) + 1 \in DOMAIN todo' /\ todo'[Len(todo) + 1] = node
    BY <1>1, <2>1
  <2> QED BY <1>1, <1>3, <2>2 DEF Pending, ToSet
<1> QED BY <1>2, <1>3

(* A passage changes no list the nodes that are not updated refer to.      *)
LEMMA SamePassage ==
  ASSUME TypeOK, NEW u, NEW a, NEW d, Passing(u, a, d),
         Inserted(u, a, d) \/ Refused(u, a, d) \/ Departed(u, a, d)
  PROVE  \A n \in Nodes \ Pending' :
           /\ n \notin Pending /\ arrivals'[via[n]] = arrivals[via[n]]
           /\ nextArrival'[via[n]] = nextArrival[via[n]]
<1>1. /\ stage = "passage" /\ event' = event /\ via' = via /\ u \in Keys
      /\ u \in Links => Down[u] = node
      /\ u \in Nodes => u = node
  BY NetworkAssumption DEF Passing, MesoLinks, Entries, Keys
<1>2. node \in Pending' /\ (Inserted(u, a, d) => Down[d] \in Pending')
  BY PendingAfterPassage
<1>3. /\ arrivals \in [Keys -> SUBSET Records]
      /\ via \in [Nodes -> Keys] /\ nextArrival \in [Keys -> [time : Nat, veh : Vehicles \cup {0}]]
      /\ \A m \in Nodes : via[m] \in Incoming(m) \cup {m}
  BY DEF TypeOK, Records
<1>4. ASSUME NEW k \in Keys, k # u, Inserted(u, a, d) => k # d
      PROVE  arrivals'[k] = arrivals[k] /\ nextArrival'[k] = nextArrival[k]
  BY <1>3, <1>4 DEF Inserted, Refused, Departed
<1>5. ASSUME NEW n \in Nodes \ Pending'
      PROVE  /\ via[n] \in Keys /\ via[n] # u /\ (Inserted(u, a, d) => via[n] # d)
             /\ n \notin Pending
  <2>1. via[n] \in Keys /\ (via[n] = n \/ (via[n] \in Links /\ Down[via[n]] = n))
    BY <1>3 DEF Incoming, InLinks
  <2>2. n # node /\ (Inserted(u, a, d) => n # Down[d])
    BY <1>2
  <2>3. via[n] # u
    BY <1>1, <2>1, <2>2
  <2>4. Inserted(u, a, d) => d \in Links /\ d \notin Nodes
    BY NetworkAssumption DEF Inserted, MesoLinks
  <2> QED BY <1>1, <2>1, <2>2, <2>3, <2>4 DEF Pending
<1>6. \A n \in Nodes \ Pending' :
         arrivals'[via[n]] = arrivals[via[n]] /\ nextArrival'[via[n]] = nextArrival[via[n]]
  BY <1>4, <1>5
<1> QED BY <1>5, <1>6

(* A passage keeps the events of the nodes it does not update.             *)
LEMMA ScheduledPassage ==
  ASSUME TypeOK, Scheduled, NEW u, NEW a, NEW d, Passing(u, a, d),
         Inserted(u, a, d) \/ Refused(u, a, d) \/ Departed(u, a, d)
  PROVE  Scheduled'
<1>1. event' = event /\ via' = via
  BY DEF Passing
<1>2. \A n \in Nodes \ Pending' :
        /\ n \notin Pending /\ arrivals'[via[n]] = arrivals[via[n]]
        /\ nextArrival'[via[n]] = nextArrival[via[n]]
  BY SamePassage
<1> QED BY <1>1, <1>2 DEF Scheduled

(***************************************************************************)
(* Vehicles on a link.                                                     *)
(***************************************************************************)
LEMMA CountedPassage ==
  ASSUME TypeOK, Places, Counted, NEW u, NEW a, NEW d, Passing(u, a, d),
         Inserted(u, a, d) \/ Refused(u, a, d) \/ Departed(u, a, d)
  PROVE  Counted'
<1> DEFINE v == a.veh
           here == [time |-> now, veh |-> a.veh]
<1>1. /\ u \in Keys /\ d # u /\ v \in Arrivals(u) /\ here \in Records
      /\ left' = [left EXCEPT ![u] = Append(@, here)]
      /\ u \in Entries => u \notin MesoLinks
  BY NetworkAssumption DEF Passing, Arrivals, Records, TypeOK, Entries, MesoLinks
<1>2. /\ left \in [Keys -> Seq(Records)] /\ entered \in [Links -> Seq(Records)]
      /\ MesoLinks \subseteq Links /\ Links \subseteq Keys
  BY DEF TypeOK, Records, MesoLinks, Keys
<1> HIDE DEF v, here
<1>3. ASSUME NEW l \in MesoLinks
      PROVE  IsFiniteSet(on'[l]) /\ Cardinality(on'[l]) = Len(entered'[l]) - Len(left'[l])
  <2>1. /\ IsFiniteSet(on[l]) /\ Cardinality(on[l]) = Len(entered[l]) - Len(left[l])
        /\ on[l] = Arrivals(l) /\ l \in Links /\ l \in Keys
        /\ Len(entered[l]) \in Nat /\ Len(left[l]) \in Nat
    <3>1. l \in Links /\ l \in Keys
      BY <1>2
    <3>2. entered[l] \in Seq(Records) /\ left[l] \in Seq(Records)
      BY <1>2, <3>1
    <3>3. Len(entered[l]) \in Nat /\ Len(left[l]) \in Nat
      BY <3>2
    <3>4. on[l] = Arrivals(l)
      BY DEF Places, OnLinks
    <3>5. IsFiniteSet(on[l]) /\ Cardinality(on[l]) = Len(entered[l]) - Len(left[l])
      BY DEF Counted
    <3> QED BY <3>1, <3>3, <3>4, <3>5
  <2>2. CASE l = u
    <3>1. v \in on[l] /\ on'[l] = on[l] \ {v} /\ entered'[l] = entered[l]
      <4>1. on'[l] = on[l] \ {v}
        BY <1>1, <2>2 DEF Inserted, Refused, Departed, v
      <4>2. entered'[l] = entered[l]
        BY <1>1, <1>2, <2>2 DEF Inserted, Refused, Departed
      <4> QED BY <4>1, <4>2, <1>1, <2>1, <2>2
    <3>2. Len(left'[l]) = Len(left[l]) + 1
      BY <1>1, <1>2, <2>1, <2>2
    <3>3. IsFiniteSet(on'[l]) /\ Cardinality(on'[l]) = Cardinality(on[l]) - 1
      BY <2>1, <3>1, FS_RemoveElement
    <3>4. Cardinality(on[l]) \in Nat
      BY <2>1, FS_CardinalityType
    <3> QED BY <2>1, <3>1, <3>2, <3>3, <3>4
  <2>3. CASE l # u /\ l = d /\ Inserted(u, a, d)
    <3>1. /\ on'[l] = on[l] \cup {v}
          /\ entered'[l] = Append(entered[l], here)
      BY <1>2, <2>1, <2>3 DEF Inserted, v, here
    <3>2. v \notin on[l] /\ left'[l] = left[l]
      BY <1>1, <1>2, <2>1, <2>3 DEF Places, Apart
    <3>3. Len(entered'[l]) = Len(entered[l]) + 1
      BY <1>1, <1>2, <2>1, <3>1
    <3>4. IsFiniteSet(on'[l]) /\ Cardinality(on'[l]) = Cardinality(on[l]) + 1
      BY <2>1, <3>1, <3>2, FS_AddElement
    <3>5. Cardinality(on[l]) \in Nat
      BY <2>1, FS_CardinalityType
    <3> QED BY <2>1, <3>2, <3>3, <3>4, <3>5
  <2>4. CASE l # u /\ ~(l = d /\ Inserted(u, a, d))
    <3>1. on'[l] = on[l] /\ entered'[l] = entered[l]
      BY <1>2, <2>1, <2>4 DEF Inserted, Refused, Departed
    <3>2. left'[l] = left[l]
      BY <1>1, <1>2, <2>1, <2>4
    <3> QED BY <2>1, <3>1, <3>2
  <2> QED BY <2>2, <2>3, <2>4
<1> QED BY <1>3 DEF Counted

(* What the entries and exits of links do not touch is counted as before.   *)
LEMMA CountedKept ==
  ASSUME Counted, UNCHANGED <<entered, left, on>>
  PROVE  Counted'
BY DEF Counted

(***************************************************************************)
(* The invariant.                                                          *)
(***************************************************************************)
LEMMA InitInvariant ==
  ASSUME Init
  PROVE  IInv
<1>1. /\ stage = "call" /\ todo = <<>> /\ route = <<>> /\ gone = {}
      /\ event = [n \in Nodes |-> Never] /\ arrivals = [k \in Keys |-> {}]
      /\ entered = [l \in Links |-> <<>>] /\ left = [k \in Keys |-> <<>>]
      /\ on = [l \in MesoLinks |-> {}] /\ waiting = [l \in MesoLinks |-> <<>>]
  BY DEF Init
<1>2. /\ \A k \in Keys : arrivals[k] = {} /\ Arrivals(k) = {} /\ left[k] = <<>>
      /\ Vehicles = {}
  BY <1>1 DEF Arrivals, Vehicles
<1>3. Links \subseteq Keys /\ Nodes \subseteq Keys /\ MesoLinks \subseteq Links
  BY DEF Keys, MesoLinks
<1>4. OnRoute /\ Apart /\ Present
  BY <1>1, <1>2, <1>3 DEF OnRoute, Apart, Present
<1>5. OnLinks
  BY <1>1, <1>2, <1>3 DEF OnLinks
<1>6. Queued
  <2> SUFFICES ASSUME NEW l \in MesoLinks
               PROVE  /\ ToSet(waiting[l]) = {v \in Arrivals(Up[l]) : route[v][1] = l}
                      /\ \A i, j \in DOMAIN waiting[l] :
                            waiting[l][i] = waiting[l][j] => i = j
    BY DEF Queued
  <2>1. waiting[l] = <<>> /\ Up[l] \in Keys
    BY <1>1, <1>3, NetworkAssumption
  <2>2. Arrivals(Up[l]) = {}
    BY <1>2, <2>1
  <2> QED BY <2>1, <2>2 DEF ToSet
<1>7. Single
  BY <1>2 DEF Single, SingleIn
<1>8. Scheduled
  BY <1>1 DEF Scheduled
<1>9. Current
  BY <1>1 DEF Current
<1>10. Counted
  <2> SUFFICES ASSUME NEW l \in MesoLinks
               PROVE  /\ IsFiniteSet(on[l])
                      /\ Cardinality(on[l]) = Len(entered[l]) - Len(left[l])
    BY DEF Counted
  <2>1. on[l] = {} /\ entered[l] = <<>> /\ left[l] = <<>>
    BY <1>1, <1>3
  <2> QED BY <2>1, FS_EmptySet
<1> QED BY <1>4, <1>5, <1>6, <1>7, <1>8, <1>9, <1>10, InitType DEF IInv, Places

(* The event of a passage is the one the call was dispatched for.          *)
LEMMA CurrentStep ==
  ASSUME TypeOK, Current, [Next]_vars
  PROVE  Current'
<1>1. CASE UNCHANGED vars
  BY <1>1 DEF vars, Current
<1>2. ASSUME Dispatch, event' = event PROVE Current'
  <2>1. CASE inst + TimeStep <= now'
    BY <1>2, <2>1 DEF Dispatch, Current
  <2>2. CASE ~(inst + TimeStep <= now')
    BY <1>2, <2>2 DEF Dispatch, Current
  <2> QED BY <2>1, <2>2
<1>3. CASE Call
  <2>1. CASE NextEvent = Never
    BY <1>3, <2>1 DEF Call, Current
  <2>2. CASE NextEvent # Never
    BY <1>2, <1>3, <2>2 DEF Call
  <2> QED BY <2>1, <2>2
<1>4. CASE Decide
  BY <1>2, <1>4 DEF Decide
<1>5. CASE Step \/ EndStep \/ NodesUpdated
  BY <1>5 DEF Step, EndStep, NodesUpdated, Current
<1>6. ASSUME NEW r \in Routes, CreateVehicle(r) PROVE Current'
  BY <1>6 DEF CreateVehicle, Current
<1>7. CASE Supplies
  BY <1>7 DEF Supplies, Current
<1>8. CASE Passage
  BY <1>8 DEF Passage, Current
<1>9. CASE UpdateNode
  BY <1>9 DEF UpdateNode, Current
<1> QED BY <1>1, <1>3, <1>4, <1>5, <1>6, <1>7, <1>8, <1>9 DEF Next

(* Every step keeps the invariant.                                         *)
LEMMA InvariantStep ==
  ASSUME NoLoops, OneLinkEntries, IInv, [Next]_vars
  PROVE  IInv'
<1>1. TypeOK /\ Places /\ Single /\ Scheduled /\ Current /\ Counted
  BY DEF IInv
<1>2. Current'
  BY <1>1, CurrentStep
<1>3. CASE UNCHANGED vars
  <2>1. /\ UNCHANGED <<stage, inst, now, node, todo, event, via, arrivals>>
        /\ UNCHANGED <<nextArrival, supply, entered, left, on, waiting, route, gone>>
    BY <1>3 DEF vars, links
  <2>2. TypeOK'
    BY <1>1, <2>1 DEF TypeOK, Vehicles
  <2>3. Places' /\ Single'
    BY <1>1, <2>1, PlacesKept DEF Single
  <2>4. Scheduled'
    BY <1>1, <2>1 DEF Scheduled, Pending
  <2>5. Counted'
    BY <1>1, <2>1, CountedKept
  <2> QED BY <1>2, <2>2, <2>3, <2>4, <2>5 DEF IInv
<1>4. CASE Call \/ Decide \/ Step \/ EndStep \/ NodesUpdated
  <2>1. /\ UNCHANGED <<route, gone, on, waiting, arrivals>>
        /\ UNCHANGED <<entered, left, on>>
    BY <1>4 DEF Call, Decide, Step, EndStep, NodesUpdated, links
  <2>2. Places' /\ Single'
    BY <1>1, <2>1, PlacesKept DEF Single
  <2>3. Counted'
    BY <1>1, <2>1, CountedKept
  <2>4. TypeOK' /\ Scheduled'
    BY <1>1, <1>4, TypeClock, ScheduledClock
  <2> QED BY <1>2, <2>2, <2>3, <2>4 DEF IInv
<1>5. ASSUME NEW r \in Routes, CreateVehicle(r) PROVE IInv'
  <2>1. TypeOK' /\ Places' /\ Single' /\ Scheduled'
    BY <1>1, <1>5, TypeCreate, PlacesCreate, ScheduledCreate
  <2>2. Counted'
    BY <1>1, <1>5, CountedKept DEF CreateVehicle, links
  <2> QED BY <1>2, <2>1, <2>2 DEF IInv
<1>6. CASE Supplies
  <2>1. /\ UNCHANGED <<route, gone, on, waiting, arrivals>>
        /\ UNCHANGED <<entered, left, on>>
    BY <1>6 DEF Supplies
  <2>2. Places' /\ Single'
    BY <1>1, <2>1, PlacesKept DEF Single
  <2>3. TypeOK' /\ Scheduled'
    BY <1>1, <1>6, TypeSupplies, ScheduledSupplies DEF Places
  <2> QED BY <1>1, <1>2, <2>1, <2>2, <2>3, CountedKept DEF IInv
<1>7. CASE Passage
  <2>1. PICK u, a, d : Passing(u, a, d) /\ (Inserted(u, a, d) \/ Refused(u, a, d)
                                             \/ Departed(u, a, d))
    BY <1>7, PassageCases
  <2>2. TypeOK'
    BY <1>1, <2>1, TypePassage
  <2>3. Places' /\ Single'
    BY <1>1, <2>1, PlacesPassage
  <2>4. Scheduled'
    BY <1>1, <2>1, ScheduledPassage
  <2>5. Counted'
    BY <1>1, <2>1, CountedPassage
  <2> QED BY <1>2, <2>2, <2>3, <2>4, <2>5 DEF IInv
<1>8. CASE UpdateNode
  <2>1. TypeOK' /\ Places' /\ Single' /\ Scheduled'
    BY <1>1, <1>8, TypeUpdate, PlacesUpdate, ScheduledUpdate
  <2>2. Counted'
    BY <1>1, <1>8, CountedKept DEF UpdateNode, links
  <2> QED BY <1>2, <2>1, <2>2 DEF IInv
<1> QED BY <1>3, <1>4, <1>5, <1>6, <1>7, <1>8 DEF Next

(* Whatever the demand and the outcome of the congested nodes, the lists of *)
(* arrivals, the vehicles on the links, the queues of the entries and the   *)
(* events of the nodes stay consistent.                                     *)
THEOREM Invariance ==
  ASSUME NoLoops, OneLinkEntries
  PROVE  Spec => []IInv
<1>1. Init => IInv
  BY InitInvariant
<1>2. IInv /\ [Next]_vars => IInv'
  BY InvariantStep
<1> QED BY <1>1, <1>2, PTL DEF Spec

(***************************************************************************)
(* The properties of the runs.                                             *)
(***************************************************************************)
(* A vehicle that has not left is in the arrivals of one node or link.     *)
LEMMA PlaceOfVehicle ==
  ASSUME Apart, Present, NEW v \in Vehicles
  PROVE  Cardinality({k \in Keys : v \in Arrivals(k)}) = IF v \in gone THEN 0 ELSE 1
<1> DEFINE K == {k \in Keys : v \in Arrivals(k)}
<1>1. CASE v \in gone
  <2>1. K = {}
    BY <1>1 DEF Present
  <2> HIDE DEF K
  <2>2. Cardinality(K) = 0
    BY <2>1, FS_EmptySet
  <2> QED BY <1>1, <2>2 DEF K
<1>2. CASE v \notin gone
  <2>1. PICK k \in Keys : v \in Arrivals(k)
    BY <1>2 DEF Present
  <2>2. K = {k}
    BY <2>1 DEF Apart
  <2> HIDE DEF K
  <2>3. Cardinality(K) = 1
    BY <2>2, FS_Singleton
  <2> QED BY <1>2, <2>3 DEF K
<1> QED BY <1>1, <1>2

(* A list of single vehicles has as many records as vehicles.              *)
LEMMA OneRecordEach ==
  ASSUME NEW A, IsFiniteSet(A), SingleIn(A)
  PROVE  Cardinality(VehsOf(A)) = Cardinality(A)
<1> DEFINE f == [a \in A |-> a.veh]
           V == VehsOf(A)
<1>1. f \in [A -> V] /\ \A v \in V : \E a \in A : f[a] = v
  BY DEF VehsOf
<1>2. \A a, b \in A : f[a] = f[b] => a = b
  BY DEF SingleIn
<1> HIDE DEF f, V
<1>3. f \in Bijection(A, V)
  BY <1>1, <1>2 DEF Bijection, Injection, Surjection, IsInjective
<1>4. Cardinality(A) = Cardinality(V)
  <2> DEFINE B == Bijection(A, V)
  <2>1. f \in B
    BY <1>3
  <2> HIDE DEF B
  <2>2. B # {}
    BY <2>1
  <2> QED BY <2>2, FS_Bijection DEF B, ExistsBijection
<1> QED BY <1>4 DEF V

(* Who waits at an entry is in the queue of the link he goes to.           *)
LEMMA QueuesOfEntry ==
  ASSUME TypeOK, OnRoute, Queued, NEW e \in Entries
  PROVE  Arrivals(e) = UNION {ToSet(waiting[l]) : l \in OutLinks(e) \cap MesoLinks}
<1>1. e \in Nodes /\ e \in Keys
  BY DEF Entries, Keys
<1>2. ASSUME NEW v \in Arrivals(e)
      PROVE  \E l \in OutLinks(e) \cap MesoLinks : v \in ToSet(waiting[l])
  <2>1. v \in Vehicles /\ Up[route[v][1]] = e
    BY <1>1, ArrivalsCreated DEF OnRoute
  <2>2. route[v] \in Routes
    BY <2>1 DEF TypeOK, Vehicles
  <2>3. route[v][1] \in MesoLinks /\ route[v][1] \in Links
    BY <2>2, NetworkAssumption DEF MesoLinks
  <2>4. route[v][1] \in OutLinks(e)
    BY <2>1, <2>3 DEF OutLinks
  <2>5. v \in ToSet(waiting[route[v][1]])
    BY <2>1, <2>3 DEF Queued
  <2> QED BY <2>3, <2>4, <2>5
<1>3. ASSUME NEW l \in OutLinks(e) \cap MesoLinks, NEW v \in ToSet(waiting[l])
      PROVE  v \in Arrivals(e)
  BY <1>3 DEF Queued, OutLinks
<1> QED BY <1>2, <1>3

(* The invariant gives each vehicle one place.                             *)
LEMMA PlacesAgree ==
  ASSUME IInv
  PROVE  OnePlace
<1>1. TypeOK /\ OnRoute /\ Apart /\ Present /\ OnLinks /\ Queued /\ Single
  BY DEF IInv, Places
<1>2. \A v \in Vehicles :
        Cardinality({k \in Keys : v \in Arrivals(k)}) = IF v \in gone THEN 0 ELSE 1
  BY <1>1, PlaceOfVehicle
<1>3. \A l \in MesoLinks : on[l] = Arrivals(l)
  BY <1>1 DEF OnLinks
<1>4. \A e \in Entries :
        Arrivals(e) = UNION {ToSet(waiting[l]) : l \in OutLinks(e) \cap MesoLinks}
  BY <1>1, QueuesOfEntry
<1>5. ASSUME NEW k \in Keys PROVE Cardinality(Arrivals(k)) = Cardinality(arrivals[k])
  <2>1. IsFiniteSet(arrivals[k]) /\ SingleIn(arrivals[k]) /\ Arrivals(k) = VehsOf(arrivals[k])
    BY <1>1, ArrivalsCreated DEF TypeOK, Single
  <2> QED BY <2>1, OneRecordEach
<1> QED BY <1>2, <1>3, <1>4, <1>5 DEF OnePlace

(* The state of the mesoscopic simulation has its types.                   *)
THEOREM TypeCorrect ==
  ASSUME NoLoops, OneLinkEntries
  PROVE  Spec => []TypeOK
<1>1. IInv => TypeOK
  BY DEF IInv
<1> QED BY <1>1, Invariance, PTL

(* A vehicle is never lost nor at two places between its creation and its   *)
(* departure: the arrivals of the nodes, m_currentVehicules of the links    *)
(* and the queues m_mapVehEnAttente of the entries always agree on it.      *)
THEOREM VehiclesAtOnePlace ==
  ASSUME NoLoops, OneLinkEntries
  PROVE  Spec => []OnePlace
<1>1. IInv => OnePlace
  BY PlacesAgree
<1> QED BY <1>1, Invariance, PTL

(* The assertion of SimuTraficMeso that the vehicle of the event is found   *)
(* in the arrivals of its link holds at every call, where each entry leads  *)
(* to one link.                                                             *)
THEOREM EventsHaveArrivals ==
  ASSUME NoLoops, OneLinkEntries
  PROVE  Spec => []EventHasArrival
<1>1. IInv => EventHasArrival
  <2> SUFFICES ASSUME IInv, stage = "call", NEW n \in Nodes, event[n] # Never
               PROVE  /\ nextArrival[via[n]] \in arrivals[via[n]]
                      /\ nextArrival[via[n]].time = event[n]
    BY DEF EventHasArrival
  <2>1. Pending = {}
    BY DEF Pending
  <2> QED BY <2>1 DEF IInv, Scheduled
<1> QED BY <1>1, Invariance, PTL

(***************************************************************************)
(* Headways inside the network.                                            *)
(***************************************************************************)
InnerLinks == {l \in MesoLinks : Up[l] \notin Entries}

(* The simulation ends before DBL_MAX, and an inner link holds two vehicles *)
(* or more.                                                                *)
Horizon == /\ Duration + TimeStep + Headway <= Never
           /\ \A l \in MesoLinks : Duration + TimeStep + Wave[l] <= Never
RoomForTwo == \A l \in InnerLinks : Storage[l] >= 2

(* The clock of the time steps and the clock of the events.                *)
Clock == /\ inst < Duration + TimeStep
         /\ stage \notin {"call", "create"} => inst < Duration
         /\ stage \in {"supplies", "passage"} => now = Never \/ now < inst + TimeStep
         /\ now <= Never /\ \A n \in Nodes : event[n] <= Never

(* When vehicles entered and left the links.                               *)
Dated == \A l \in Links :
           /\ \A i \in DOMAIN entered[l] : entered[l][i].time < Duration + TimeStep
           /\ \A i \in DOMAIN left[l] : left[l][i].time < Duration + TimeStep

(* A link takes nobody sooner than a headway after the last vehicle; its   *)
(* supply time is postponed only while it is full.                         *)
SupplyKept == \A l \in InnerLinks :
  entered[l] # <<>> => supply[l] >= entered[l][Rank(l)].time + Headway
BlockedFull == \A l \in InnerLinks : supply[l] = Never =>
  Len(entered[l]) - Len(left[l]) >= Storage[l] - (IF stage = "passage" THEN 0 ELSE 1)

(* No event is earlier than the supply time of the link ahead.             *)
AheadOf(n) == NextLink(nextArrival[via[n]].veh, via[n])
After(r, k) == IF k \in Nodes THEN r[1]
               ELSE LET i == CHOOSE i \in DOMAIN r : r[i] = k
                    IN  IF i = Len(r) THEN Down[k] ELSE r[i + 1]
SupplyRespected ==
  \A n \in Nodes \ Pending : event[n] # Never =>
     (AheadOf(n) \in InnerLinks => supply[AheadOf(n)] <= event[n])

Timed == Clock /\ Dated /\ SupplyKept /\ BlockedFull /\ SupplyRespected /\ HeadwayKept

(* Both clocks advance within the horizon.                                 *)
LEMMA ClockStep ==
  ASSUME Horizon, TypeOK, Clock, [Next]_vars
  PROVE  Clock'
<1>1. /\ Duration + TimeStep <= Never /\ Duration \in Nat /\ TimeStep \in Nat \ {0}
      /\ inst \in Nat /\ now \in Nat /\ event \in [Nodes -> Nat]
  BY ClockAssumption DEF Horizon, TypeOK, Never
<1>2. NextEvent \in Nat /\ NextEvent <= Never
  <2>1. PICK n \in Nodes : event[n] = NextEvent
    BY EarliestEvent
  <2> QED BY <1>1, <2>1 DEF Clock
<1>3. Never \in Nat
  BY DEF Never
<1>4. CASE UNCHANGED vars
  BY <1>4 DEF vars, Clock
<1>5. ASSUME Dispatch, inst < Duration, UNCHANGED <<inst, event>> PROVE Clock'
  <2>1. now' = NextEvent /\ now' <= Never
    BY <1>2, <1>5 DEF Dispatch
  <2>2. CASE inst + TimeStep <= now'
    BY <1>1, <1>5, <2>1, <2>2 DEF Dispatch, Clock
  <2>3. CASE ~(inst + TimeStep <= now')
    <3>1. now' < inst + TimeStep
      BY <1>1, <1>2, <2>1, <2>3
    <3> QED BY <1>1, <1>5, <2>1, <2>3, <3>1 DEF Dispatch, Clock
  <2> QED BY <2>2, <2>3
<1>6. CASE Call
  <2>1. CASE NextEvent = Never
    BY <1>1, <1>3, <1>6, <2>1 DEF Call, Clock
  <2>2. CASE NextEvent # Never
    BY <1>5, <1>6, <2>2 DEF Call
  <2> QED BY <2>1, <2>2
<1>7. CASE Decide
  BY <1>5, <1>7 DEF Decide, Clock
<1>8. CASE Step
  <2>1. inst < Duration /\ inst' = inst + TimeStep /\ stage' = "create"
        /\ UNCHANGED <<now, event>>
    BY <1>8 DEF Step, Clock
  <2> QED BY <1>1, <2>1 DEF Clock
<1>9. CASE EndStep
  BY <1>9 DEF EndStep, Clock
<1>10. CASE NodesUpdated
  BY <1>10 DEF NodesUpdated, Clock
<1>11. ASSUME NEW r \in Routes, CreateVehicle(r) PROVE Clock'
  <2>1. UNCHANGED <<stage, inst, now>> /\ stage = "create"
        /\ (event' = event \/ event' = [event EXCEPT ![Up[r[1]]] = inst])
    BY <1>11 DEF CreateVehicle
  <2>2. inst <= Never
    BY <1>1, <1>3 DEF Clock
  <2>3. \A n \in Nodes : event'[n] = event[n] \/ event'[n] = inst
    BY <1>1, <2>1
  <2> QED BY <1>1, <2>1, <2>2, <2>3 DEF Clock
<1>12. CASE Supplies
  BY <1>12 DEF Supplies, Clock
<1>13. CASE Passage
  BY <1>13 DEF Passage, Clock
<1>14. CASE UpdateNode
  <2>1. UNCHANGED <<stage, inst, now>> /\ stage = "nodes"
    BY <1>14 DEF UpdateNode
  <2> DEFINE m == Head(todo)
  <2>2. m \in Nodes
    BY <1>14, HeadTailProperties DEF TypeOK, UpdateNode
  <2>3. CASE IdleNode(m)
    <3>1. event' = [event EXCEPT ![m] = Never]
      BY <2>3 DEF IdleNode
    <3>2. \A n \in Nodes : event'[n] = event[n] \/ event'[n] = Never
      BY <1>1, <3>1
    <3> QED BY <1>1, <1>3, <2>1, <3>2 DEF Clock
  <2>4. ASSUME NEW o \in EventLinks(m), NEW u \in Selected(m, o), ScheduleNode(m, o, u)
        PROVE  Clock'
    <3> HIDE DEF m
    <3>1. event' = [event EXCEPT ![m] = EventTime(m, o)]
      BY <2>4 DEF ScheduleNode
    <3>2. o \in Outgoing(m) /\ LocalEventTime(m, o) < Never
      BY DEF EventLinks
    <3>3. EventTime(m, o) \in {LocalEventTime(m, o), now} /\ EventTime(m, o) \in Nat
      BY <2>2, <3>2, EventType
    <3>4. EventTime(m, o) <= Never
      BY <1>3, <3>2, <3>3 DEF Clock
    <3>5. \A n \in Nodes : event'[n] = event[n] \/ event'[n] = EventTime(m, o)
      BY <1>1, <3>1
    <3> QED BY <2>1, <3>4, <3>5 DEF Clock
  <2> QED BY <1>14, <2>3, <2>4 DEF UpdateNode
<1> QED BY <1>4, <1>6, <1>7, <1>8, <1>9, <1>10, <1>11, <1>12, <1>13, <1>14 DEF Next

(* The vehicles that entered and left a link are counted.                  *)
LEMMA LengthsOfLink ==
  ASSUME TypeOK, NEW l \in MesoLinks
  PROVE  /\ l \in Links /\ l \in Keys
         /\ entered[l] \in Seq(Records) /\ left[l] \in Seq(Records)
         /\ Len(entered[l]) \in Nat /\ Len(left[l]) \in Nat
         /\ Storage[l] \in Nat \ {0} /\ Wave[l] \in Nat
<1>1. l \in Links /\ l \in Keys
  BY DEF MesoLinks, Keys
<1>2. entered[l] \in Seq(Records) /\ left[l] \in Seq(Records)
  BY <1>1 DEF TypeOK, Records
<1>3. Len(entered[l]) \in Nat /\ Len(left[l]) \in Nat
  BY <1>2
<1> QED BY <1>1, <1>2, <1>3, NetworkAssumption

(* Steps that touch no link keep what is known of the links.               *)
LEMMA LinksKept ==
  ASSUME TypeOK, Dated, SupplyKept, HeadwayKept, BlockedFull,
         UNCHANGED <<entered, left, supply>>, stage' # "passage"
  PROVE  Dated' /\ SupplyKept' /\ HeadwayKept' /\ BlockedFull'
<1>1. Dated' /\ SupplyKept' /\ HeadwayKept'
  BY DEF Dated, SupplyKept, HeadwayKept, Rank
<1>2. ASSUME NEW l \in InnerLinks, supply'[l] = Never
      PROVE  Len(entered'[l]) - Len(left'[l])
               >= Storage[l] - (IF stage' = "passage" THEN 0 ELSE 1)
  <2>1. Len(entered[l]) - Len(left[l]) >= Storage[l] - (IF stage = "passage" THEN 0 ELSE 1)
    BY <1>2 DEF BlockedFull
  <2>2. Storage[l] \in Nat
    BY NetworkAssumption DEF InnerLinks
  <2>3. Len(entered[l]) - Len(left[l]) >= Storage[l] - 1
    <3> DEFINE c == Len(entered[l]) - Len(left[l])
    <3>2. c \in Int
      BY LengthsOfLink DEF InnerLinks
    <3>1. CASE stage = "passage"
      <4>1. c >= Storage[l] - 0
        BY <2>1, <3>1
      <4> HIDE DEF c
      <4>2. c >= Storage[l] - 1
        BY <4>1, <2>2, <3>2
      <4> QED BY <4>2 DEF c
    <3> QED BY <2>1, <3>1
  <2> QED BY <2>3
<1> QED BY <1>1, <1>2 DEF BlockedFull

(* Events that are not about an entry concern a vehicle on its itinerary.  *)
LEMMA AheadOfEvent ==
  ASSUME TypeOK, Places, Scheduled, NEW n \in Nodes \ Pending, event[n] # Never
  PROVE  /\ via[n] \in Keys /\ nextArrival[via[n]].veh \in Vehicles
         /\ nextArrival[via[n]].veh \in Arrivals(via[n])
         /\ AheadOf(n) \in Links => Up[AheadOf(n)] = n
<1> DEFINE u == via[n]
           v == nextArrival[u].veh
<1>1. u \in Keys /\ u \in Incoming(n) \cup {n} /\ nextArrival[u] \in arrivals[u]
  BY DEF Scheduled, TypeOK
<1>2. v \in Arrivals(u) /\ v \in Vehicles
  BY <1>1, ArrivalsCreated DEF Arrivals
<1>3. u = n \/ (u \in Links /\ Down[u] = n)
  BY <1>1 DEF Incoming, InLinks
<1> HIDE DEF u, v
<1>4. NextLink(v, u) \in Links => Up[NextLink(v, u)] = n
  <2>1. u \in Nodes => Up[NextLink(v, u)] = u
    BY <1>1, <1>2, NextOfVehicle DEF Places
  <2>2. u \in Links => NextLink(v, u) = Down[u]
                       \/ (NextLink(v, u) \in Links /\ Up[NextLink(v, u)] = Down[u])
    BY <1>1, <1>2, NextOfVehicle DEF Places
  <2>3. Nodes \cap Links = {}
    BY NetworkAssumption
  <2>4. CASE u = n
    BY <2>1, <2>4
  <2>5. CASE u \in Links /\ Down[u] = n
    BY <2>2, <2>3, <2>5
  <2> QED BY <1>3, <2>4, <2>5
<1> QED BY <1>1, <1>2, <1>4 DEF AheadOf, u, v

(* Clocks do not touch the events.                                         *)
LEMMA RespectedClock ==
  ASSUME SupplyRespected, Call \/ Decide \/ Step \/ EndStep \/ NodesUpdated
  PROVE  SupplyRespected'
<1>1. UNCHANGED <<event, via, nextArrival, supply, route>>
  BY DEF Call, Decide, Step, EndStep, NodesUpdated, links
<1>2. Pending \subseteq Pending'
  BY PendingClock
<1>3. \A n \in Nodes : AheadOf(n)' = AheadOf(n)
  BY <1>1 DEF AheadOf, NextLink
<1> QED BY <1>1, <1>2, <1>3 DEF SupplyRespected

(* A vehicle that is created goes to a link that leaves an entry.          *)
LEMMA RespectedCreate ==
  ASSUME TypeOK, Places, Scheduled, SupplyRespected, NEW r \in Routes, CreateVehicle(r)
  PROVE  SupplyRespected'
<1> DEFINE e == Up[r[1]]
           v == Len(route) + 1
           b == [time |-> inst, veh |-> v]
<1>1. e \in Nodes /\ e \in Entries /\ e \in Keys /\ e \notin Links
  BY NetworkAssumption DEF Entries, Keys, MesoLinks
<1>2. /\ UNCHANGED <<stage, todo, supply>> /\ route' = Append(route, r)
      /\ \/ UNCHANGED <<event, via, nextArrival>>
         \/ /\ event' = [event EXCEPT ![e] = inst] /\ via' = [via EXCEPT ![e] = e]
            /\ nextArrival' = [nextArrival EXCEPT ![e] = b]
  BY DEF CreateVehicle, links
<1>3. \A w \in Vehicles : route'[w] = route[w]
  BY <1>2, Newcomer
<1>4. route'[v] = r
  BY <1>2, Newcomer
<1>5. Pending' = Pending
  BY <1>2 DEF Pending
<1>6. /\ event \in [Nodes -> Nat] /\ via \in [Nodes -> Keys]
      /\ nextArrival \in [Keys -> [time : Nat, veh : Vehicles \cup {0}]]
      /\ \A n \in Nodes : via[n] \in Incoming(n) \cup {n}
  BY DEF TypeOK
<1> HIDE DEF e, v, b
<1>7. ASSUME NEW n \in Nodes \ Pending, event[n] # Never,
             event'[n] = event[n], via'[n] = via[n],
             nextArrival'[via[n]] = nextArrival[via[n]],
             AheadOf(n)' \in InnerLinks
      PROVE  supply'[AheadOf(n)'] <= event'[n]
  <2>1. nextArrival[via[n]].veh \in Vehicles
    BY <1>7, AheadOfEvent
  <2>2. AheadOf(n)' = AheadOf(n)
    <3> DEFINE w == nextArrival[via[n]].veh
               k == via[n]
    <3>1. route'[w] = route[w]
      BY <1>3, <2>1
    <3>2. /\ AheadOf(n) = After(route[w], k)
          /\ AheadOf(n)' = After(route'[w], k)
      BY <1>7 DEF AheadOf, NextLink, After
    <3> QED BY <3>1, <3>2
  <2> QED BY <1>2, <1>7, <2>2 DEF SupplyRespected
<1>8. CASE UNCHANGED <<event, via, nextArrival>>
  <2> SUFFICES ASSUME NEW n \in Nodes \ Pending', event'[n] # Never,
                      AheadOf(n)' \in InnerLinks
               PROVE  supply'[AheadOf(n)'] <= event'[n]
    BY DEF SupplyRespected
  <2> QED BY <1>5, <1>7, <1>8
<1>9. CASE /\ event' = [event EXCEPT ![e] = inst] /\ via' = [via EXCEPT ![e] = e]
           /\ nextArrival' = [nextArrival EXCEPT ![e] = b]
  <2> SUFFICES ASSUME NEW n \in Nodes \ Pending', event'[n] # Never,
                      AheadOf(n)' \in InnerLinks
               PROVE  supply'[AheadOf(n)'] <= event'[n]
    BY DEF SupplyRespected
  <2>1. CASE n = e
    <3>1. via'[e] = e /\ nextArrival'[e].veh = v
      BY <1>1, <1>6, <1>9 DEF b
    <3>2. AheadOf(n)' = r[1]
      BY <1>1, <1>4, <2>1, <3>1 DEF AheadOf, NextLink
    <3>3. r[1] \notin InnerLinks
      BY <1>1 DEF InnerLinks, e
    <3> QED BY <3>2, <3>3
  <2>2. CASE n # e
    <3>1. event'[n] = event[n] /\ via'[n] = via[n]
      BY <1>6, <1>9, <2>2
    <3>2. via[n] # e /\ via[n] \in Keys
      <4>1. via[n] \in Links \/ via[n] = n
        BY <1>6 DEF Incoming, InLinks
      <4> QED BY <1>1, <1>6, <2>2, <4>1
    <3>3. nextArrival'[via[n]] = nextArrival[via[n]]
      BY <1>6, <1>9, <3>2
    <3> QED BY <1>5, <1>7, <3>1, <3>3
  <2> QED BY <2>1, <2>2
<1> QED BY <1>2, <1>8, <1>9

(* A node is scheduled no earlier than the supply time of the link ahead.  *)
LEMMA RespectedUpdate ==
  ASSUME TypeOK, SupplyRespected, UpdateNode
  PROVE  SupplyRespected'
<1> DEFINE n == Head(todo)
<1>1. n \in Nodes /\ \A m \in Pending : m = n \/ m \in Pending'
  BY PendingUpdate
<1>2. UNCHANGED <<stage, supply, route>>
  BY DEF UpdateNode, links
<1> HIDE DEF n
<1>3. /\ arrivals \in [Keys -> SUBSET Records] /\ event \in [Nodes -> Nat]
      /\ via \in [Nodes -> Keys] /\ nextArrival \in [Keys -> [time : Nat, veh : Vehicles \cup {0}]]
      /\ \A m \in Nodes : via[m] \in Incoming(m) \cup {m}
  BY DEF TypeOK, Records
<1>4. ASSUME NEW m \in Nodes, NEW u \in Incoming(n) \cup {n}, m # n PROVE via[m] # u
  <2>1. via[m] = m \/ (via[m] \in Links /\ Down[via[m]] = m)
    BY <1>3 DEF Incoming, InLinks
  <2>2. u = n \/ (u \in Links /\ Down[u] = n)
    BY <1>4 DEF Incoming, InLinks
  <2> QED BY <1>1, <1>4, <2>1, <2>2, NetworkAssumption
<1>5. ASSUME NEW m \in Nodes \ Pending', m # n, event'[m] # Never, event'[m] = event[m],
             via'[m] = via[m], nextArrival'[via[m]] = nextArrival[via[m]],
             AheadOf(m)' \in InnerLinks
      PROVE  supply'[AheadOf(m)'] <= event'[m]
  <2>1. m \in Nodes \ Pending
    BY <1>1, <1>5
  <2>2. AheadOf(m)' = AheadOf(m)
    BY <1>2, <1>5 DEF AheadOf, NextLink
  <2> QED BY <1>2, <1>5, <2>1, <2>2 DEF SupplyRespected
<1>6. CASE IdleNode(n)
  <2>1. /\ event' = [event EXCEPT ![n] = Never] /\ via' = [via EXCEPT ![n] = n]
        /\ nextArrival' = [nextArrival EXCEPT ![n] = Nobody]
    BY <1>6 DEF IdleNode
  <2> SUFFICES ASSUME NEW m \in Nodes \ Pending', event'[m] # Never,
                      AheadOf(m)' \in InnerLinks
               PROVE  supply'[AheadOf(m)'] <= event'[m]
    BY DEF SupplyRespected
  <2>2. m # n
    BY <1>1, <1>3, <2>1
  <2>3. via[m] # n /\ via[m] \in Keys
    BY <1>3, <1>4, <2>2
  <2>4. event'[m] = event[m] /\ via'[m] = via[m] /\ nextArrival'[via[m]] = nextArrival[via[m]]
    BY <1>3, <2>1, <2>2, <2>3
  <2> QED BY <1>5, <2>2, <2>4
<1>7. ASSUME NEW o \in EventLinks(n), NEW u \in Selected(n, o), ScheduleNode(n, o, u)
      PROVE  SupplyRespected'
  <2>1. o \in Outgoing(n) /\ u \in Candidates(n, o) /\ LocalEventTime(n, o) < Never
    BY DEF EventLinks, Selected, Congested
  <2> DEFINE a == FrontOf(arrivals[u])
             b == [a EXCEPT !.time = EventTime(n, o)]
  <2>2. u \in Keys /\ u \in Incoming(n) /\ a \in Records
        /\ NextLink(a.veh, u) \in {o, n}
    BY <1>1, <2>1, LocalEvent DEF Candidates
  <2>3. /\ event' = [event EXCEPT ![n] = b.time] /\ via' = [via EXCEPT ![n] = u]
        /\ nextArrival' = [nextArrival EXCEPT ![u] = b]
    BY <1>7 DEF ScheduleNode
  <2>4. b.veh = a.veh /\ b.time = EventTime(n, o)
    BY <2>2 DEF Records
  <2>5. supply[o] <= EventTime(n, o)
    <3>1. supply[o] \in Nat \cup {AnyTime} /\ o \in Keys
      BY <1>1, <2>1 DEF Outgoing, OutLinks, Keys, TypeOK
    <3>2. LocalEventTime(n, o) \in Nat /\ LocalEventTime(n, o) # Never
      BY <1>1, <2>1, LocalEvent DEF Never
    <3>3. LocalEventTime(n, o) = supply[o] \/ LocalEventTime(n, o) > supply[o]
      BY <1>1, <2>1, <3>2, LocalEvent
    <3>4. EventTime(n, o) \in Nat /\ EventTime(n, o) >= LocalEventTime(n, o)
      BY <1>1, <2>1, EventType
    <3> HIDE DEF a, b
    <3> QED BY <3>1, <3>2, <3>3, <3>4 DEF AnyTime
  <2> HIDE DEF a, b
  <2> SUFFICES ASSUME NEW m \in Nodes \ Pending', event'[m] # Never,
                      AheadOf(m)' \in InnerLinks
               PROVE  supply'[AheadOf(m)'] <= event'[m]
    BY DEF SupplyRespected
  <2>6. CASE m = n
    <3>1. via'[n] = u /\ nextArrival'[u] = b /\ event'[n] = EventTime(n, o)
      BY <1>1, <1>3, <2>2, <2>3, <2>4
    <3>2. AheadOf(m)' = NextLink(a.veh, u)
      <4>1. AheadOf(m)' = After(route'[nextArrival'[via'[m]].veh], via'[m])
        BY DEF AheadOf, NextLink, After
      <4>2. NextLink(a.veh, u) = After(route[a.veh], u)
        BY DEF NextLink, After
      <4>3. route' = route /\ nextArrival'[via'[m]].veh = a.veh /\ via'[m] = u
        BY <1>2, <2>4, <2>6, <3>1
      <4> QED BY <4>1, <4>2, <4>3
    <3>4. AheadOf(m)' \in Links
      BY DEF InnerLinks, MesoLinks
    <3>3. NextLink(a.veh, u) = o
      BY <1>1, <2>2, <3>2, <3>4, NetworkAssumption
    <3>5. supply'[AheadOf(m)'] = supply[o]
      BY <1>2, <3>2, <3>3
    <3> QED BY <2>5, <2>6, <3>1, <3>5
  <2>7. CASE m # n
    <3>1. via[m] # u /\ via[m] \in Keys
      BY <1>3, <1>4, <2>2, <2>7
    <3>2. event'[m] = event[m] /\ via'[m] = via[m]
          /\ nextArrival'[via[m]] = nextArrival[via[m]]
      BY <1>3, <2>3, <2>7, <3>1
    <3> QED BY <1>5, <2>7, <3>2
  <2> QED BY <2>6, <2>7
<1> QED BY <1>6, <1>7 DEF UpdateNode, n

(* The instants of the links are far from the horizon.                     *)
LEMMA FarFromNever ==
  ASSUME Horizon, TypeOK, Dated, NEW l \in MesoLinks
  PROVE  /\ entered[l] # <<>> => /\ entered[l][Rank(l)].time + Headway < Never
                                 /\ entered[l][Rank(l)].time + Headway \in Nat
         /\ \A i \in 1 .. Len(left[l]) : left[l][i].time + Wave[l] < Never
<1>1. /\ l \in Links /\ entered[l] \in Seq(Records) /\ left[l] \in Seq(Records)
      /\ Len(entered[l]) \in Nat /\ Len(left[l]) \in Nat /\ Wave[l] \in Nat
  BY LengthsOfLink
<1>2. /\ Duration + TimeStep \in Nat /\ Headway \in Nat
      /\ Duration + TimeStep + Headway <= Never
      /\ Duration + TimeStep + Wave[l] <= Never
  BY ClockAssumption DEF Horizon
<1>3. ASSUME entered[l] # <<>>
      PROVE  /\ entered[l][Rank(l)].time + Headway < Never
             /\ entered[l][Rank(l)].time + Headway \in Nat
  <2>1. Rank(l) \in DOMAIN entered[l]
    BY <1>1, <1>3 DEF Rank
  <2>2. entered[l][Rank(l)] \in Records
    BY <1>1, <2>1, ElementOfSeq
  <2>3. entered[l][Rank(l)].time < Duration + TimeStep
    BY <1>1, <2>1 DEF Dated
  <2>4. entered[l][Rank(l)].time \in Nat
    BY <2>2 DEF Records
  <2> QED BY <1>2, <2>3, <2>4 DEF Never
<1>4. ASSUME NEW i \in 1 .. Len(left[l]) PROVE left[l][i].time + Wave[l] < Never
  <2>1. i \in DOMAIN left[l] /\ left[l][i] \in Records
    BY <1>1, ElementOfSeq
  <2>2. left[l][i].time < Duration + TimeStep /\ left[l][i].time \in Nat
    BY <1>1, <2>1 DEF Dated, Records
  <2> QED BY <1>1, <1>2, <2>2 DEF Never
<1> QED BY <1>3, <1>4

(* The supply times computed once more.                                    *)
LEMMA SupplyRecomputed ==
  ASSUME TypeOK, Supplies, NEW l \in MesoLinks
  PROVE  supply'[l] = IF supply[l] = Never THEN PostponedSupply(l) ELSE supply[l]
<1>1. l \in DOMAIN supply /\ l \notin MicroLinks /\ (l \in Blocked <=> supply[l] = Never)
  BY DEF TypeOK, MesoLinks, Keys, Blocked
<1>2. PICK micro \in [Blocked \cap MicroLinks -> MicroSupplies] :
        supply' = [k \in DOMAIN supply |->
                     IF k \notin Blocked THEN supply[k]
                     ELSE IF k \in MicroLinks THEN micro[k] ELSE PostponedSupply(k)]
  BY DEF Supplies
<1> QED BY <1>1, <1>2

(* A blocked link still holds the vehicle its supply is computed from.     *)
LEMMA LinksSupplies ==
  ASSUME Horizon, RoomForTwo, TypeOK, Places, Counted, Supplies,
         Dated, SupplyKept, HeadwayKept, BlockedFull
  PROVE  Dated' /\ SupplyKept' /\ HeadwayKept' /\ BlockedFull'
<1>1. UNCHANGED <<entered, left>> /\ stage = "supplies"
  BY DEF Supplies
<1>2. Dated' /\ HeadwayKept'
  BY <1>1 DEF Dated, HeadwayKept, Rank
<1>3. ASSUME NEW l \in InnerLinks, supply[l] = Never
      PROVE  /\ entered[l] # <<>>
             /\ PostponedSupply(l) >= entered[l][Rank(l)].time + Headway
             /\ PostponedSupply(l) = Never => Len(entered[l]) - Len(left[l]) >= Storage[l]
  <2>1. l \in MesoLinks /\ Storage[l] \in Nat /\ Storage[l] >= 2
        /\ Len(entered[l]) \in Nat /\ Len(left[l]) \in Nat
    BY LengthsOfLink DEF InnerLinks, RoomForTwo
  <2> DEFINE in == Len(entered[l])
             out == Len(left[l])
             s == Storage[l]
             c == Cardinality(on[l])
  <2>2. in - out >= s - 1
    BY <1>1, <1>3 DEF BlockedFull
  <2>3. c = in - out /\ on[l] = Arrivals(l)
    BY <2>1 DEF Counted, Places, OnLinks
  <2>11. s \in Nat /\ s >= 2 /\ in \in Nat /\ out \in Nat
    BY <2>1
  <2>4. c # 0 /\ in # 0
    <3> HIDE DEF in, out, s, c
    <3> QED BY <2>2, <2>3, <2>11
  <2>5. on[l] # {}
    BY <2>4, FS_EmptySet
  <2>6. arrivals[l] # {}
    BY <2>3, <2>5 DEF Arrivals
  <2>7. /\ PostponedSupply(l) >= entered[l][Rank(l)].time + Headway
        /\ \/ PostponedSupply(l) = entered[l][Rank(l)].time + Headway
           \/ PostponedSupply(l) = DownstreamTime(l, Rank(l))
    BY <2>1, <2>6, PostponedType DEF Places
  <2>8. entered[l] # <<>> /\ Rank(l) \in Nat /\ Rank(l) = Len(entered[l])
    BY <2>1, <2>4 DEF Rank
  <2>9. entered[l][Rank(l)].time + Headway < Never
    BY <2>1, <2>8, FarFromNever
  <2>10. ASSUME PostponedSupply(l) = Never
         PROVE  Len(entered[l]) - Len(left[l]) >= Storage[l]
    <3>1. DownstreamTime(l, Rank(l)) = Never
      BY <2>7, <2>9, <2>10 DEF Never
    <3>2. \/ DownstreamTime(l, Rank(l)) = AnyTime
          \/ Rank(l) - Storage[l] >= Len(left[l])
          \/ \E i \in 1 .. Len(left[l]) :
               DownstreamTime(l, Rank(l)) = left[l][i].time + Wave[l]
      BY <2>1, <2>8, DownstreamType
    <3>3. \A i \in 1 .. Len(left[l]) : left[l][i].time + Wave[l] < Never
      BY <2>1, FarFromNever
    <3>4. Rank(l) - Storage[l] >= Len(left[l])
      BY <3>1, <3>2, <3>3 DEF Never, AnyTime
    <3>5. in - s >= out
      BY <2>8, <3>4
    <3>6. in - out >= s
      <4> HIDE DEF in, out, s, c
      <4> QED BY <2>11, <3>5
    <3> QED BY <3>6
  <2> QED BY <2>7, <2>8, <2>10
<1>4. ASSUME NEW l \in InnerLinks, entered'[l] # <<>>
      PROVE  supply'[l] >= entered'[l][Rank(l)'].time + Headway
  <2>1. Rank(l)' = Rank(l) /\ entered' = entered
    BY <1>1 DEF Rank
  <2>2. supply'[l] = IF supply[l] = Never THEN PostponedSupply(l) ELSE supply[l]
    BY SupplyRecomputed DEF InnerLinks
  <2>3. supply[l] >= entered[l][Rank(l)].time + Headway
    BY <1>4, <2>1 DEF SupplyKept
  <2> QED BY <1>3, <2>1, <2>2, <2>3
<1>5. SupplyKept'
  BY <1>4 DEF SupplyKept
<1>6. ASSUME NEW l \in InnerLinks, supply'[l] = Never
      PROVE  Len(entered'[l]) - Len(left'[l])
               >= Storage[l] - (IF stage' = "passage" THEN 0 ELSE 1)
  <2>1. supply'[l] = IF supply[l] = Never THEN PostponedSupply(l) ELSE supply[l]
    BY SupplyRecomputed DEF InnerLinks
  <2>2. Len(entered[l]) - Len(left[l]) >= Storage[l]
    BY <1>3, <1>6, <2>1
  <2>3. Storage[l] \in Nat /\ Len(entered[l]) \in Nat /\ Len(left[l]) \in Nat
    BY LengthsOfLink DEF InnerLinks
  <2> DEFINE c == Len(entered[l]) - Len(left[l])
             s == Storage[l]
             x == IF stage' = "passage" THEN 0 ELSE 1
  <2>6. c \in Int
    BY <2>3
  <2>4. s \in Nat /\ x \in Nat /\ c >= s
    BY <2>2, <2>3
  <2> HIDE DEF c, s, x
  <2>5. c >= s - x
    BY <2>4, <2>6
  <2> QED BY <1>1, <2>5 DEF c, s, x
<1>7. BlockedFull'
  BY <1>6 DEF BlockedFull
<1> QED BY <1>2, <1>5, <1>7

(* The link ahead of a node with an event is not blocked.                  *)
LEMMA RespectedSupplies ==
  ASSUME TypeOK, Places, Scheduled, Clock, SupplyRespected, Supplies
  PROVE  SupplyRespected'
<1>1. UNCHANGED <<event, via, route>> /\ stage = "supplies"
  BY DEF Supplies
<1>2. Pending = {}
  BY <1>1 DEF Pending
<1>3. ASSUME NEW n \in Nodes \ Pending', event'[n] # Never, AheadOf(n)' \in InnerLinks
      PROVE  supply'[AheadOf(n)'] <= event'[n]
  <2>1. event[n] # Never /\ event[n] \in Nat /\ event[n] <= Never
    BY <1>1, <1>3 DEF TypeOK, Clock
  <2>2. nextArrival'[via[n]] = nextArrival[via[n]]
    BY <2>1, ScheduledSupplies
  <2>3. AheadOf(n)' = AheadOf(n)
    <3>1. /\ AheadOf(n) = After(route[nextArrival[via[n]].veh], via[n])
          /\ AheadOf(n)' = After(route'[nextArrival'[via'[n]].veh], via'[n])
      BY DEF AheadOf, NextLink, After
    <3> QED BY <1>1, <2>2, <3>1
  <2> DEFINE d == AheadOf(n)
  <2>4. d \in InnerLinks /\ d \in MesoLinks /\ d \in Keys
    BY <1>3, <2>3, LengthsOfLink DEF InnerLinks
  <2>5. supply[d] <= event[n] /\ supply[d] \in Nat \cup {AnyTime}
    BY <1>2, <2>1, <2>4 DEF SupplyRespected, TypeOK
  <2> HIDE DEF d
  <2>6. supply[d] # Never
    BY <2>1, <2>5 DEF Never, AnyTime
  <2>7. supply'[d] = supply[d]
    BY <2>4, <2>6, SupplyRecomputed
  <2> QED BY <1>1, <2>3, <2>5, <2>7 DEF d
<1> QED BY <1>3 DEF SupplyRespected

(* A vehicle passes within the current time step.                          *)
LEMMA PassageDates ==
  ASSUME TypeOK, Current, Clock, stage = "passage"
  PROVE  /\ now \in Nat /\ now < Duration + TimeStep /\ now # Never
         /\ Pending = {} /\ event[node] = now /\ node \in Nodes
<1>1. now < inst + TimeStep /\ inst < Duration /\ now # Never /\ event[node] = now
  BY DEF Current, Clock
<1>2. now \in Nat /\ inst \in Nat /\ TimeStep \in Nat /\ Duration \in Nat /\ node \in Nodes
  BY ClockAssumption DEF TypeOK
<1> QED BY <1>1, <1>2 DEF Pending

(* A vehicle enters an inner link no sooner than its supply time.          *)
LEMMA EntersInTime ==
  ASSUME TypeOK, Current, Clock, SupplyRespected, NEW u, NEW a, NEW d,
         Passing(u, a, d), d \in InnerLinks
  PROVE  supply[d] <= now /\ u \notin Entries
<1>1. Pending = {} /\ event[node] = now /\ now # Never /\ node \in Nodes
  BY PassageDates DEF Passing
<1>2. d = AheadOf(node)
  BY DEF Passing, AheadOf
<1>3. supply[d] <= now
  BY <1>1, <1>2 DEF SupplyRespected
<1>4. d \notin Nodes /\ u \in Entries => u \in Nodes
  BY NetworkAssumption DEF InnerLinks, MesoLinks, Entries
<1>5. u \notin Entries
  <2> SUFFICES ASSUME u \in Entries PROVE FALSE
    OBVIOUS
  <2>1. u = node \/ (u \in MesoLinks /\ u \notin Nodes)
    BY DEF Passing
  <2>2. u = node
    BY <1>4, <2>1, NetworkAssumption DEF Entries
  <2>3. u \notin Links
    BY <2>2, <1>1, NetworkAssumption
  <2>4. Up[d] = node
    BY <2>2, <2>3 DEF Passing, MesoLinks
  <2> QED BY <2>2, <2>4 DEF InnerLinks
<1> QED BY <1>3, <1>5

(* What a passage does to the inner links and to the others.               *)
LEMMA PassageOfLinks ==
  ASSUME TypeOK, NEW u, NEW a, NEW d, Passing(u, a, d),
         Inserted(u, a, d) \/ Refused(u, a, d) \/ Departed(u, a, d),
         NEW l \in Links
  PROVE  /\ left'[l] = IF l = u THEN Append(left[l], [time |-> now, veh |-> a.veh])
                       ELSE left[l]
         /\ \/ l = d /\ l # u /\ Inserted(u, a, d) /\ l \in MesoLinks
               /\ entered'[l] = Append(entered[l], [time |-> now, veh |-> a.veh])
               /\ supply'[l] = NextSupplyTime(l, Rank(l) + 1)
            \/ entered'[l] = entered[l] /\ (l \in InnerLinks => supply'[l] = supply[l])
<1>1. l \in Keys /\ left \in [Keys -> Seq(Records)] /\ entered \in [Links -> Seq(Records)]
      /\ supply \in [Keys -> Nat \cup {AnyTime}]
  BY DEF TypeOK, Keys, Records
<1>2. left'[l] = IF l = u THEN Append(left[l], [time |-> now, veh |-> a.veh]) ELSE left[l]
  BY <1>1 DEF Passing
<1>3. d # u
  BY DEF Passing
<1>4. CASE Inserted(u, a, d)
  BY <1>1, <1>2, <1>3, <1>4 DEF Inserted
<1>5. CASE Refused(u, a, d)
  <2>1. entered' = entered /\ supply' = [supply EXCEPT ![d] = NextSupplyTime(d, Rank(d))]
    BY <1>5 DEF Refused
  <2>2. u = node /\ Up[d] = node /\ u \in Entries
    <3>1. u \in Entries
      BY <1>5 DEF Refused
    <3>2. u \in Nodes
      BY <3>1 DEF Entries
    <3>3. u = node /\ Up[d] = node
      BY <3>2 DEF Passing
    <3> QED BY <3>1, <3>3
  <2>3. d \notin InnerLinks
    BY <2>2 DEF InnerLinks
  <2> QED BY <1>1, <1>2, <2>1, <2>3
<1>6. CASE Departed(u, a, d)
  <2>1. entered' = entered /\ d \notin InnerLinks
    BY <1>6 DEF Departed, InnerLinks
  <2>2. PICK s : supply' = [supply EXCEPT ![d] = s]
    BY <1>6 DEF Departed
  <2> QED BY <1>1, <1>2, <2>1, <2>2
<1> QED BY <1>4, <1>5, <1>6

(* What a sequence holds once a record is appended.                        *)
LEMMA Appended ==
  ASSUME NEW S, NEW s \in Seq(S), NEW x \in S
  PROVE  /\ Append(s, x) \in Seq(S) /\ Len(Append(s, x)) = Len(s) + 1
         /\ Len(s) \in Nat
         /\ \A i \in 1 .. Len(s) : Append(s, x)[i] = s[i]
         /\ Append(s, x)[Len(s) + 1] = x
         /\ DOMAIN Append(s, x) = 1 .. Len(s) + 1 /\ DOMAIN s = 1 .. Len(s)
BY AppendProperties

(* The vehicle that passes enters and leaves within the horizon.           *)
LEMMA DatedPassage ==
  ASSUME TypeOK, Current, Clock, Dated, NEW u, NEW a, NEW d, Passing(u, a, d),
         Inserted(u, a, d) \/ Refused(u, a, d) \/ Departed(u, a, d)
  PROVE  Dated'
<1> DEFINE here == [time |-> now, veh |-> a.veh]
           end == Duration + TimeStep
<1>1. here \in Records /\ here.time < end
  BY PassageDates DEF Passing, Records
<1> HIDE DEF here, end
<1>2. ASSUME NEW s \in Seq(Records), \A i \in DOMAIN s : s[i].time < end,
             NEW i \in DOMAIN Append(s, here)
      PROVE  Append(s, here)[i].time < end
  <2>1. i \in 1 .. Len(s) + 1 /\ Len(s) \in Nat /\ DOMAIN s = 1 .. Len(s)
    BY <1>1, Appended
  <2>2. CASE i = Len(s) + 1
    BY <1>1, <2>2, Appended
  <2>3. CASE i # Len(s) + 1
    <3>1. i \in 1 .. Len(s)
      BY <2>1, <2>3
    <3>2. Append(s, here)[i] = s[i]
      BY <1>1, <3>1, Appended
    <3> QED BY <1>2, <2>1, <3>1, <3>2
  <2> QED BY <2>2, <2>3
<1>3. ASSUME NEW l \in Links
      PROVE  /\ \A i \in DOMAIN entered'[l] : entered'[l][i].time < end
             /\ \A i \in DOMAIN left'[l] : left'[l][i].time < end
  <2>1. entered[l] \in Seq(Records) /\ left[l] \in Seq(Records)
    BY DEF TypeOK, Records, Keys
  <2>2. /\ \A i \in DOMAIN entered[l] : entered[l][i].time < end
        /\ \A i \in DOMAIN left[l] : left[l][i].time < end
    BY DEF Dated, end
  <2>3. entered'[l] = entered[l] \/ entered'[l] = Append(entered[l], here)
    BY PassageOfLinks DEF here
  <2>4. left'[l] = left[l] \/ left'[l] = Append(left[l], here)
    BY PassageOfLinks DEF here
  <2>5. \A i \in DOMAIN entered'[l] : entered'[l][i].time < end
    BY <1>2, <2>1, <2>2, <2>3
  <2>6. \A i \in DOMAIN left'[l] : left'[l][i].time < end
    BY <1>2, <2>1, <2>2, <2>4
  <2> QED BY <2>5, <2>6
<1> QED BY <1>3 DEF Dated, end

(* The next supply time is a headway after the vehicle that entered.       *)
LEMMA SupplyPassage ==
  ASSUME TypeOK, Current, Clock, SupplyKept, NEW u, NEW a, NEW d, Passing(u, a, d),
         Inserted(u, a, d) \/ Refused(u, a, d) \/ Departed(u, a, d)
  PROVE  SupplyKept'
<1> DEFINE here == [time |-> now, veh |-> a.veh]
<1>1. here \in Records /\ here.time = now
  BY PassageDates DEF Passing, Records
<1>2. ASSUME NEW l \in InnerLinks, entered'[l] # <<>>
      PROVE  supply'[l] >= entered'[l][Len(entered'[l])].time + Headway
  <2>1. l \in Links /\ l \in MesoLinks /\ entered[l] \in Seq(Records)
        /\ Len(entered[l]) \in Nat
    BY LengthsOfLink DEF InnerLinks
  <2>2. CASE entered'[l] = entered[l] /\ supply'[l] = supply[l]
    BY <1>2, <2>2 DEF SupplyKept, Rank
  <2>3. CASE entered'[l] = Append(entered[l], here)
             /\ supply'[l] = NextSupplyTime(l, Rank(l) + 1)
    <3>1. entered'[l][Len(entered'[l])] = here
      <4> HIDE DEF here
      <4> QED BY <1>1, <2>1, <2>3, Appended
    <3>2. Rank(l) + 1 \in Nat
      BY <2>1 DEF Rank
    <3>3. supply'[l] >= now + Headway
      BY <2>1, <2>3, <3>2, SupplyType
    <3> QED BY <1>1, <3>1, <3>3
  <2> QED BY <2>1, <2>2, <2>3, PassageOfLinks
<1> QED BY <1>2 DEF SupplyKept, Rank

(* A vehicle enters a headway or more after the one before.                *)
LEMMA HeadwayPassage ==
  ASSUME TypeOK, Current, Clock, SupplyKept, SupplyRespected, HeadwayKept,
         NEW u, NEW a, NEW d, Passing(u, a, d),
         Inserted(u, a, d) \/ Refused(u, a, d) \/ Departed(u, a, d)
  PROVE  HeadwayKept'
<1> DEFINE here == [time |-> now, veh |-> a.veh]
<1>1. here \in Records /\ here.time = now /\ now \in Nat /\ Headway \in Nat
  BY PassageDates, ClockAssumption DEF Passing, Records
<1>2. ASSUME NEW l \in InnerLinks, NEW i \in 2 .. Len(entered'[l])
      PROVE  entered'[l][i].time >= entered'[l][i - 1].time + Headway
  <2>1. l \in Links /\ l \in MesoLinks /\ entered[l] \in Seq(Records)
        /\ Len(entered[l]) \in Nat
    BY LengthsOfLink DEF InnerLinks
  <2>2. \A j \in 2 .. Len(entered[l]) :
          entered[l][j].time >= entered[l][j - 1].time + Headway
    BY DEF HeadwayKept, Rank, InnerLinks
  <2>3. CASE entered'[l] = entered[l]
    BY <1>2, <2>2, <2>3
  <2>4. CASE l = d /\ entered'[l] = Append(entered[l], here)
    <3> DEFINE s == entered[l]
               n == Len(s)
    <3>1. s \in Seq(Records) /\ n \in Nat /\ Len(entered'[l]) = n + 1
          /\ entered'[l] = Append(s, here)
      <4> HIDE DEF here
      <4> QED BY <1>1, <2>1, <2>4, Appended
    <3>2. supply[d] <= now
      BY <2>4, EntersInTime
    <3>3. CASE i = n + 1
      <4>1. i - 1 = n /\ n \in 1 .. n /\ s # <<>>
        BY <1>2, <3>1, <3>3
      <4>2. Append(s, here)[i] = here /\ Append(s, here)[i - 1] = s[n]
        <5> HIDE DEF here, s
        <5> QED BY <1>1, <3>1, <3>3, <4>1, Appended
      <4>3. supply[l] >= s[n].time + Headway
        BY <4>1 DEF SupplyKept, Rank
      <4>4. s[n].time \in Nat /\ supply[l] \in Int
        <5>1. s[n] \in Records
          <6> HIDE DEF s
          <6> QED BY <3>1, <4>1, ElementOfSeq
        <5>2. supply[l] \in Nat \cup {AnyTime}
          BY <2>1 DEF TypeOK, Keys
        <5> QED BY <5>1, <5>2 DEF Records, AnyTime
      <4> DEFINE p == supply[l]
                 q == s[n].time
      <4>5. p <= now /\ p >= q + Headway /\ p \in Int /\ q \in Nat
        BY <2>4, <3>2, <4>3, <4>4
      <4> HIDE DEF p, q
      <4>6. now >= q + Headway
        BY <1>1, <4>5
      <4> QED BY <1>1, <3>1, <4>2, <4>6 DEF q
    <3>4. CASE i # n + 1
      <4>1. i \in 2 .. n /\ i \in 1 .. n /\ i - 1 \in 1 .. n
        <5> HIDE DEF n
        <5> QED BY <1>2, <3>1, <3>4
      <4>2. Append(s, here)[i] = s[i] /\ Append(s, here)[i - 1] = s[i - 1]
        <5> HIDE DEF here, s
        <5> QED BY <1>1, <3>1, <4>1, Appended
      <4> QED BY <2>2, <3>1, <4>1, <4>2
    <3> QED BY <3>3, <3>4
  <2>6. \/ l = d /\ l # u /\ Inserted(u, a, d) /\ l \in MesoLinks
           /\ entered'[l] = Append(entered[l], [time |-> now, veh |-> a.veh])
           /\ supply'[l] = NextSupplyTime(l, Rank(l) + 1)
        \/ entered'[l] = entered[l] /\ (l \in InnerLinks => supply'[l] = supply[l])
    BY <2>1, PassageOfLinks
  <2>5. entered'[l] = entered[l] \/ (l = d /\ entered'[l] = Append(entered[l], here))
    BY <2>6
  <2> QED BY <2>3, <2>4, <2>5
<1> QED BY <1>2 DEF HeadwayKept, Rank, InnerLinks

(* A link that is blocked as a vehicle enters it is full.                  *)
LEMMA BlockedPassage ==
  ASSUME Horizon, TypeOK, Current, Clock, Dated, BlockedFull,
         NEW u, NEW a, NEW d, Passing(u, a, d),
         Inserted(u, a, d) \/ Refused(u, a, d) \/ Departed(u, a, d)
  PROVE  BlockedFull'
<1> DEFINE here == [time |-> now, veh |-> a.veh]
<1>1. /\ here \in Records /\ stage = "passage" /\ stage' = "nodes"
  BY PassageDates DEF Passing, Records
<1>2. now + Headway < Never /\ now + Headway \in Nat
  <2>1. now \in Nat /\ now < Duration + TimeStep
    BY <1>1, PassageDates
  <2>2. Duration + TimeStep + Headway <= Never /\ Headway \in Nat
        /\ Duration + TimeStep \in Nat
    BY ClockAssumption DEF Horizon
  <2> QED BY <2>1, <2>2 DEF Never
<1>3. ASSUME NEW l \in InnerLinks, supply'[l] = Never
      PROVE  Len(entered'[l]) - Len(left'[l]) >= Storage[l] - 1
  <2> DEFINE in == Len(entered[l])
             out == Len(left[l])
             in2 == Len(entered'[l])
             out2 == Len(left'[l])
             s == Storage[l]
  <2>1. /\ l \in Links /\ l \in MesoLinks
        /\ entered[l] \in Seq(Records) /\ left[l] \in Seq(Records)
        /\ in \in Nat /\ out \in Nat /\ s \in Nat
    BY LengthsOfLink DEF InnerLinks
  <2>2. out2 = IF l = u THEN out + 1 ELSE out
    <3>1. left'[l] = IF l = u THEN Append(left[l], here) ELSE left[l]
      BY <2>1, PassageOfLinks
    <3>2. Len(Append(left[l], here)) = out + 1
      <4> HIDE DEF here
      <4> QED BY <1>1, <2>1, Appended
    <3> QED BY <3>1, <3>2
  <2>3. CASE /\ l # u /\ entered'[l] = Append(entered[l], here)
             /\ supply'[l] = NextSupplyTime(l, Rank(l) + 1)
    <3>1. in2 = in + 1
      <4> HIDE DEF here
      <4> QED BY <1>1, <2>1, <2>3, Appended
    <3>2. Rank(l) + 1 \in Nat /\ Rank(l) = in
      BY <2>1 DEF Rank
    <3>3. NextSupplyTime(l, Rank(l) + 1) = DownstreamTime(l, Rank(l) + 1)
      BY <1>2, <1>3, <2>1, <2>3, <3>2, SupplyType
    <3>4. DownstreamTime(l, Rank(l) + 1) = Never
      BY <1>3, <2>3, <3>3
    <3>5. \/ DownstreamTime(l, Rank(l) + 1) = AnyTime
          \/ Rank(l) + 1 - Storage[l] >= Len(left[l])
          \/ \E i \in 1 .. Len(left[l]) :
               DownstreamTime(l, Rank(l) + 1) = left[l][i].time + Wave[l]
      BY SMTT(30), <2>1, <3>2, DownstreamType
    <3>6. \A i \in 1 .. Len(left[l]) : left[l][i].time + Wave[l] < Never
      BY <2>1, FarFromNever
    <3>7. Rank(l) + 1 - Storage[l] >= Len(left[l])
      BY <3>4, <3>5, <3>6 DEF Never, AnyTime
    <3>8. in + 1 - s >= out
      BY <3>2, <3>7
    <3>9. in2 - out2 >= s - 1
      <4>1. out2 = out
        BY <2>2, <2>3
      <4> HIDE DEF in, out, in2, out2, s
      <4> QED BY <2>1, <3>1, <3>8, <4>1
    <3> QED BY <3>9
  <2>4. CASE entered'[l] = entered[l] /\ supply'[l] = supply[l]
    <3>1. in - out >= s - 0
      BY <1>1, <1>3, <2>4 DEF BlockedFull
    <3>2. in2 = in
      BY <2>4
    <3>3. in2 - out2 >= s - 1
      <4> HIDE DEF in, out, in2, out2, s
      <4> QED BY <2>1, <2>2, <3>1, <3>2
    <3> QED BY <3>3
  <2>5. \/ /\ l # u /\ entered'[l] = Append(entered[l], here)
           /\ supply'[l] = NextSupplyTime(l, Rank(l) + 1)
        \/ entered'[l] = entered[l] /\ supply'[l] = supply[l]
    BY <2>1, PassageOfLinks
  <2> QED BY <2>3, <2>4, <2>5
<1> QED BY <1>1, <1>3 DEF BlockedFull

(* The nodes that are not updated do not lead to the link entered.         *)
LEMMA RespectedPassage ==
  ASSUME TypeOK, Places, Scheduled, SupplyRespected, NEW u, NEW a, NEW d, Passing(u, a, d),
         Inserted(u, a, d) \/ Refused(u, a, d) \/ Departed(u, a, d)
  PROVE  SupplyRespected'
<1>1. /\ UNCHANGED <<event, via, route>> /\ stage = "passage" /\ Pending = {}
      /\ node \in Nodes
  BY DEF Passing, Pending, TypeOK
<1>2. node \in Pending'
  BY PendingAfterPassage
<1>3. ASSUME NEW n \in Nodes \ Pending', event'[n] # Never, AheadOf(n)' \in InnerLinks
      PROVE  supply'[AheadOf(n)'] <= event'[n]
  <2>1. n \in Nodes \ Pending /\ event[n] # Never /\ n # node
    BY <1>1, <1>2, <1>3
  <2>2. nextArrival'[via[n]] = nextArrival[via[n]]
    BY SamePassage
  <2>3. AheadOf(n)' = AheadOf(n)
    <3>1. /\ AheadOf(n) = After(route[nextArrival[via[n]].veh], via[n])
          /\ AheadOf(n)' = After(route'[nextArrival'[via'[n]].veh], via'[n])
      BY DEF AheadOf, NextLink, After
    <3> QED BY <1>1, <2>2, <3>1
  <2> DEFINE e == AheadOf(n)
  <2>4. e \in InnerLinks /\ e \in Links /\ Up[e] = n
    <3>1. e \in InnerLinks
      BY <1>3, <2>3
    <3>2. e \in Links
      BY <3>1 DEF InnerLinks, MesoLinks
    <3> QED BY <2>1, <3>1, <3>2, AheadOfEvent
  <2>5. supply[e] <= event[n]
    BY <2>1, <2>4 DEF SupplyRespected
  <2> HIDE DEF e
  <2>6. e # d
    <3>1. d \in Links => Up[d] = node
      BY <1>1, NetworkAssumption DEF Passing, MesoLinks
    <3> QED BY <2>1, <2>4, <3>1
  <2>8. \/ e = d /\ e # u /\ Inserted(u, a, d) /\ e \in MesoLinks
           /\ entered'[e] = Append(entered[e], [time |-> now, veh |-> a.veh])
           /\ supply'[e] = NextSupplyTime(e, Rank(e) + 1)
        \/ entered'[e] = entered[e] /\ (e \in InnerLinks => supply'[e] = supply[e])
    BY <2>4, PassageOfLinks
  <2>7. supply'[e] = supply[e]
    BY <2>4, <2>6, <2>8
  <2> QED BY <1>1, <2>3, <2>5, <2>7 DEF e
<1> QED BY <1>3 DEF SupplyRespected

(***************************************************************************)
(* Every step keeps the headways.                                          *)
(***************************************************************************)
LEMMA InitTimed ==
  ASSUME Horizon, Init
  PROVE  Timed
<1>1. /\ stage = "call" /\ inst = 0 /\ now = Never /\ event = [n \in Nodes |-> Never]
      /\ supply = [k \in Keys |-> AnyTime] /\ left = [k \in Keys |-> <<>>]
      /\ entered = [l \in Links |-> <<>>]
  BY DEF Init
<1>2. \A l \in Links : l \in Keys /\ entered[l] = <<>> /\ left[l] = <<>>
                       /\ supply[l] = AnyTime
  BY <1>1 DEF Keys
<1>3. InnerLinks \subseteq Links /\ MesoLinks \subseteq Links
  BY DEF InnerLinks, MesoLinks
<1>4. Clock
  BY <1>1, ClockAssumption DEF Clock, Never
<1>5. Dated
  BY <1>2 DEF Dated
<1>6. SupplyKept
  BY <1>2, <1>3 DEF SupplyKept
<1>7. BlockedFull
  BY <1>2, <1>3 DEF BlockedFull, Never, AnyTime
<1>8. SupplyRespected
  BY <1>1 DEF SupplyRespected
<1>9. HeadwayKept
  <2>1. \A l \in MesoLinks : Rank(l) = 0
    BY <1>2, <1>3 DEF Rank
  <2> QED BY <2>1 DEF HeadwayKept
<1> QED BY <1>4, <1>5, <1>6, <1>7, <1>8, <1>9 DEF Timed

(* Every step keeps what is known of the times.                            *)
LEMMA TimedStep ==
  ASSUME NoLoops, Horizon, RoomForTwo, IInv, Timed, [Next]_vars
  PROVE  Timed'
<1>1. /\ TypeOK /\ Places /\ Single /\ Scheduled /\ Current /\ Counted
      /\ Clock /\ Dated /\ SupplyKept /\ BlockedFull /\ SupplyRespected /\ HeadwayKept
  BY DEF IInv, Timed
<1>2. Clock'
  BY <1>1, ClockStep
<1>3. CASE UNCHANGED vars
  <2>1. UNCHANGED <<stage, inst, now, todo, event, via, nextArrival, supply, entered,
                    left, route>>
    BY <1>3 DEF vars, links
  <2>2. Dated' /\ SupplyKept' /\ HeadwayKept' /\ BlockedFull'
    BY <1>1, <2>1 DEF Dated, SupplyKept, HeadwayKept, BlockedFull, Rank
  <2>3. (\A n \in Nodes : AheadOf(n)' = AheadOf(n)) /\ Pending' = Pending
    BY <2>1 DEF AheadOf, NextLink, Pending
  <2>4. SupplyRespected'
    BY <1>1, <2>1, <2>3 DEF SupplyRespected
  <2> QED BY <1>2, <2>2, <2>4 DEF Timed
<1>4. CASE Call \/ Decide \/ Step \/ EndStep \/ NodesUpdated
  <2>1. UNCHANGED <<entered, left, supply>> /\ stage' # "passage"
    BY <1>4 DEF Call, Decide, Step, EndStep, NodesUpdated, Dispatch, links
  <2>2. Dated' /\ SupplyKept' /\ HeadwayKept' /\ BlockedFull'
    BY <1>1, <2>1, LinksKept
  <2>3. SupplyRespected'
    BY <1>1, <1>4, RespectedClock
  <2> QED BY <1>2, <2>2, <2>3 DEF Timed
<1>5. ASSUME NEW r \in Routes, CreateVehicle(r) PROVE Timed'
  <2>1. UNCHANGED <<entered, left, supply>> /\ stage' # "passage"
    BY <1>5 DEF CreateVehicle, links
  <2>2. Dated' /\ SupplyKept' /\ HeadwayKept' /\ BlockedFull'
    BY <1>1, <2>1, LinksKept
  <2>3. SupplyRespected'
    BY <1>1, <1>5, RespectedCreate
  <2> QED BY <1>2, <2>2, <2>3 DEF Timed
<1>6. CASE Supplies
  <2>1. Dated' /\ SupplyKept' /\ HeadwayKept' /\ BlockedFull'
    BY <1>1, <1>6, LinksSupplies
  <2>2. SupplyRespected'
    BY <1>1, <1>6, RespectedSupplies
  <2> QED BY <1>2, <2>1, <2>2 DEF Timed
<1>7. CASE Passage
  <2>1. PICK u, a, d : Passing(u, a, d) /\ (Inserted(u, a, d) \/ Refused(u, a, d)
                                             \/ Departed(u, a, d))
    BY <1>7, PassageCases
  <2>2. Dated'
    BY <1>1, <2>1, DatedPassage
  <2>3. SupplyKept'
    BY <1>1, <2>1, SupplyPassage
  <2>4. HeadwayKept'
    BY <1>1, <2>1, HeadwayPassage
  <2>5. BlockedFull'
    BY <1>1, <2>1, BlockedPassage
  <2>6. SupplyRespected'
    BY <1>1, <2>1, RespectedPassage
  <2> QED BY <1>2, <2>2, <2>3, <2>4, <2>5, <2>6 DEF Timed
<1>8. CASE UpdateNode
  <2>1. UNCHANGED <<entered, left, supply>> /\ stage' # "passage"
    BY <1>8 DEF UpdateNode, links
  <2>2. Dated' /\ SupplyKept' /\ HeadwayKept' /\ BlockedFull'
    BY <1>1, <2>1, LinksKept
  <2>3. SupplyRespected'
    BY <1>1, <1>8, RespectedUpdate
  <2> QED BY <1>2, <2>2, <2>3 DEF Timed
<1> QED BY <1>3, <1>4, <1>5, <1>6, <1>7, <1>8 DEF Next

(* Vehicles enter every inner link at least a headway apart, through any    *)
(* merge and however long the link ahead stays full, as long as the links   *)
(* inside the network hold two vehicles and DBL_MAX is never reached.       *)
THEOREM HeadwaysKept ==
  ASSUME NoLoops, OneLinkEntries, Horizon, RoomForTwo
  PROVE  Spec => []HeadwayKept
<1>1. Init => IInv /\ Timed
  BY InitInvariant, InitTimed
<1>2. IInv /\ Timed /\ [Next]_vars => IInv' /\ Timed'
  BY InvariantStep, TimedStep
<1>3. IInv /\ Timed => HeadwayKept
  BY DEF Timed
<1> QED BY <1>1, <1>2, <1>3, PTL DEF Spec

(* The bookkeeping behind the headways: an event is never earlier than the  *)
(* supply time of the link ahead, and a supply time is postponed only for a *)
(* link that is full.                                                      *)
THEOREM SuppliesRespected ==
  ASSUME NoLoops, OneLinkEntries, Horizon, RoomForTwo
  PROVE  Spec => [](SupplyKept /\ BlockedFull /\ SupplyRespected)
<1>1. Init => IInv /\ Timed
  BY InitInvariant, InitTimed
<1>2. IInv /\ Timed /\ [Next]_vars => IInv' /\ Timed'
  BY InvariantStep, TimedStep
<1>3. IInv /\ Timed => SupplyKept /\ BlockedFull /\ SupplyRespected
  BY DEF Timed
<1> QED BY <1>1, <1>2, <1>3, PTL DEF Spec

(***************************************************************************)
(* Storage of the links that leave an entry.                               *)
(***************************************************************************)
EntriesKept == \A l \in MesoLinks :
  Up[l] \in Entries => Cardinality(on[l]) <= Storage[l] + 2

(* Only vehicles inserted from the queue of its entry reach such a link.   *)
LEMMA EntriesStep ==
  ASSUME NoLoops, IInv, EntriesKept, [Next]_vars
  PROVE  EntriesKept'
<1>1. TypeOK /\ Places /\ Counted
  BY DEF IInv
<1>2. CASE UNCHANGED on
  BY <1>2 DEF EntriesKept
<1>3. CASE Passage
  <2>1. PICK u, a, d : Passing(u, a, d) /\ (Inserted(u, a, d) \/ Refused(u, a, d)
                                             \/ Departed(u, a, d))
    BY <1>3, PassageCases
  <2>2. ASSUME NEW l \in MesoLinks, Up[l] \in Entries
        PROVE  Cardinality(on'[l]) <= Storage[l] + 2
    <3> DEFINE c == Cardinality(on[l])
               s == Storage[l]
    <3>1. c <= s + 2 /\ IsFiniteSet(on[l]) /\ s \in Nat
      BY <2>2, LengthsOfLink, <1>1 DEF EntriesKept, Counted
    <3>2. c \in Nat
      BY <3>1, FS_CardinalityType
    <3>3. CASE on'[l] = on[l]
      BY <3>1, <3>3
    <3>4. CASE on'[l] = on[l] \ {a.veh} /\ a.veh \in on[l]
      <4>1. Cardinality(on'[l]) = c - 1
        BY <3>1, <3>4, FS_RemoveElement
      <4> HIDE DEF c, s
      <4>2. c - 1 <= s + 2
        BY <3>1, <3>2
      <4> QED BY <4>1, <4>2 DEF s
    <3>5. CASE l = d /\ Inserted(u, a, d) /\ on'[l] = on[l] \cup {a.veh}
      <4>1. Up[l] = node /\ u \in Entries
        <5>1. l \in Links /\ l \notin Nodes
          BY NetworkAssumption DEF MesoLinks
        <5>2. d # node
          BY <3>5, <5>1, <1>1 DEF TypeOK
        <5>3. Up[d] = node
          BY <5>2, <2>1 DEF Passing
        <5>4. node \in Entries
          BY <2>2, <3>5, <5>3
        <5>5. ~(u \in MesoLinks /\ Down[u] = node)
          BY <5>4 DEF Entries, InLinks, MesoLinks
        <5> QED BY <2>1, <3>5, <5>3, <5>5 DEF Passing
      <4>2. ~IsCongested(l)
        BY <3>5, <4>1 DEF Inserted, CanInsert
      <4>3. on[l] = {} \/ ~(c - s > 1)
        BY <4>2 DEF IsCongested
      <4>4. c <= s + 1
        <5>1. CASE on[l] = {}
          <6>1. c = 0
            BY <5>1, FS_EmptySet
          <6> HIDE DEF c, s
          <6> QED BY <6>1, <3>1
        <5>2. CASE ~(c - s > 1)
          <6> HIDE DEF c, s
          <6> QED BY <5>2, <3>1, <3>2
        <5> QED BY <4>3, <5>1, <5>2
      <4>5. Cardinality(on'[l]) = c \/ Cardinality(on'[l]) = c + 1
        BY ZenonT(40), <3>1, <3>5, FS_AddElement
      <4> DEFINE c2 == Cardinality(on'[l])
      <4>6. c2 <= s + 2
        <5>1. c2 = c \/ c2 = c + 1
          BY <4>5
        <5> HIDE DEF c, s, c2
        <5> QED BY <3>1, <3>2, <4>4, <5>1
      <4> QED BY <4>6
    <3>6. \/ on'[l] = on[l]
          \/ on'[l] = on[l] \ {a.veh} /\ l = u
          \/ l = d /\ Inserted(u, a, d) /\ on'[l] = on[l] \cup {a.veh}
      BY <2>1 DEF Inserted, Refused, Departed
    <3>7. l = u => a.veh \in on[l]
      BY <1>1, <2>1 DEF Passing, Places, OnLinks, Arrivals
    <3> QED BY <3>3, <3>4, <3>5, <3>6, <3>7
  <2> QED BY <2>2 DEF EntriesKept
<1>4. Passage \/ UNCHANGED on
  <2>1. CASE UNCHANGED vars
    BY <2>1 DEF vars, links
  <2>2. CASE Next
    BY <2>2 DEF Next, Call, Decide, Step, EndStep, CreateVehicle, Supplies, UpdateNode,
                NodesUpdated, links
  <2> QED BY <2>1, <2>2
<1> QED BY <1>2, <1>3, <1>4

(* The vehicles on a link that leaves an entry never exceed its storage by  *)
(* more than two, whatever happens downstream: IsCongested keeps the others *)
(* in the queue of the entry.                                               *)
THEOREM EntriesNotOverfilled ==
  ASSUME NoLoops, OneLinkEntries
  PROVE  Spec => []EntriesKept
<1>1. Init => IInv /\ EntriesKept
  <2> SUFFICES ASSUME Init PROVE EntriesKept
    BY InitInvariant
  <2> SUFFICES ASSUME NEW l \in MesoLinks PROVE Cardinality(on[l]) <= Storage[l] + 2
    BY DEF EntriesKept
  <2>1. Cardinality(on[l]) = 0
    BY FS_EmptySet DEF Init
  <2>2. Storage[l] \in Nat
    BY NetworkAssumption
  <2> QED BY <2>1, <2>2
<1>2. IInv /\ EntriesKept /\ [Next]_vars => IInv' /\ EntriesKept'
  BY InvariantStep, EntriesStep
<1> QED BY <1>1, <1>2, PTL DEF Spec

(***************************************************************************)
(* No node is forgotten.                                                   *)
(***************************************************************************)
(* Networks without cycles whose itineraries are mesoscopic and end at an  *)
(* exit.  The last vehicle of a link of storage one that leads to an exit  *)
(* frees a link no other vehicle is waiting for, and nobody computes the   *)
(* supply time of that link again.                                         *)
Acyclic == \E f \in [Nodes -> Nat] : \A l \in Links : f[Up[l]] < f[Down[l]]
ToExits == \A r \in Routes : Down[r[Len(r)]] \in Exits
RoomAtExits == \A l \in Links : Down[l] \in Exits => Storage[l] >= 2

(* Every instant the program adds to the clock stays below DBL_MAX.        *)
FarHorizon == /\ Horizon /\ Duration + TimeStep + ExitHeadway <= Never
              /\ \A l \in Links : Duration + TimeStep + TravelTime[l] <= Never

(* Instants are never DBL_MAX, except the supply times not known yet.      *)
OnTime == /\ \A k \in Keys : \A a \in arrivals[k] : a.time < Never
          /\ \A l \in Links : supply[l] <= Never
          /\ \A n \in Nodes : supply[n] < Never
          /\ stage = "nodes" => now = Never \/ now < Duration + TimeStep
          /\ stage \in {"passage", "nodes"} \/ todo = <<>>

(* A supply time is unknown because the link is full; when a vehicle of it *)
(* has just left, the link it has entered holds that vehicle.              *)
Occupied(l) == \/ on[l] # {}
               \/ \E m \in Links : Up[m] = Down[l] /\ on[m] # {}
UnknownFull == \A l \in Links : supply[l] = Never =>
  IF stage = "passage" THEN Cardinality(on[l]) >= Storage[l] ELSE Occupied(l)

(* When the earliest event is DBL_MAX nothing is left to do.               *)
Quiet == stage \in {"supplies", "nodes", "decide"} /\ now = Never
           => todo = <<>> /\ Blocked = {}

(* Nodes that are not going to be updated, at every stage.                 *)
FirstAhead(u) == NextLink(FrontOf(arrivals[u]).veh, u)
Remembered ==
  \A n \in Nodes \ ToSet(todo) : \A u \in Incoming(n) :
    arrivals[u] # {} => event[n] # Never \/ supply[FirstAhead(u)] = Never

Watch == OnTime /\ UnknownFull /\ Quiet /\ Remembered

(* The first vehicle of a list.                                            *)
LEMMA FirstVehicle ==
  ASSUME TypeOK, NEW u \in Keys, arrivals[u] # {}
  PROVE  /\ FrontOf(arrivals[u]) \in arrivals[u] /\ FrontOf(arrivals[u]) \in Records
         /\ FrontOf(arrivals[u]).veh \in Arrivals(u)
<1>1. Vehicles \subseteq Nat
  BY DEF Vehicles, TypeOK
<1>2. arrivals[u] \in SUBSET [time : Nat, veh : Vehicles]
  BY DEF TypeOK
<1>3. FrontOf(arrivals[u]) \in arrivals[u]
  BY <1>1, <1>2, FrontInList
<1> QED BY <1>2, <1>3 DEF Records, Arrivals

(* A vehicle that arrives at a node goes on to a link that leaves it, or   *)
(* leaves the network there.                                               *)
LEMMA NextOutgoing ==
  ASSUME TypeOK, OnRoute, ToExits, NEW n \in Nodes, NEW u \in Incoming(n), NEW v \in Arrivals(u)
  PROVE  /\ u \in Keys /\ (u = n \/ (u \in Links /\ Down[u] = n))
         /\ NextLink(v, u) \in Outgoing(n)
         /\ NextLink(v, u) \in Nodes => NextLink(v, u) = n /\ n \in Exits
         /\ NextLink(v, u) \in Links => Up[NextLink(v, u)] = n
         /\ NextLink(v, u) \in Nodes \cup Links
<1>1. u \in Keys /\ (u = n \/ (u \in Links /\ Down[u] = n))
  BY DEF Incoming, InLinks, Keys
<1>2. Nodes \cap Links = {} /\ MesoLinks \subseteq Links
  BY NetworkAssumption DEF MesoLinks
<1>3. CASE u = n
  <2>1. NextLink(v, u) \in Links /\ Up[NextLink(v, u)] = n
    BY <1>1, <1>2, <1>3, NextOfVehicle
  <2> QED BY <1>1, <1>2, <2>1 DEF Outgoing, OutLinks
<1>4. CASE u \in Links /\ Down[u] = n
  <2>1. CASE NextLink(v, u) \in Links
    <3>1. Up[NextLink(v, u)] = n
      BY <1>1, <1>2, <1>4, <2>1, NextOfVehicle
    <3> QED BY <1>1, <1>2, <2>1, <3>1 DEF Outgoing, OutLinks
  <2>2. CASE NextLink(v, u) \notin Links
    <3> DEFINE i == CHOOSE i \in DOMAIN route[v] : route[v][i] = u
    <3>1. v \in Vehicles /\ route[v] \in Routes
      <4>1. arrivals[u] \in SUBSET [time : Nat, veh : Vehicles] /\ route \in Seq(Routes)
        BY <1>1 DEF TypeOK
      <4> QED BY <4>1 DEF Arrivals, Vehicles
    <3>2. route[v] \in Seq(Links) /\ Len(route[v]) > 0
      BY <3>1, NetworkAssumption
    <3>3. i \in DOMAIN route[v] /\ route[v][i] = u
      BY <1>4 DEF OnRoute
    <3>4. NextLink(v, u) = IF i = Len(route[v]) THEN Down[u] ELSE route[v][i + 1]
      BY <1>2, <1>4 DEF NextLink
    <3> HIDE DEF i
    <3>5. i = Len(route[v])
      <4> SUFFICES ASSUME i # Len(route[v]) PROVE FALSE
        OBVIOUS
      <4>1. i \in 1 .. Len(route[v]) /\ Len(route[v]) \in Nat
        BY <3>2, <3>3
      <4>2. i + 1 \in 1 .. Len(route[v])
        BY <4>1
      <4>3. route[v][i + 1] \in Links
        BY <3>2, <4>2, ElementOfSeq
      <4> QED BY <2>2, <3>4, <4>3
    <3>6. NextLink(v, u) = n /\ n \in Exits
      BY <1>4, <3>1, <3>3, <3>4, <3>5 DEF ToExits
    <3>7. Outgoing(n) = {n}
      BY <3>6 DEF Outgoing, Exits
    <3> QED BY <1>1, <1>2, <3>6, <3>7
  <2> QED BY <2>1, <2>2
<1> QED BY <1>1, <1>3, <1>4

(* Two nodes have no incoming link in common.                              *)
LEMMA IncomingApart ==
  ASSUME NEW n \in Nodes, NEW m \in Nodes, NEW u \in Incoming(n), u \in Incoming(m)
  PROVE  n = m
BY NetworkAssumption DEF Incoming, InLinks

(* A vehicle added last to a list arrives before DBL_MAX.                  *)
LEMMA AddedInTime ==
  ASSUME NEW V, NEW A \in SUBSET [time : Nat, veh : V], IsFiniteSet(A),
         \A a \in A : a.time < Never, NEW t \in Nat, t < Never, NEW v
  PROVE  \A b \in AddLast(A, t, v) : b.time < Never
<1>1. /\ LastTime(A) \in Int /\ LastTime(A) >= -1
      /\ A = {} => LastTime(A) = -1
      /\ A # {} => \E a \in A : LastTime(A) = a.time
  BY LastTimeOfList
<1>2. LastTime(A) < Never
  BY <1>1 DEF Never
<1>3. Later(t, LastTime(A)) < Never
  BY <1>1, <1>2, LaterOfTwo
<1> QED BY <1>3 DEF AddLast

(* The end of a link is freed before DBL_MAX, or it is not known when.     *)
LEMMA DownstreamInTime ==
  ASSUME Horizon, TypeOK, Dated, NEW l \in MesoLinks, NEW rank \in Nat
  PROVE  /\ DownstreamTime(l, rank) \in Nat \cup {AnyTime}
         /\ DownstreamTime(l, rank) <= Never
         /\ DownstreamTime(l, rank) = Never => rank - Storage[l] >= Len(left[l])
<1>1. \A i \in 1 .. Len(left[l]) : left[l][i].time + Wave[l] < Never
  BY FarFromNever
<1>2. DownstreamTime(l, rank) \in Nat \cup {AnyTime}
  BY DownstreamType
<1>3. CASE DownstreamTime(l, rank) = AnyTime /\ rank - Storage[l] <= 1
  BY <1>2, <1>3 DEF AnyTime, Never
<1>4. CASE DownstreamTime(l, rank) = Never /\ rank - Storage[l] >= Len(left[l])
  BY <1>2, <1>4 DEF Never
<1>5. CASE \E i \in 1 .. Len(left[l]) : DownstreamTime(l, rank) = left[l][i].time + Wave[l]
  BY <1>1, <1>2, <1>5 DEF Never, AnyTime
<1> QED BY <1>3, <1>4, <1>5, DownstreamType

(* Nobody enters or leaves a link after the last time step.                *)
LEMMA DatedStep ==
  ASSUME NoLoops, IInv, Clock, Dated, [Next]_vars
  PROVE  Dated'
<1>1. CASE UNCHANGED <<entered, left>>
  BY <1>1 DEF Dated
<1>2. CASE Passage
  <2>1. PICK u, a, d : Passing(u, a, d) /\ (Inserted(u, a, d) \/ Refused(u, a, d)
                                              \/ Departed(u, a, d))
    BY <1>2, PassageCases
  <2> QED BY <2>1, DatedPassage DEF IInv
<1>3. CASE ~Passage
  <2>1. UNCHANGED <<entered, left>>
    BY <1>3 DEF Next, vars, Call, Decide, Step, EndStep, CreateVehicle, Supplies,
                UpdateNode, NodesUpdated, links
  <2> QED BY <1>1, <2>1
<1> QED BY <1>2, <1>3

(* Clocks and time steps change no list and no supply time.                *)
LEMMA OnTimeClock ==
  ASSUME OnTime, Call \/ Decide \/ Step \/ EndStep \/ NodesUpdated
  PROVE  OnTime'
<1>1. UNCHANGED <<arrivals, supply, todo>> /\ stage' # "nodes"
  BY DEF Call, Decide, Dispatch, Step, EndStep, NodesUpdated, links
<1>2. todo = <<>>
  BY DEF Call, Decide, Step, EndStep, NodesUpdated, OnTime
<1> QED BY <1>1, <1>2 DEF OnTime

(* Vehicles are created before the end of the simulation.                  *)
LEMMA OnTimeCreate ==
  ASSUME Horizon, TypeOK, Clock, OnTime, NEW r \in Routes, CreateVehicle(r)
  PROVE  OnTime'
<1> DEFINE e == Up[r[1]]
           v == Len(route) + 1
<1>1. e \in Nodes /\ e \in Keys
  BY NetworkAssumption DEF Entries, Keys, MesoLinks
<1>2. /\ UNCHANGED <<stage, now, todo, supply>>
      /\ arrivals' = [arrivals EXCEPT ![e] = AddLast(@, inst, v)]
  BY DEF CreateVehicle, links
<1>3. inst \in Nat /\ inst < Never
  BY ClockAssumption DEF TypeOK, Clock, Horizon, Never
<1>4. /\ arrivals \in [Keys -> SUBSET [time : Nat, veh : Vehicles]]
      /\ IsFiniteSet(arrivals[e])
  BY <1>1 DEF TypeOK
<1> HIDE DEF e, v
<1>5. \A b \in AddLast(arrivals[e], inst, v) : b.time < Never
  BY <1>1, <1>3, <1>4, AddedInTime DEF OnTime
<1>6. \A k \in Keys : \A b \in arrivals'[k] : b.time < Never
  BY <1>1, <1>2, <1>4, <1>5 DEF OnTime
<1> QED BY <1>2, <1>6 DEF OnTime

(* A supply time computed later is not after DBL_MAX.                      *)
LEMMA PostponedInTime ==
  ASSUME Horizon, TypeOK, OnLinks, Counted, Dated, NEW l \in MesoLinks
  PROVE  /\ PostponedSupply(l) <= Never
         /\ PostponedSupply(l) = Never =>
              Cardinality(on[l]) >= Storage[l] /\ on[l] # {}
<1>1. CASE arrivals[l] = {}
  BY <1>1 DEF PostponedSupply, AnyTime, Never
<1>2. CASE arrivals[l] # {}
  <2>1. Rank(l) \in Nat \ {0} /\ Rank(l) = Len(entered[l])
    BY <1>2, SomebodyEntered DEF Rank
  <2>2. entered[l] # <<>>
    BY <2>1
  <2>3. /\ entered[l][Rank(l)].time + Headway < Never
        /\ entered[l][Rank(l)].time + Headway \in Nat
    BY <2>2, FarFromNever
  <2>4. /\ DownstreamTime(l, Rank(l)) \in Nat \cup {AnyTime}
        /\ DownstreamTime(l, Rank(l)) <= Never
        /\ DownstreamTime(l, Rank(l)) = Never => Rank(l) - Storage[l] >= Len(left[l])
    BY <2>1, DownstreamInTime
  <2>5. \/ PostponedSupply(l) = entered[l][Rank(l)].time + Headway
        \/ PostponedSupply(l) = DownstreamTime(l, Rank(l))
    BY <1>2, PostponedType
  <2>6. PostponedSupply(l) <= Never
    BY <2>3, <2>4, <2>5 DEF Never
  <2>7. ASSUME PostponedSupply(l) = Never
        PROVE  Cardinality(on[l]) >= Storage[l] /\ on[l] # {}
    <3>1. Rank(l) - Storage[l] >= Len(left[l])
      BY <2>3, <2>4, <2>5, <2>7
    <3>2. /\ Len(left[l]) \in Nat /\ Storage[l] \in Nat \ {0}
      BY LengthsOfLink
    <3>3. Cardinality(on[l]) = Rank(l) - Len(left[l])
      BY <2>1 DEF Counted
    <3> DEFINE c == Cardinality(on[l])
               in == Rank(l)
               out == Len(left[l])
               s == Storage[l]
    <3>6. in \in Nat /\ out \in Nat /\ s \in Nat /\ in - s >= out /\ c = in - out
      BY <2>1, <3>1, <3>2, <3>3
    <3>4. c >= s
      <4> HIDE DEF c, in, out, s
      <4> QED BY <3>6
    <3>5. Cardinality(on[l]) # 0
      BY <3>2, <3>4
    <3> QED BY <3>4, <3>5, FS_EmptySet
  <2> QED BY <2>6, <2>7
<1> QED BY <1>1, <1>2

(* Supply times computed once more are on time.                            *)
LEMMA OnTimeSupplies ==
  ASSUME Horizon, MicroLinks = {}, TypeOK, OnLinks, Counted, Clock, Dated, OnTime, Supplies
  PROVE  OnTime'
<1>1. UNCHANGED <<inst, now, arrivals>> /\ stage = "supplies"
      /\ stage' \in {"passage", "nodes"}
  BY DEF Supplies
<1>2. now = Never \/ now < Duration + TimeStep
  <2>1. (now = Never \/ now < inst + TimeStep) /\ inst < Duration
    BY <1>1 DEF Clock
  <2>2. now \in Nat /\ inst \in Nat /\ Duration \in Nat /\ TimeStep \in Nat
    BY ClockAssumption DEF TypeOK
  <2> QED BY <2>1, <2>2
<1>3. ASSUME NEW l \in Links PROVE supply'[l] <= Never
  <2>1. l \in MesoLinks
    BY DEF MesoLinks
  <2>2. supply'[l] = IF supply[l] = Never THEN PostponedSupply(l) ELSE supply[l]
    BY <2>1, SupplyRecomputed
  <2> QED BY <2>1, <2>2, PostponedInTime DEF OnTime
<1>4. ASSUME NEW n \in Nodes PROVE supply'[n] < Never
  <2>1. n \in DOMAIN supply /\ n \notin Blocked
    BY NetworkAssumption DEF TypeOK, Keys, Blocked
  <2>2. supply'[n] = supply[n]
    BY <2>1 DEF Supplies
  <2> QED BY <2>2 DEF OnTime
<1>5. \A k \in Keys : \A a \in arrivals'[k] : a.time < Never
  BY <1>1 DEF OnTime
<1> QED BY <1>1, <1>2, <1>3, <1>4, <1>5 DEF OnTime

(* A passage on a network without microscopic links: what the vehicle      *)
(* leaves and what it goes to.                                             *)
LEMMA PassageAhead ==
  ASSUME MicroLinks = {}, ToExits, IInv, Passage, NEW u, NEW a, NEW d, Passing(u, a, d)
  PROVE  /\ node \in Nodes /\ a \in arrivals[u]
         /\ d \in MesoLinks => d \notin Nodes /\ Up[d] = node
         /\ d \notin MesoLinks =>
              /\ d = node /\ d \in Exits /\ u \in MesoLinks /\ Down[u] = node
              /\ supply' = [supply EXCEPT ![d] = now + ExitHeadway]
<1>1. node \in Nodes /\ a \in arrivals[u] /\ Nodes \cap Links = {} /\ MesoLinks = Links
  BY NetworkAssumption DEF IInv, TypeOK, Passing, MesoLinks
<1>2. d \in MesoLinks => d \notin Nodes /\ Up[d] = node
  BY <1>1 DEF Passing
<1>3. ASSUME d \notin MesoLinks
      PROVE  /\ d = node /\ d \in Exits /\ u \in MesoLinks /\ Down[u] = node
             /\ supply' = [supply EXCEPT ![d] = now + ExitHeadway]
  <2>1. d = node /\ u \in MesoLinks /\ Down[u] = node
    BY <1>1, <1>3 DEF Passing
  <2>2. d \in Exits
    <3>1. u \in Incoming(node) /\ a.veh \in Arrivals(u) /\ d = NextLink(a.veh, u)
      BY <1>1, <2>1 DEF Incoming, InLinks, Passing, Arrivals
    <3>2. TypeOK /\ OnRoute
      BY DEF IInv, Places
    <3> QED BY <1>1, <2>1, <3>1, <3>2, NextOutgoing
  <2>3. \E rest : Leave(a.veh, d, u, rest, {now + ExitHeadway})
    BY <1>1, <1>3, <2>1 DEF Passage, Passing
  <2> QED BY <2>1, <2>2, <2>3 DEF Leave
<1> QED BY <1>1, <1>2, <1>3

(* A passage delays the vehicles behind by a headway.                      *)
LEMMA OnTimePassage ==
  ASSUME FarHorizon, MicroLinks = {}, ToExits, IInv, Clock, Dated, OnTime, Passage,
         NEW u, NEW a, NEW d, Passing(u, a, d),
         Inserted(u, a, d) \/ Refused(u, a, d) \/ Departed(u, a, d)
  PROVE  OnTime'
<1> DEFINE rest == Delayed(arrivals[u] \ {a})
           arrived == AddLast(arrivals[d], now + TravelTime[d], a.veh)
<1>1. /\ TypeOK /\ Current /\ Horizon /\ stage = "passage" /\ stage' = "nodes" /\ now' = now
      /\ u \in Keys /\ a \in arrivals[u]
  BY DEF IInv, FarHorizon, Passing
<1>2. now \in Nat /\ now < Duration + TimeStep
  BY <1>1, PassageDates
<1>3. Duration \in Nat /\ TimeStep \in Nat /\ Headway \in Nat /\ ExitHeadway \in Nat
  BY ClockAssumption
<1>4. now + Headway < Never /\ now + Headway \in Nat /\ now + ExitHeadway < Never
      /\ now + ExitHeadway \in Nat
  BY <1>2, <1>3 DEF FarHorizon, Horizon, Never
<1>5. arrivals \in [Keys -> SUBSET Records] /\ MesoLinks = Links
  BY <1>1 DEF TypeOK, Records, MesoLinks
<1>6. \A b \in rest : b.time < Never
  <2>1. ASSUME NEW c \in arrivals[u] PROVE Later(c.time, now + Headway) < Never
    <3>1. c.time \in Nat /\ c.time < Never
      BY <1>1, <1>5 DEF Records, OnTime
    <3> QED BY <1>4, <3>1, LaterOfTwo
  <2>2. \A c \in arrivals[u] : [c EXCEPT !.time = Later(@, now + Headway)].time
                                 = Later(c.time, now + Headway)
    BY <1>1, <1>5 DEF Records
  <2> QED BY <2>1, <2>2 DEF Delayed
<1>7. ASSUME d \in MesoLinks
      PROVE  /\ d \in Keys /\ d \notin Nodes
             /\ \A b \in arrived : b.time < Never
  <2>1. d \in Keys /\ d \notin Nodes
    BY <1>5, <1>7, NetworkAssumption DEF Keys
  <2>2. now + TravelTime[d] \in Nat /\ now + TravelTime[d] < Never
    <3>1. TravelTime[d] \in Nat /\ Duration + TimeStep + TravelTime[d] <= Never
      BY <1>5, <1>7, NetworkAssumption DEF FarHorizon
    <3> QED BY <1>2, <1>3, <3>1 DEF Never
  <2>3. arrivals[d] \in SUBSET [time : Nat, veh : Vehicles] /\ IsFiniteSet(arrivals[d])
    BY <1>1, <2>1 DEF TypeOK
  <2>4. \A c \in arrivals[d] : c.time < Never
    BY <2>1 DEF OnTime
  <2> QED BY <2>1, <2>2, <2>3, <2>4, AddedInTime
<1>8. a.time < Never
  BY <1>1 DEF OnTime
<1>9. \A k \in Keys : \A b \in arrivals'[k] : b.time < Never
  <2> HIDE DEF rest, arrived
  <2>1. CASE Inserted(u, a, d)
    <3>1. arrivals' = [arrivals EXCEPT ![u] = rest, ![d] = arrived] /\ d \in MesoLinks
      BY <2>1 DEF Inserted, rest, arrived
    <3>2. \A k \in Keys : arrivals'[k] \in {rest, arrived, arrivals[k]}
      BY <1>5, <3>1
    <3> QED BY <1>6, <1>7, <3>1, <3>2 DEF OnTime
  <2>2. CASE Refused(u, a, d)
    <3>1. arrivals' = [arrivals EXCEPT ![u] = rest \cup {a}]
      BY <2>2 DEF Refused, rest
    <3>2. \A k \in Keys : arrivals'[k] \in {rest \cup {a}, arrivals[k]}
      BY <1>5, <3>1
    <3> QED BY <1>6, <1>8, <3>2 DEF OnTime
  <2>3. CASE Departed(u, a, d)
    <3>1. arrivals' = [arrivals EXCEPT ![u] = rest]
      BY <2>3 DEF Departed, rest
    <3>2. \A k \in Keys : arrivals'[k] \in {rest, arrivals[k]}
      BY <1>5, <3>1
    <3> QED BY <1>6, <3>2 DEF OnTime
  <2> QED BY <2>1, <2>2, <2>3
<1>10. ASSUME NEW rank \in Nat, d \in MesoLinks
       PROVE  NextSupplyTime(d, rank) <= Never
  <2>1. \/ NextSupplyTime(d, rank) = now + Headway
        \/ NextSupplyTime(d, rank) = DownstreamTime(d, rank)
    BY <1>1, <1>10, SupplyType
  <2> QED BY <1>1, <1>4, <1>10, <2>1, DownstreamInTime DEF Never
<1>11. CASE d \in MesoLinks
  <2>1. \E rank \in Nat : supply' = [supply EXCEPT ![d] = NextSupplyTime(d, rank)]
    <3>1. Rank(d) \in Nat /\ Rank(d) + 1 \in Nat
      BY <1>1, <1>11, LengthsOfLink DEF Rank
    <3> QED BY <1>11, <3>1 DEF Inserted, Refused, Departed
  <2>2. \A n \in Nodes : supply'[n] < Never
    BY <1>1, <1>7, <1>11, <2>1 DEF OnTime, TypeOK, Keys
  <2>3. \A l \in Links : supply'[l] <= Never
    BY <1>1, <1>10, <1>11, <2>1 DEF OnTime, TypeOK, Keys
  <2> QED BY <1>1, <1>2, <1>9, <2>2, <2>3 DEF OnTime
<1>12. CASE d \notin MesoLinks
  <2>1. supply' = [supply EXCEPT ![d] = now + ExitHeadway] /\ d \in Nodes /\ d \notin Links
    BY <1>12, PassageAhead, NetworkAssumption
  <2>2. \A n \in Nodes : supply'[n] < Never
    BY <1>1, <1>4, <2>1 DEF OnTime, TypeOK, Keys
  <2>3. \A l \in Links : supply'[l] <= Never
    BY <1>1, <2>1 DEF OnTime, TypeOK, Keys
  <2> QED BY <1>1, <1>2, <1>9, <2>2, <2>3 DEF OnTime
<1> QED BY <1>11, <1>12

(* The first vehicle of a link arrives when its node has its next event.   *)
LEMMA OnTimeUpdate ==
  ASSUME TypeOK, OnTime, now # Never, Clock, Horizon, UpdateNode
  PROVE  OnTime'
<1> DEFINE n == Head(todo)
<1>1. n \in Nodes /\ stage = "nodes" /\ UNCHANGED <<stage, now, supply>>
  BY PendingUpdate DEF UpdateNode, links
<1> HIDE DEF n
<1>2. now < Never /\ now \in Nat
  BY <1>1 DEF Clock, TypeOK, Never
<1>3. arrivals \in [Keys -> SUBSET Records]
  BY DEF TypeOK, Records
<1>4. ASSUME NEW o \in EventLinks(n), NEW u \in Selected(n, o), ScheduleNode(n, o, u)
      PROVE  \A k \in Keys : \A b \in arrivals'[k] : b.time < Never
  <2>1. o \in Outgoing(n) /\ u \in Candidates(n, o) /\ LocalEventTime(n, o) < Never
    BY DEF EventLinks, Selected, Congested
  <2> DEFINE a == FrontOf(arrivals[u])
             b == [a EXCEPT !.time = EventTime(n, o)]
  <2>2. u \in Keys /\ a \in Records
    BY <1>1, <2>1, LocalEvent
  <2>3. arrivals' = [arrivals EXCEPT ![u] = (@ \ {a}) \cup {b}]
    BY <1>4 DEF ScheduleNode
  <2>4. b.time = EventTime(n, o)
    BY <2>2 DEF Records
  <2>5. EventTime(n, o) < Never
    BY <1>1, <1>2, <2>1, EventType
  <2> HIDE DEF a, b
  <2>6. ASSUME NEW k \in Keys, NEW c \in arrivals'[k] PROVE c.time < Never
    <3>1. c = b \/ c \in arrivals[k]
      BY <1>3, <2>2, <2>3
    <3> QED BY <2>4, <2>5, <3>1 DEF OnTime
  <2> QED BY <2>6
<1>5. CASE IdleNode(n)
  BY <1>1, <1>5 DEF IdleNode, OnTime
<1>6. ASSUME NEW o \in EventLinks(n), NEW u \in Selected(n, o), ScheduleNode(n, o, u)
      PROVE  OnTime'
  BY <1>1, <1>4, <1>6 DEF OnTime
<1> QED BY <1>5, <1>6 DEF UpdateNode, n

(* Only the computation of the supply times and a passage bear on what the *)
(* links hold.                                                             *)
LEMMA FullKept ==
  ASSUME UnknownFull, UNCHANGED <<supply, on>>, stage # "passage", stage' # "passage"
  PROVE  UnknownFull'
BY DEF UnknownFull, Occupied

(* A supply time computed once more is unknown only if the link is full.   *)
LEMMA FullSupplies ==
  ASSUME Horizon, MicroLinks = {}, TypeOK, OnLinks, Counted, Dated, Supplies
  PROVE  UnknownFull'
<1>1. ASSUME NEW l \in Links, supply'[l] = Never
      PROVE  Cardinality(on[l]) >= Storage[l] /\ on[l] # {}
  <2>1. l \in MesoLinks
    BY DEF MesoLinks
  <2>2. supply'[l] = IF supply[l] = Never THEN PostponedSupply(l) ELSE supply[l]
    BY <2>1, SupplyRecomputed
  <2> QED BY <1>1, <2>1, <2>2, PostponedInTime
<1>2. on' = on
  BY DEF Supplies
<1> QED BY <1>1, <1>2 DEF UnknownFull, Occupied

(* The link the vehicle leaves is no longer full, but the link it enters   *)
(* holds it; a link that leads to an exit had two vehicles.                *)
LEMMA FullPassage ==
  ASSUME Horizon, MicroLinks = {}, RoomAtExits, ToExits, IInv, Clock, Dated, UnknownFull,
         Passage, NEW u, NEW a, NEW d, Passing(u, a, d),
         Inserted(u, a, d) \/ Refused(u, a, d) \/ Departed(u, a, d)
  PROVE  UnknownFull'
<1>1. /\ TypeOK /\ Current /\ stage = "passage" /\ stage' = "nodes" /\ d # u
      /\ MesoLinks = Links /\ on \in [MesoLinks -> SUBSET Vehicles]
      /\ supply \in [Keys -> Nat \cup {AnyTime}] /\ Links \subseteq Keys
  BY DEF IInv, Passing, MesoLinks, TypeOK, Keys
<1>2. now + Headway < Never
  <2>1. now \in Nat /\ now < Duration + TimeStep
    BY <1>1, PassageDates
  <2> QED BY <2>1, ClockAssumption DEF Horizon, Never
<1>7. now + Headway \in Nat
  BY <1>1, ClockAssumption DEF TypeOK
<1>3. ASSUME NEW l \in Links, Cardinality(on[l]) >= Storage[l]
      PROVE  /\ on[l] # {} /\ IsFiniteSet(on[l])
             /\ Storage[l] >= 2 => Cardinality(on[l]) >= 2
  <2>1. /\ IsFiniteSet(on[l]) /\ Storage[l] \in Nat \ {0}
    BY <1>1, NetworkAssumption DEF IInv, Counted
  <2>2. Cardinality(on[l]) \in Nat
    BY <2>1, FS_CardinalityType
  <2>3. Cardinality(on[l]) # 0
    BY <1>3, <2>1, <2>2
  <2>4. on[l] # {}
    BY <2>3, FS_EmptySet
  <2> QED BY <1>3, <2>1, <2>2, <2>4
<1>4. ASSUME NEW l \in Links, l # d, supply'[l] = Never
      PROVE  Occupied(l)'
  <2>1. supply[l] = Never
    BY <1>1, <1>4 DEF Inserted, Refused, Departed
  <2>2. Cardinality(on[l]) >= Storage[l]
    BY <1>1, <2>1 DEF UnknownFull
  <2>3. on[l] # {} /\ IsFiniteSet(on[l]) /\ (Storage[l] >= 2 => Cardinality(on[l]) >= 2)
    BY <2>2, <1>3
  <2>4. CASE l # u
    <3>1. on'[l] = on[l]
      BY <1>1, <1>4, <2>4 DEF Inserted, Refused, Departed
    <3> QED BY <2>3, <3>1 DEF Occupied
  <2>5. CASE l = u /\ d \in MesoLinks
    <3>1. u \in Links /\ u \notin Entries /\ Down[u] = node /\ Up[d] = node
      BY <1>1, <2>5, PassageAhead, NetworkAssumption DEF Passing, Entries
    <3>2. Inserted(u, a, d)
      BY <2>5, <3>1 DEF Refused, Departed
    <3>3. on'[d] = on[d] \cup {a.veh}
      BY <1>1, <2>5, <3>2 DEF Inserted
    <3> QED BY <1>1, <2>5, <3>1, <3>3 DEF Occupied
  <2>6. CASE l = u /\ d \notin MesoLinks
    <3>1. Down[u] \in Exits
      BY <2>6, PassageAhead
    <3>2. Cardinality(on[l]) >= 2
      BY <1>1, <2>3, <2>6, <3>1 DEF RoomAtExits
    <3>3. on'[l] = on[l] \ {a.veh}
      BY <1>1, <2>6 DEF Inserted, Refused, Departed
    <3>4. on[l] \ {a.veh} # {}
      <4> SUFFICES ASSUME on[l] \ {a.veh} = {} PROVE FALSE
        OBVIOUS
      <4>1. on[l] = {a.veh}
        BY <2>3
      <4>2. Cardinality(on[l]) = 1
        BY <4>1, FS_Singleton
      <4> QED BY <3>2, <4>2
    <3> QED BY <3>3, <3>4 DEF Occupied
  <2> QED BY <2>4, <2>5, <2>6
<1>5. ASSUME d \in Links, supply'[d] = Never
      PROVE  Occupied(d)'
  <2>1. CASE Inserted(u, a, d)
    <3>1. on'[d] = on[d] \cup {a.veh}
      BY <1>1, <1>5, <2>1 DEF Inserted
    <3> QED BY <3>1 DEF Occupied
  <2>2. CASE Refused(u, a, d)
    <3>1. supply'[d] = NextSupplyTime(d, Rank(d)) /\ on' = on
      BY <1>1, <1>5, <2>2 DEF Refused
    <3>2. /\ Len(entered[d]) \in Nat /\ Len(left[d]) \in Nat
          /\ Storage[d] \in Nat \ {0} /\ Rank(d) = Len(entered[d])
      BY <1>1, <1>5, LengthsOfLink DEF Rank
    <3>3. DownstreamTime(d, Rank(d)) = Never
      <4>1. \/ NextSupplyTime(d, Rank(d)) = now + Headway
            \/ NextSupplyTime(d, Rank(d)) = DownstreamTime(d, Rank(d))
        BY <1>1, <1>5, <3>2, SupplyType
      <4>2. now + Headway # Never
        BY <1>2, <1>7, SMT DEF Never
      <4> QED BY <1>5, <3>1, <4>1, <4>2
    <3>4. Rank(d) - Storage[d] >= Len(left[d])
      BY <1>1, <1>5, <3>2, <3>3, DownstreamInTime
    <3>5. Cardinality(on[d]) = Len(entered[d]) - Len(left[d]) 
      BY <1>1, <1>5 DEF IInv, Counted
    <3>6. Cardinality(on[d]) # 0
      <4> DEFINE c == Cardinality(on[d])
                 in == Len(entered[d])
                 out == Len(left[d])
                 s == Storage[d]
      <4>1. in \in Nat /\ out \in Nat /\ s \in Nat \ {0} /\ in - s >= out /\ c = in - out
        BY <3>2, <3>4, <3>5
      <4>2. c # 0
        <5> HIDE DEF c, in, out, s
        <5> QED BY <4>1
      <4> QED BY <4>2
    <3>7. on[d] # {}
      BY <3>6, FS_EmptySet
    <3> QED BY <3>1, <3>7 DEF Occupied
  <2>3. CASE Departed(u, a, d)
    BY <1>1, <1>5, <2>3 DEF Departed
  <2> QED BY <2>1, <2>2, <2>3
<1>6. \A l \in Links : supply'[l] = Never => Occupied(l)'
  BY <1>4, <1>5
<1> QED BY <1>1, <1>6 DEF UnknownFull

(* On a network without cycles, when no node has an event nobody is on a   *)
(* link: the vehicle the furthest down could go on.                        *)
LEMMA NobodyLeft ==
  ASSUME MicroLinks = {}, Acyclic, ToExits, TypeOK, OnRoute, OnLinks, OnTime, UnknownFull,
         Remembered, stage = "call", \A n \in Nodes : event[n] = Never
  PROVE  Blocked = {}
<1>1. PICK f \in [Nodes -> Nat] : \A l \in Links : f[Up[l]] < f[Down[l]]
  BY DEF Acyclic
<1>2. /\ \A l \in Links : Up[l] \in Nodes /\ Down[l] \in Nodes
      /\ Nodes \cap Links = {} /\ MesoLinks = Links /\ IsFiniteSet(Links)
  BY NetworkAssumption DEF MesoLinks
<1>3. todo = <<>> /\ ToSet(todo) = {}
  BY DEF OnTime, ToSet
<1>4. ASSUME NEW l \in Links, on[l] # {}
      PROVE  \E m \in Links : on[m] # {} /\ f[Down[l]] < f[Down[m]]
  <2>1. l \in Keys /\ arrivals[l] # {} /\ l \in Incoming(Down[l])
    BY <1>2, <1>4 DEF Keys, OnLinks, Arrivals, Incoming, InLinks
  <2> DEFINE v == FrontOf(arrivals[l]).veh
             d == NextLink(v, l)
  <2>2. supply[d] = Never
    BY <1>2, <1>3, <2>1 DEF Remembered, FirstAhead
  <2>3. v \in Arrivals(l)
    BY <2>1, FirstVehicle
  <2> HIDE DEF v
  <2>4. d \in Nodes \cup Links /\ (d \in Links => Up[d] = Down[l])
    BY <1>2, <2>1, <2>3, NextOutgoing
  <2> HIDE DEF d
  <2>5. d \notin Nodes
    BY <2>2, SMT DEF OnTime, Never
  <2>6. d \in Links /\ f[Down[l]] < f[Down[d]]
    BY <1>1, <2>4, <2>5
  <2>7. on[d] # {} \/ \E m \in Links : Up[m] = Down[d] /\ on[m] # {}
    BY <2>2, <2>6 DEF UnknownFull, Occupied
  <2>8. ASSUME NEW m \in Links, Up[m] = Down[d], on[m] # {}
        PROVE  f[Down[l]] < f[Down[m]]
    <3>1. f[Down[d]] < f[Down[m]]
      BY <1>1, <2>8
    <3>2. f[Down[l]] \in Nat /\ f[Down[d]] \in Nat /\ f[Down[m]] \in Nat
      BY <1>2, <2>6
    <3> QED BY <2>6, <3>1, <3>2
  <2> QED BY <2>6, <2>7, <2>8
<1>5. \A l \in Links : on[l] = {}
  <2> SUFFICES ASSUME NEW k \in Links, on[k] # {} PROVE FALSE
    OBVIOUS
  <2> DEFINE L == {l \in Links : on[l] # {}}
             S == {f[Down[l]] : l \in L}
  <2>1. IsFiniteSet(L)
    BY <1>2, FS_Subset
  <2>2. IsFiniteSet(S)
    <3> DEFINE g == [l \in L |-> f[Down[l]]]
    <3>1. g \in Surjection(L, S)
      BY DEF Surjection
    <3> HIDE DEF L, S, g
    <3> QED BY <2>1, <3>1, FS_Surjection
  <2>3. S # {} /\ S \subseteq Int
    BY <1>2
  <2>4. \A s \in S : \E t \in S : s < t
    BY <1>4
  <2>5. S \subseteq Nat
    BY <1>2
  <2> HIDE DEF S
  <2>6. Max(S) \in S /\ \A y \in S : Max(S) >= y
    BY <2>2, <2>3, Greatest
  <2>7. PICK t \in S : Max(S) < t
    BY <2>4, <2>6
  <2> DEFINE x == Max(S)
  <2>8. x \in Nat /\ t \in Nat /\ x >= t /\ x < t
    BY <2>5, <2>6, <2>7
  <2> HIDE DEF x
  <2> QED BY <2>8
<1>6. \A l \in Links : supply[l] # Never
  <2> SUFFICES ASSUME NEW l \in Links, supply[l] = Never PROVE FALSE
    OBVIOUS
  <2> QED BY <1>5 DEF UnknownFull, Occupied
<1> QED BY <1>6 DEF Blocked

(* The nodes whose supply is computed again: those the unknown links leave. *)
LEMMA ResuppliedNodes ==
  /\ Resupplied \in Seq(Nodes)
  /\ Blocked = {} => Resupplied = <<>>
  /\ \A l \in Blocked : Up[l] \in ToSet(Resupplied)
<1> DEFINE blocked == SetToSeq(Blocked)
           N == Cardinality(Blocked)
<1>1. Blocked \subseteq Links /\ IsFiniteSet(Blocked) /\ N \in Nat
  <2>1. Blocked \subseteq Links
    BY DEF Blocked
  <2> QED BY <2>1, NetworkAssumption, FS_Subset, FS_CardinalityType
<1>2. \E f \in [1 .. N -> Blocked] : IsInjective(f)
  <2>1. PICK f : f \in Bijection(1 .. N, Blocked)
    BY <1>1, FS_CardinalityType DEF ExistsBijection
  <2>2. f \in [1 .. N -> Blocked] /\ IsInjective(f)
    BY <2>1 DEF Bijection, Injection, IsInjective
  <2> QED BY <2>2
<1>3. blocked \in [1 .. N -> Blocked] /\ IsInjective(blocked)
  BY <1>2 DEF SetToSeq
<1>4. Resupplied = [i \in 1 .. N |-> Up[blocked[i]]]
  <2>1. DOMAIN blocked = 1 .. N
    BY <1>3
  <2> HIDE DEF N
  <2>2. Resupplied = [i \in DOMAIN blocked |-> Up[blocked[i]]]
    BY DEF Resupplied
  <2> QED BY <2>1, <2>2
<1> HIDE DEF blocked, N
<1>5. blocked \in Injection(1 .. N, Blocked)
  BY <1>3 DEF Injection, IsInjective
<1>6. Cardinality(1 .. N) = N
  BY <1>1, FS_Interval
<1>7. blocked \in Surjection(1 .. N, Blocked)
  BY <1>1, <1>5, <1>6, FS_Injection DEF N
<1>8. ASSUME NEW l \in Blocked PROVE Up[l] \in ToSet(Resupplied)
  <2>1. PICK i \in 1 .. N : blocked[i] = l
    BY <1>7 DEF Surjection
  <2> QED BY <1>4, <2>1 DEF ToSet
<1>9. ASSUME Blocked = {} PROVE Resupplied = <<>>
  <2>1. N = 0
    BY <1>9, FS_EmptySet DEF N
  <2>2. 1 .. N = {}
    BY <2>1
  <2>3. Resupplied \in Seq(Nodes) /\ Len(Resupplied) = 0
    BY <1>4, <2>1, ResuppliedType
  <2> QED BY <2>3, EmptySeq
<1> QED BY <1>8, <1>9, ResuppliedType

(* The earliest event is DBL_MAX only when nothing is left to do.          *)
LEMMA QuietStep ==
  ASSUME Horizon, MicroLinks = {}, Acyclic, ToExits, IInv, Clock, Watch, [Next]_vars
  PROVE  Quiet'
<1>1. /\ TypeOK /\ OnRoute /\ OnLinks /\ OnTime /\ UnknownFull /\ Quiet /\ Remembered
      /\ Links \subseteq Keys /\ MesoLinks = Links
  BY DEF IInv, Places, Watch, Keys, MesoLinks
<1>2. NextEvent \in Nat /\ (\A n \in Nodes : NextEvent <= event[n])
  BY <1>1, EarliestEvent
<1>3. /\ Duration + TimeStep <= Never /\ Duration \in Nat /\ TimeStep \in Nat \ {0}
      /\ inst \in Nat /\ now \in Nat
  BY <1>1, ClockAssumption DEF Horizon, TypeOK, Never
<1>4. ASSUME UNCHANGED supply PROVE Blocked' = Blocked
  BY <1>4 DEF Blocked
<1>5. CASE UNCHANGED vars
  <2>1. UNCHANGED <<stage, now, todo, supply>>
    BY <1>5 DEF vars, links
  <2> QED BY <1>1, <1>4, <2>1 DEF Quiet
<1>6. ASSUME Dispatch, inst < Duration, stage' = "supplies" PROVE now' # Never
  <2>1. now' \in Nat /\ now' < inst + TimeStep
    BY <1>2, <1>3, <1>6 DEF Dispatch
  <2> QED BY <1>3, <1>6, <2>1 DEF Never
<1>7. CASE Call
  <2>1. stage = "call" /\ UNCHANGED <<todo, supply>> /\ inst < Duration
    BY <1>7 DEF Call, links
  <2>2. CASE NextEvent = Never
    <3>1. \A n \in Nodes : event[n] = Never
      <4>1. ASSUME NEW n \in Nodes PROVE event[n] = Never
        <5>1. event[n] \in Nat /\ event[n] <= Never /\ Never <= event[n]
          BY <1>1, <1>2, <2>2 DEF Clock, TypeOK
        <5> QED BY <5>1, SMT DEF Never
      <4> QED BY <4>1
    <3>2. Blocked = {}
      BY <1>1, <2>1, <3>1, NobodyLeft
    <3>3. todo = <<>>
      BY <1>1, <2>1 DEF OnTime
    <3> QED BY <1>4, <2>1, <3>2, <3>3 DEF Quiet
  <2>3. CASE NextEvent # Never
    <3>1. Dispatch
      BY <1>7, <2>3 DEF Call
    <3> QED BY <1>6, <2>1, <3>1 DEF Dispatch, Quiet
  <2> QED BY <2>2, <2>3
<1>8. CASE Decide
  <2>1. Dispatch /\ inst < Duration
    BY <1>8 DEF Decide, Clock
  <2> QED BY <1>6, <2>1 DEF Dispatch, Quiet
<1>9. CASE Step \/ EndStep \/ \E r \in Routes : CreateVehicle(r)
  BY <1>9 DEF Step, EndStep, CreateVehicle, Quiet
<1>10. CASE Supplies
  <2> SUFFICES ASSUME now' = Never PROVE todo' = <<>> /\ Blocked' = {}
    BY DEF Quiet
  <2>1. stage = "supplies" /\ now = Never /\ todo' = Resupplied
    BY <1>10 DEF Supplies
  <2>2. Blocked = {}
    BY <1>1, <2>1 DEF Quiet
  <2>3. \A l \in Links : supply'[l] = supply[l]
    BY <1>1, <1>10, <2>2, SupplyRecomputed DEF Blocked
  <2>4. Blocked' = Blocked
    BY <2>3 DEF Blocked
  <2> QED BY <2>1, <2>2, <2>4, ResuppliedNodes
<1>11. CASE Passage
  <2>1. stage = "passage" /\ now' = now
    BY <1>11 DEF Passage
  <2>2. now # Never
    BY <2>1 DEF IInv, Current
  <2> QED BY <2>1, <2>2 DEF Quiet
<1>12. CASE UpdateNode
  <2>1. stage = "nodes" /\ todo # <<>> /\ now' = now
    BY <1>12 DEF UpdateNode
  <2>2. now # Never
    BY <1>1, <2>1 DEF Quiet
  <2> QED BY <2>1, <2>2 DEF Quiet
<1>13. CASE NodesUpdated
  <2>1. stage = "nodes" /\ UNCHANGED <<now, todo, supply>>
    BY <1>13 DEF NodesUpdated, links
  <2> QED BY <1>1, <1>4, <2>1 DEF Quiet
<1> QED BY <1>5, <1>7, <1>8, <1>9, <1>10, <1>11, <1>12, <1>13 DEF Next

(* Where the first vehicle of a list goes next.                            *)
LEMMA SameAhead ==
  ASSUME route' = route, NEW u, arrivals'[u] = arrivals[u]
  PROVE  FirstAhead(u)' = FirstAhead(u)
BY DEF FirstAhead, NextLink

(* Clocks and time steps change neither lists, events nor supply times.    *)
LEMMA RememberedKept ==
  ASSUME Remembered, UNCHANGED <<todo, arrivals, event, supply, route>>
  PROVE  Remembered'
<1>1. \A u \in Keys : FirstAhead(u)' = FirstAhead(u)
  BY SameAhead
<1>2. \A n \in Nodes : Incoming(n) \subseteq Keys
  BY DEF Incoming, InLinks, Keys
<1>3. ToSet(todo)' = ToSet(todo)
  BY DEF ToSet
<1> QED BY <1>1, <1>2, <1>3 DEF Remembered

(* A vehicle that is created wakes its entry up, or queues behind another, *)
(* or waits for the supply time of the only link it can take.              *)
LEMMA RememberedCreate ==
  ASSUME Horizon, OneLinkEntries, ToExits, IInv, Clock, Watch, NEW r \in Routes,
         CreateVehicle(r)
  PROVE  Remembered'
<1> DEFINE e == Up[r[1]]
           v == Len(route) + 1
<1>1. /\ TypeOK /\ OnRoute /\ OnTime /\ Remembered /\ Queued
      /\ e \in Nodes /\ e \in Entries /\ e \in Keys /\ r[1] \in MesoLinks
      /\ r[1] \in OutLinks(e) /\ Incoming(e) = {e}
  BY NetworkAssumption
     DEF IInv, Places, Watch, Entries, Keys, MesoLinks, OutLinks, Incoming
<1>3. /\ UNCHANGED <<stage, todo, supply>> /\ route' = Append(route, r) /\ stage = "create"
      /\ arrivals' = [arrivals EXCEPT ![e] = AddLast(@, inst, v)]
      /\ \/ UNCHANGED event /\ ~(event[e] > inst /\ waiting[r[1]] = <<>> /\ supply[r[1]] # Never)
         \/ event' = [event EXCEPT ![e] = inst]
  BY DEF CreateVehicle, links
<1>4. todo = <<>> /\ ToSet(todo') = {} /\ ToSet(todo) = {}
  BY <1>1, <1>3 DEF OnTime, ToSet
<1>5. inst \in Nat /\ inst < Never
  BY <1>1, ClockAssumption, SMT DEF TypeOK, Clock, Horizon, Never
<1>6. arrivals \in [Keys -> SUBSET Records] /\ event \in [Nodes -> Nat]
      /\ \A k \in Keys : \A a \in arrivals[k] : a.veh \in Vehicles
  BY <1>1 DEF TypeOK, Records
<1>7. \A w \in Vehicles : route'[w] = route[w]
  BY <1>1, <1>3, Newcomer
<1> HIDE DEF e, v
<1>8. ASSUME NEW n \in Nodes, n # e, NEW u \in Incoming(n), arrivals'[u] # {}
      PROVE  event'[n] # Never \/ supply'[FirstAhead(u)'] = Never
  <2>1. u \in Keys /\ u # e
    BY <1>1, <1>8, IncomingApart DEF Incoming, InLinks, Keys
  <2>2. arrivals'[u] = arrivals[u] /\ event'[n] = event[n]
    BY <1>3, <1>6, <1>8, <2>1
  <2>3. FirstAhead(u)' = FirstAhead(u)
    <3> DEFINE w == FrontOf(arrivals[u]).veh
    <3>1. w \in Vehicles
      BY <1>1, <1>6, <1>8, <2>1, <2>2, FirstVehicle
    <3>2. route'[w] = route[w]
      BY <1>7, <3>1
    <3>3. /\ FirstAhead(u) = After(route[w], u)
          /\ FirstAhead(u)' = After(route'[FrontOf(arrivals'[u]).veh], u)
      BY DEF FirstAhead, NextLink, After
    <3> QED BY <2>2, <3>2, <3>3
  <2> QED BY <1>1, <1>3, <1>4, <1>8, <2>2, <2>3 DEF Remembered
<1>9. ASSUME NEW w \in Arrivals(e) PROVE route[w][1] = r[1]
  <2>1. Up[route[w][1]] = e /\ route[w] \in Routes
    <3>1. w \in Vehicles /\ route \in Seq(Routes)
      BY <1>1, <1>6 DEF TypeOK, Arrivals
    <3> QED BY <1>1, <3>1 DEF OnRoute, Vehicles
  <2>2. route[w][1] \in OutLinks(e)
    BY <2>1, NetworkAssumption DEF OutLinks, MesoLinks
  <2> QED BY <1>1, <2>2 DEF OneLinkEntries
<1>10. FirstAhead(e) = r[1] \/ arrivals[e] = {}
  <2> SUFFICES ASSUME arrivals[e] # {} PROVE FirstAhead(e) = r[1]
    OBVIOUS
  <2>1. FrontOf(arrivals[e]).veh \in Arrivals(e)
    BY <1>1, FirstVehicle
  <2> QED BY <1>1, <1>9, <2>1 DEF FirstAhead, NextLink
<1>11. FirstAhead(e)' = r[1]
  <2> DEFINE B == arrivals[e]
             A == AddLast(B, inst, v)
             w == FrontOf(A).veh
             V == Vehicles
             W == Vehicles'
  <2>1. V \subseteq W /\ v \in W /\ W \subseteq Nat
    <3>1. /\ V \subseteq W /\ Len(route) + 1 \in W /\ W = 1 .. Len(route) + 1
          /\ Len(route) \in Nat
      BY <1>1, <1>3, Newcomer
    <3> HIDE DEF V, W
    <3> QED BY <3>1 DEF v
  <2>10. B \in SUBSET [time : Nat, veh : V] /\ IsFiniteSet(B) /\ inst \in Nat
    BY <1>1, <1>5 DEF TypeOK
  <2>11. V \subseteq W /\ v \in W
    BY <2>1
  <2> HIDE DEF V, W, B, A, w
  <2>2. A \in SUBSET [time : Nat, veh : W]
    <3>1. AddLast(B, inst, v) \in SUBSET [time : Nat, veh : W]
      BY ONLY <2>11, <2>10, AddedLast
    <3> QED BY <3>1 DEF A
  <2>12. A # {} /\ \A a \in A : a.veh = v \/ a \in B
    <3> DEFINE b == [time |-> Later(inst, LastTime(B)), veh |-> v]
    <3>1. A = B \cup {b}
      BY DEF A, AddLast
    <3>2. b.veh = v
      OBVIOUS
    <3> HIDE DEF b
    <3> QED BY <3>1, <3>2
  <2>4. FrontOf(A) \in A
    BY <2>1, <2>2, <2>12, FrontInList
  <2>5. w = v \/ w \in Arrivals(e)
    BY <2>4, <2>12 DEF Arrivals, B, w
  <2>6. route'[w] = r \/ (w \in Arrivals(e) /\ route'[w] = route[w])
    BY <1>1, <1>3, <1>6, <1>7, <2>5, Newcomer DEF v, Arrivals
  <2>7. route'[w][1] = r[1]
    BY <1>9, <2>6
  <2>8. FrontOf(arrivals'[e]).veh = w
    BY <1>1, <1>3, <1>6 DEF A, B, w
  <2>9. FirstAhead(e)' = route'[FrontOf(arrivals'[e]).veh][1]
    BY <1>1 DEF FirstAhead, NextLink
  <2> QED BY <2>7, <2>8, <2>9
<1>12. event'[e] # Never \/ supply'[r[1]] = Never
  <2>1. CASE event' = [event EXCEPT ![e] = inst]
    <3>1. inst # Never
      BY <1>5, SMT DEF Never
    <3> QED BY <1>1, <1>6, <2>1, <3>1
  <2>2. CASE ~(event[e] > inst)
    <3>1. event[e] # Never
      BY <1>1, <1>5, <1>6, <2>2, SMT DEF Never
    <3>2. inst # Never
      BY <1>5, SMT DEF Never
    <3> QED BY <1>1, <1>3, <1>6, <3>1, <3>2
  <2>3. CASE waiting[r[1]] # <<>> /\ event' = event
    <3>1. waiting[r[1]] \in Seq(Vehicles)
      BY <1>1 DEF TypeOK
    <3>2. waiting[r[1]][1] \in ToSet(waiting[r[1]])
      <4>1. 1 \in DOMAIN waiting[r[1]]
        BY <2>3, <3>1
      <4> QED BY <4>1 DEF ToSet
    <3>3. waiting[r[1]][1] \in Arrivals(e)
      BY <1>1, <3>2 DEF Queued, e
    <3>4. arrivals[e] # {}
      BY <3>3 DEF Arrivals
    <3> QED BY <1>1, <1>3, <1>4, <1>10, <2>3, <3>4 DEF Remembered
  <2>4. CASE supply[r[1]] = Never
    BY <1>3, <2>4
  <2> QED BY <1>3, <2>1, <2>2, <2>3, <2>4
<1> QED BY <1>1, <1>4, <1>8, <1>11, <1>12 DEF Remembered

(* The nodes whose first vehicle learns when it may go on are updated.     *)
LEMMA RememberedSupplies ==
  ASSUME ToExits, MicroLinks = {}, TypeOK, OnRoute, OnTime, Remembered, Supplies
  PROVE  Remembered'
<1>1. UNCHANGED <<arrivals, event, route>> /\ stage = "supplies" /\ todo' = Resupplied
  BY DEF Supplies
<1>2. ToSet(todo) = {}
  BY <1>1 DEF OnTime, ToSet
<1>3. ASSUME NEW n \in Nodes \ ToSet(todo'), NEW u \in Incoming(n), arrivals[u] # {}
      PROVE  event[n] # Never \/ supply'[FirstAhead(u)] = Never
  <2> DEFINE v == FrontOf(arrivals[u]).veh
             d == NextLink(v, u)
  <2>1. u \in Keys
    BY DEF Incoming, InLinks, Keys
  <2>2. v \in Arrivals(u)
    BY <1>3, <2>1, FirstVehicle
  <2>3. event[n] # Never \/ supply[d] = Never
    BY <1>2, <1>3 DEF Remembered, FirstAhead
  <2> HIDE DEF v
  <2>4. d \in Nodes \cup Links /\ (d \in Links => Up[d] = n)
    BY <2>2, NextOutgoing
  <2> HIDE DEF d
  <2>5. ASSUME supply[d] = Never PROVE d \in Nodes
    <3> SUFFICES ASSUME d \in Links PROVE FALSE
      BY <2>4
    <3>1. d \in Blocked
      BY <2>5 DEF Blocked
    <3>2. n \in ToSet(todo')
      BY <1>1, <2>4, <3>1, ResuppliedNodes
    <3> QED BY <3>2
  <2>6. d \in Nodes => supply[d] # Never
    BY SMT DEF OnTime, Never
  <2> QED BY <2>3, <2>5, <2>6
<1>4. \A u \in Keys : FirstAhead(u)' = FirstAhead(u)
  BY <1>1, SameAhead
<1>5. \A n \in Nodes : Incoming(n) \subseteq Keys
  BY DEF Incoming, InLinks, Keys
<1> QED BY <1>1, <1>3, <1>4, <1>5 DEF Remembered

(* The nodes of the lists a passage changes are updated.                   *)
LEMMA RememberedPassage ==
  ASSUME ToExits, MicroLinks = {}, IInv, Remembered, Passage,
         NEW u, NEW a, NEW d, Passing(u, a, d),
         Inserted(u, a, d) \/ Refused(u, a, d) \/ Departed(u, a, d)
  PROVE  Remembered'
<1>1. /\ TypeOK /\ OnRoute /\ node \in Nodes /\ stage' = "nodes" /\ route' = route
      /\ event' = event /\ todo \in Seq(Nodes)
      /\ arrivals \in [Keys -> SUBSET Records] /\ supply \in [Keys -> Nat \cup {AnyTime}]
  BY DEF IInv, Places, TypeOK, Passing, Records
<1>2. node \in ToSet(todo') /\ (Inserted(u, a, d) => Down[d] \in ToSet(todo'))
  BY <1>1, PendingAfterPassage DEF Pending
<1>3. ToSet(todo) \subseteq ToSet(todo')
  <2>1. \E s \in Seq(Nodes) : todo' = todo \o s
    <3>1. CASE Inserted(u, a, d)
      <4>1. <<node, Down[d]>> \in Seq(Nodes) /\ todo' = todo \o <<node, Down[d]>>
        BY <1>1, <3>1, NetworkAssumption DEF Inserted, MesoLinks
      <4> QED BY <4>1
    <3>2. CASE ~Inserted(u, a, d)
      <4>1. todo' = Append(todo, node)
        BY <3>2 DEF Refused, Departed
      <4>2. todo' = todo \o <<node>> /\ <<node>> \in Seq(Nodes)
        BY <1>1, <4>1
      <4> QED BY <4>2
    <3> QED BY <3>1, <3>2
  <2>2. PICK s \in Seq(Nodes) : todo' = todo \o s
    BY <2>1
  <2>3. \A i \in DOMAIN todo : i \in DOMAIN todo' /\ todo'[i] = todo[i]
    BY <1>1, <2>2
  <2> QED BY <2>3 DEF ToSet
<1>4. u \in Incoming(node) /\ (d \in Nodes => d = node) /\ (d \in Links => Up[d] = node)
      /\ Nodes \cap Links = {}
  <2>1. Nodes \cap Links = {} /\ MesoLinks = Links
    BY NetworkAssumption DEF MesoLinks
  <2>2. CASE u = node /\ u \in Entries /\ d \in MesoLinks /\ Up[d] = node
    BY <2>1, <2>2 DEF Incoming, Entries
  <2>3. CASE u \in MesoLinks /\ Down[u] = node /\ (d = node \/ (d \in Links /\ Up[d] = node))
    BY <1>1, <2>1, <2>3 DEF Incoming, InLinks
  <2> QED BY <2>1, <2>2, <2>3 DEF Passing
<1>5. ASSUME NEW n \in Nodes \ ToSet(todo'), NEW w \in Incoming(n), arrivals'[w] # {}
      PROVE  event'[n] # Never \/ supply'[FirstAhead(w)'] = Never
  <2>1. w \in Keys /\ n # node /\ (w \in Links => Down[w] = n) /\ (w \in Nodes => w = n)
    BY <1>2, <1>4, <1>5 DEF Incoming, InLinks, Keys
  <2>2. w # u
    BY <1>1, <1>4, <2>1, IncomingApart
  <2>3. Inserted(u, a, d) => w # d
    BY <1>2, <1>4, <1>5, <2>1 DEF Inserted, MesoLinks
  <2>4. arrivals'[w] = arrivals[w]
    BY <1>1, <2>1, <2>2, <2>3 DEF Inserted, Refused, Departed
  <2>5. FirstAhead(w)' = FirstAhead(w)
    BY <1>1, <2>4, SameAhead
  <2> DEFINE v == FrontOf(arrivals[w]).veh
             x == NextLink(v, w)
  <2>6. v \in Arrivals(w)
    BY <1>1, <1>5, <2>1, <2>4, FirstVehicle
  <2> HIDE DEF v
  <2>7. x \in Nodes \cup Links /\ (x \in Links => Up[x] = n) /\ (x \in Nodes => x = n)
    BY <1>1, <2>6, NextOutgoing
  <2> HIDE DEF x
  <2>8. x # d
    BY <1>4, <2>1, <2>7
  <2>9. supply'[x] = supply[x]
    BY <1>1, <2>7, <2>8 DEF Inserted, Refused, Departed, Keys
  <2>10. event[n] # Never \/ supply[x] = Never
    BY <1>3, <1>5, <2>4 DEF Remembered, FirstAhead, v, x
  <2> QED BY <1>1, <2>5, <2>9, <2>10 DEF FirstAhead, v, x
<1> QED BY <1>5 DEF Remembered

(* A node has no event only if no supply time its first vehicles need is   *)
(* known.                                                                  *)
LEMMA EventFound ==
  ASSUME ToExits, TypeOK, OnRoute, OnTime, NEW n \in Nodes, EventLinks(n) = {},
         NEW u \in Incoming(n), arrivals[u] # {}
  PROVE  supply[FirstAhead(u)] = Never
<1> DEFINE v == FrontOf(arrivals[u]).veh
           o == NextLink(v, u)
<1>1. u \in Keys /\ Never \in Nat
  BY DEF Incoming, InLinks, Keys, Never
<1>2. v \in Arrivals(u) /\ FrontOf(arrivals[u]) \in arrivals[u]
      /\ FrontOf(arrivals[u]) \in Records
  BY <1>1, FirstVehicle
<1>3. o \in Outgoing(n) /\ o \in Nodes \cup Links
  BY <1>2, NextOutgoing
<1>4. u \in Candidates(n, o)
  BY DEF Candidates
<1>5. Arrival(u) < Never /\ Arrival(u) \in Nat
  BY <1>1, <1>2 DEF Arrival, OnTime, Records
<1>6. \A p \in Outgoing(n) : LocalEventTime(n, p) \in Nat
  BY LocalEvent
<1> HIDE DEF o, v
<1>7. LocalEventTime(n, o) >= Never
  <2> SUFFICES ASSUME LocalEventTime(n, o) < Never PROVE FALSE
    BY <1>1, <1>3, <1>6
  <2> DEFINE T == {LocalEventTime(n, p) : p \in Outgoing(n)}
  <2>1. T \subseteq Nat /\ T # {} /\ LocalEventTime(n, o) \in T
    BY <1>3, <1>6
  <2> HIDE DEF T
  <2>2. Min(T) \in T /\ \A t \in T : Min(T) <= t
    BY <2>1, Smallest
  <2> DEFINE m == Min(T)
             F == {p \in Outgoing(n) : LocalEventTime(n, p) = m}
  <2>3. m \in Nat /\ m < Never /\ m \in T
    <3>1. m \in Nat /\ m <= LocalEventTime(n, o) /\ LocalEventTime(n, o) \in Nat
      BY <1>3, <1>6, <2>1, <2>2
    <3> HIDE DEF m
    <3> QED BY <1>1, <2>2, <3>1 DEF m
  <2>4. \A p \in Outgoing(n) : m <= LocalEventTime(n, p)
    BY <2>2 DEF T
  <2>5. F # {}
    BY <2>3 DEF T
  <2> HIDE DEF m
  <2>6. \E p \in F : \A q \in F \ {p} : p < q
    <3>1. CASE OutLinks(n) = {}
      <4>1. F = {n}
        BY <2>5, <3>1 DEF Outgoing
      <4> QED BY <4>1
    <3>2. CASE OutLinks(n) # {}
      <4>1. F \subseteq Nat
        BY <3>2, NetworkAssumption DEF Outgoing, OutLinks
      <4> HIDE DEF F
      <4>2. Min(F) \in F /\ \A q \in F : Min(F) <= q
        BY <2>5, <4>1, Smallest
      <4> DEFINE p == Min(F)
      <4>3. p \in F /\ p \in Nat /\ \A q \in F : q \in Nat /\ p <= q
        BY <4>1, <4>2
      <4> HIDE DEF p
      <4>4. \A q \in F \ {p} : p < q
        BY <4>3
      <4> QED BY <4>3, <4>4
    <3> QED BY <3>1, <3>2
  <2>7. PICK p \in F : \A q \in F \ {p} : p < q
    BY <2>6
  <2>8. p \in Outgoing(n) /\ LocalEventTime(n, p) = m
    OBVIOUS
  <2>9. ASSUME NEW q \in Outgoing(n) \ {p}
        PROVE  \/ LocalEventTime(n, p) < LocalEventTime(n, q)
               \/ LocalEventTime(n, p) = LocalEventTime(n, q) /\ p < q
    <3>1. CASE q \in F
      BY <2>7, <2>8, <3>1
    <3>2. CASE q \notin F
      <4>1. LocalEventTime(n, q) # m
        BY <3>2
      <4>2. m <= LocalEventTime(n, q) /\ LocalEventTime(n, q) \in Nat
        BY <1>6, <2>4
      <4> QED BY <2>3, <2>8, <4>1, <4>2
    <3> QED BY <3>1, <3>2
  <2>10. p \in EventLinks(n)
    BY <2>3, <2>8, <2>9 DEF EventLinks
  <2> QED BY <2>10
<1>8. Congested(n, o) # {}
  <2> SUFFICES ASSUME Congested(n, o) = {} PROVE FALSE
    OBVIOUS
  <2> DEFINE S == {Never} \cup {Arrival(w) : w \in Candidates(n, o)}
  <2>1. \A w \in Candidates(n, o) : Arrival(w) \in Nat
    BY <1>3, LocalEvent DEF Arrival, Records
  <2>2. S \subseteq Nat /\ S # {} /\ Arrival(u) \in S
    BY <1>1, <1>4, <2>1
  <2>3. LocalEventTime(n, o) = Min(S)
    BY DEF LocalEventTime
  <2> HIDE DEF S
  <2>4. Min(S) \in S /\ Min(S) <= Arrival(u)
    BY <2>2, Smallest
  <2> DEFINE m == LocalEventTime(n, o)
  <2>5. m \in Nat /\ m >= Never /\ m <= Arrival(u)
    BY <1>3, <1>6, <1>7, <2>3, <2>4
  <2> HIDE DEF m
  <2> QED BY <1>1, <1>5, <2>5
<1>9. supply[o] >= Never
  BY <1>7, <1>8 DEF LocalEventTime
<1>10. supply[o] = Never
  <2>1. supply[o] \in Nat \cup {AnyTime}
    BY <1>3 DEF TypeOK, Keys
  <2>2. supply[o] <= Never \/ supply[o] < Never
    BY <1>3 DEF OnTime
  <2> QED BY <1>9, <2>1, <2>2, SMT DEF AnyTime, Never
<1> QED BY <1>10 DEF FirstAhead, o, v

(* A node that is updated gets an event, or waits for a supply time.       *)
LEMMA RememberedUpdate ==
  ASSUME Horizon, ToExits, TypeOK, OnRoute, OnTime, Quiet, Clock, Remembered, UpdateNode
  PROVE  Remembered'
<1> DEFINE n == Head(todo)
<1>1. /\ n \in Nodes /\ stage = "nodes" /\ todo # <<>> /\ UNCHANGED <<stage, now, supply, route>>
      /\ \A m \in ToSet(todo) : m = n \/ m \in ToSet(todo')
  BY PendingUpdate DEF UpdateNode, links, Pending
<1>2. now # Never /\ now < Never /\ now \in Nat
  <2>1. now # Never
    BY <1>1 DEF Quiet
  <2>2. now \in Nat /\ now <= Never
    BY DEF TypeOK, Clock
  <2> QED BY <2>1, <2>2, SMT DEF Never
<1>3. arrivals \in [Keys -> SUBSET Records] /\ event \in [Nodes -> Nat]
  BY DEF TypeOK, Records
<1> HIDE DEF n
<1>4. ASSUME NEW m \in Nodes \ ToSet(todo'), m # n, NEW w \in Incoming(m),
             arrivals'[w] # {}, arrivals'[w] = arrivals[w], event'[m] = event[m]
      PROVE  event'[m] # Never \/ supply'[FirstAhead(w)'] = Never
  <2>1. m \notin ToSet(todo)
    BY <1>1, <1>4
  <2>2. FirstAhead(w)' = FirstAhead(w)
    BY <1>1, <1>4, SameAhead
  <2> QED BY <1>1, <1>4, <2>1, <2>2 DEF Remembered
<1>5. \A m \in Nodes : Incoming(m) \subseteq Keys
  BY DEF Incoming, InLinks, Keys
<1>6. CASE IdleNode(n) /\ EventLinks(n) = {}
  <2>1. arrivals' = arrivals /\ event' = [event EXCEPT ![n] = Never]
    BY <1>6 DEF IdleNode
  <2>2. ASSUME NEW w \in Incoming(n), arrivals'[w] # {}
        PROVE  supply'[FirstAhead(w)'] = Never
    <3>1. FirstAhead(w)' = FirstAhead(w)
      BY <1>1, <2>1, SameAhead
    <3> QED BY <1>1, <1>6, <2>1, <2>2, <3>1, EventFound
  <2>3. ASSUME NEW m \in Nodes \ ToSet(todo'), NEW w \in Incoming(m), arrivals'[w] # {}
        PROVE  event'[m] # Never \/ supply'[FirstAhead(w)'] = Never
    <3>1. CASE m = n
      BY <2>2, <2>3, <3>1
    <3>2. CASE m # n
      BY <1>3, <1>4, <2>1, <2>3, <3>2
    <3> QED BY <3>1, <3>2
  <2> QED BY <2>3 DEF Remembered
<1>7. ASSUME NEW o \in EventLinks(n), NEW u \in Selected(n, o), ScheduleNode(n, o, u)
      PROVE  Remembered'
  <2>1. o \in Outgoing(n) /\ u \in Candidates(n, o) /\ LocalEventTime(n, o) < Never
    BY DEF EventLinks, Selected, Congested
  <2> DEFINE a == FrontOf(arrivals[u])
             b == [a EXCEPT !.time = EventTime(n, o)]
  <2>2. u \in Keys /\ u \in Incoming(n) /\ a \in Records
    BY <1>1, <2>1, LocalEvent DEF Candidates
  <2>3. /\ event' = [event EXCEPT ![n] = b.time]
        /\ arrivals' = [arrivals EXCEPT ![u] = (@ \ {a}) \cup {b}]
    BY <1>7 DEF ScheduleNode
  <2>4. b.time = EventTime(n, o)
    BY <2>2 DEF Records
  <2>5. EventTime(n, o) # Never
    <3>1. EventTime(n, o) \in {LocalEventTime(n, o), now} /\ LocalEventTime(n, o) \in Nat
      BY <1>1, <2>1, EventType, LocalEvent
    <3> QED BY <1>2, <2>1, <3>1, SMT DEF Never
  <2> HIDE DEF a, b
  <2>6. ASSUME NEW m \in Nodes \ ToSet(todo'), NEW w \in Incoming(m), arrivals'[w] # {}
        PROVE  event'[m] # Never \/ supply'[FirstAhead(w)'] = Never
    <3>1. CASE m = n
      BY <1>1, <1>3, <2>3, <2>4, <2>5, <3>1
    <3>2. CASE m # n
      <4>1. w # u /\ w \in Keys
        BY <1>1, <1>5, <2>2, <3>2, IncomingApart
      <4>2. arrivals'[w] = arrivals[w] /\ event'[m] = event[m]
        BY <1>3, <2>3, <3>2, <4>1
      <4> QED BY <1>4, <2>6, <3>2, <4>2
    <3> QED BY <3>1, <3>2
  <2> QED BY <2>6 DEF Remembered
<1> QED BY <1>6, <1>7 DEF UpdateNode, n

(* A network without cycles has no link from a node to itself.             *)
LEMMA AcyclicNoLoops ==
  ASSUME Acyclic
  PROVE  NoLoops
<1>1. PICK f \in [Nodes -> Nat] : \A l \in Links : f[Up[l]] < f[Down[l]]
  BY DEF Acyclic
<1> SUFFICES ASSUME NEW l \in Links, Up[l] = Down[l] PROVE FALSE
  BY DEF NoLoops
<1>2. f[Up[l]] \in Nat /\ f[Up[l]] < f[Up[l]]
  BY <1>1, NetworkAssumption
<1> QED BY <1>2

(* Initially nobody has arrived anywhere.                                  *)
LEMMA InitWatch ==
  ASSUME Init
  PROVE  Watch
<1>1. /\ stage = "call" /\ todo = <<>> /\ arrivals = [k \in Keys |-> {}]
      /\ supply = [k \in Keys |-> AnyTime]
  BY DEF Init
<1>2. AnyTime < Never
  BY SMT DEF AnyTime, Never
<1>3. \A k \in Keys : arrivals[k] = {} /\ supply[k] = AnyTime
  BY <1>1
<1>4. OnTime
  BY <1>1, <1>2, <1>3, SMT DEF OnTime, Keys, AnyTime, Never
<1>5. UnknownFull
  BY <1>2, <1>3, SMT DEF UnknownFull, Keys, AnyTime, Never
<1>6. Quiet
  BY <1>1 DEF Quiet
<1>7. Remembered
  BY <1>3 DEF Remembered, Incoming, InLinks, Keys
<1> QED BY <1>4, <1>5, <1>6, <1>7 DEF Watch

(* Every step keeps the watch.                                             *)
LEMMA WatchStep ==
  ASSUME MicroLinks = {}, OneLinkEntries, Acyclic, ToExits, RoomAtExits, FarHorizon,
         IInv, Clock, Dated, Watch, [Next]_vars
  PROVE  Watch'
<1>1. /\ NoLoops /\ Horizon /\ TypeOK /\ OnRoute /\ OnLinks /\ Counted
      /\ OnTime /\ UnknownFull /\ Quiet /\ Remembered
  BY AcyclicNoLoops DEF FarHorizon, IInv, Places, Watch
<1>2. Quiet'
  BY <1>1, QuietStep
<1>3. CASE UNCHANGED vars
  <2>1. UNCHANGED <<stage, now, todo, arrivals, event, supply, on, route>>
    BY <1>3 DEF vars, links
  <2>2. OnTime' /\ UnknownFull'
    BY <1>1, <2>1 DEF OnTime, UnknownFull, Occupied
  <2>3. Remembered'
    BY <1>1, <2>1, RememberedKept
  <2> QED BY <1>2, <2>2, <2>3 DEF Watch
<1>4. CASE Call \/ Decide \/ Step \/ EndStep \/ NodesUpdated
  <2>1. UNCHANGED <<todo, arrivals, event, supply, on, route>>
        /\ stage # "passage" /\ stage' # "passage"
    BY <1>4 DEF Call, Decide, Dispatch, Step, EndStep, NodesUpdated, links
  <2>2. OnTime'
    BY <1>1, <1>4, OnTimeClock
  <2>3. UnknownFull'
    BY <1>1, <2>1, FullKept
  <2>4. Remembered'
    BY <1>1, <2>1, RememberedKept
  <2> QED BY <1>2, <2>2, <2>3, <2>4 DEF Watch
<1>5. ASSUME NEW r \in Routes, CreateVehicle(r) PROVE Watch'
  <2>1. UNCHANGED <<stage, supply, on>> /\ stage = "create"
    BY <1>5 DEF CreateVehicle, links
  <2>2. OnTime'
    BY <1>1, <1>5, OnTimeCreate
  <2>3. UnknownFull'
    BY <1>1, <2>1, FullKept
  <2>4. Remembered'
    BY <1>1, <1>5, RememberedCreate
  <2> QED BY <1>2, <2>2, <2>3, <2>4 DEF Watch
<1>6. CASE Supplies
  BY <1>1, <1>2, <1>6, OnTimeSupplies, FullSupplies, RememberedSupplies DEF Watch
<1>7. CASE Passage
  <2>1. PICK u, a, d : Passing(u, a, d) /\ (Inserted(u, a, d) \/ Refused(u, a, d)
                                              \/ Departed(u, a, d))
    BY <1>1, <1>7, PassageCases
  <2>2. OnTime'
    BY <1>1, <1>7, <2>1, OnTimePassage
  <2>3. UnknownFull'
    BY <1>1, <1>7, <2>1, FullPassage
  <2>4. Remembered'
    BY <1>1, <1>7, <2>1, RememberedPassage
  <2> QED BY <1>2, <2>2, <2>3, <2>4 DEF Watch
<1>8. CASE UpdateNode
  <2>1. stage = "nodes" /\ todo # <<>> /\ stage' = stage /\ UNCHANGED <<supply, on>>
    BY <1>8 DEF UpdateNode, links
  <2>2. now # Never
    BY <1>1, <2>1 DEF Quiet
  <2>3. OnTime'
    BY <1>1, <1>8, <2>2, OnTimeUpdate
  <2>4. UnknownFull'
    BY <1>1, <2>1, FullKept
  <2>5. Remembered'
    BY <1>1, <1>8, RememberedUpdate
  <2> QED BY <1>2, <2>3, <2>4, <2>5 DEF Watch
<1> QED BY <1>3, <1>4, <1>5, <1>6, <1>7, <1>8 DEF Next

(* The watch holds of every state.                                         *)
LEMMA WatchKept ==
  ASSUME MicroLinks = {}, OneLinkEntries, Acyclic, ToExits, RoomAtExits, FarHorizon
  PROVE  Spec => [](IInv /\ Watch)
<1> DEFINE W == IInv /\ Clock /\ Dated /\ Watch
<1>1. NoLoops /\ Horizon
  BY AcyclicNoLoops DEF FarHorizon
<1>2. Init => W
  BY <1>1, InitInvariant, InitTimed, InitWatch DEF Timed
<1>3. W /\ [Next]_vars => W'
  <2> SUFFICES ASSUME W, [Next]_vars PROVE W'
    OBVIOUS
  <2>1. IInv'
    BY <1>1, InvariantStep
  <2>2. Clock'
    BY <1>1, ClockStep DEF IInv
  <2>3. Dated'
    BY <1>1, DatedStep
  <2>4. Watch'
    BY WatchStep
  <2> QED BY <2>1, <2>2, <2>3, <2>4
<1> QED BY <1>2, <1>3, PTL DEF Spec

(* On a mesoscopic network without cycles, whose itineraries end at exits   *)
(* behind links that hold two vehicles, no node is forgotten: when          *)
(* SimuTrafic (reseau.cpp) chooses between a time step and an event, a node *)
(* whose first vehicle may go on has an event.  With a cycle, a microscopic *)
(* link, or a link of one vehicle before an exit, it is false: a supply     *)
(* time is never computed again.                                            *)
THEOREM NodesNotForgotten ==
  ASSUME MicroLinks = {}, OneLinkEntries, Acyclic, ToExits, RoomAtExits, FarHorizon
  PROVE  Spec => []NoNodeForgotten
<1>1. IInv /\ Watch => NoNodeForgotten
  <2> SUFFICES ASSUME Watch, stage = "call" PROVE \A n \in Nodes : \A u \in Incoming(n) :
                 arrivals[u] # {} => event[n] # Never \/ supply[FirstAhead(u)] = Never
    BY DEF NoNodeForgotten, FirstAhead
  <2>1. ToSet(todo) = {}
    BY DEF Watch, OnTime, ToSet
  <2> QED BY <2>1 DEF Watch, Remembered
<1> QED BY <1>1, WatchKept, PTL

(* On the same networks the simulation never goes on without a vehicle:     *)
(* when no node has an event, everyone created so far has left.  It is what *)
(* NetworkEmpties needs besides fairness: the wait for a supply time never  *)
(* closes on itself.                                                        *)
EmptyWhenIdle == stage = "call" /\ (\A n \in Nodes : event[n] = Never) => gone = Vehicles
THEOREM NobodyStuck ==
  ASSUME MicroLinks = {}, OneLinkEntries, Acyclic, ToExits, RoomAtExits, FarHorizon
  PROVE  Spec => []EmptyWhenIdle
<1>1. IInv /\ Watch => EmptyWhenIdle
  <2> SUFFICES ASSUME IInv, Watch, stage = "call", \A n \in Nodes : event[n] = Never,
                      NEW v \in Vehicles \ gone
               PROVE  FALSE
    BY DEF EmptyWhenIdle, IInv, TypeOK
  <2>1. /\ TypeOK /\ OnRoute /\ OnLinks /\ OnTime /\ UnknownFull /\ Remembered /\ Present
        /\ todo = <<>> /\ ToSet(todo) = {}
    BY DEF IInv, Places, Watch, OnTime, ToSet
  <2>2. Blocked = {}
    BY <2>1, NobodyLeft
  <2>3. PICK k \in Keys : v \in Arrivals(k)
    BY <2>1 DEF Present
  <2>4. PICK n \in Nodes : k \in Incoming(n)
    <3>1. CASE k \in Links
      BY <3>1, NetworkAssumption DEF Incoming, InLinks
    <3>2. CASE k \in Nodes
      BY <2>1, <2>3, <3>2 DEF OnRoute, Incoming, Entries
    <3> QED BY <3>1, <3>2 DEF Keys
  <2>5. arrivals[k] # {}
    BY <2>3 DEF Arrivals
  <2> DEFINE d == NextLink(FrontOf(arrivals[k]).veh, k)
  <2>6. supply[d] = Never
    BY <2>1, <2>4, <2>5 DEF Remembered, FirstAhead
  <2>7. d \in Nodes \cup Links
    BY <2>1, <2>4, <2>5, FirstVehicle, NextOutgoing
  <2> HIDE DEF d
  <2>8. d \notin Nodes
    BY <2>1, <2>6, SMT DEF OnTime, Never
  <2> QED BY <2>2, <2>6, <2>7, <2>8 DEF Blocked
<1> QED BY <1>1, WatchKept, PTL

(***************************************************************************)
(* Storage of the links inside the network.                                *)
(***************************************************************************)
(* The places of a link inside the network, and the room for one more.     *)
Within(l, count) == count <= Storage[l] + 1 \/ FirstQueue(l, count)
InnerKept == \A l \in InnerLinks :
  /\ Within(l, Rank(l) - Len(left[l]))
  /\ supply[l] # Never => Within(l, Rank(l) - Len(left[l]) + 1)

(* No event to come is earlier than an instant at which a vehicle passed.  *)
Ago(t) == /\ t < inst + TimeStep /\ (stage = "create" => t < inst)
          /\ (stage = "nodes" => t <= now) /\ \A n \in Nodes : t <= event[n]
Passed == \A l \in Links : \A i \in DOMAIN entered[l] : Ago(entered[l][i].time)
Earliest == stage \in {"supplies", "passage"} => \A n \in Nodes : now <= event[n]

(* The event that is handled is the earliest one.                          *)
LEMMA EarliestStep ==
  ASSUME TypeOK, Earliest, [Next]_vars
  PROVE  Earliest'
<1>1. CASE UNCHANGED vars
  BY <1>1 DEF vars, Earliest
<1>2. ASSUME now' = NextEvent, event' = event PROVE Earliest'
  BY <1>2, EarliestEvent DEF Earliest
<1>3. CASE Call
  <2>1. CASE NextEvent = Never
    BY <1>2, <1>3, <2>1 DEF Call
  <2>2. CASE NextEvent # Never
    BY <1>2, <1>3, <2>2 DEF Call, Dispatch
  <2> QED BY <2>1, <2>2
<1>4. CASE Decide
  BY <1>2, <1>4 DEF Decide, Dispatch
<1>5. CASE Supplies
  BY <1>5 DEF Supplies, Earliest
<1>6. CASE ~Call /\ ~Decide /\ ~Supplies
  <2>1. UNCHANGED vars \/ stage' \notin {"supplies", "passage"}
    BY <1>6 DEF Next, Step, EndStep, CreateVehicle, Passage, UpdateNode, NodesUpdated
  <2> QED BY <1>1, <2>1 DEF Earliest
<1> QED BY <1>3, <1>4, <1>5, <1>6

(* What has passed stays in the past.                                      *)
LEMMA AgoStep ==
  ASSUME Horizon, TypeOK, Current, Clock, NEW t \in Nat, Ago(t), [Next]_vars
  PROVE  Ago(t)'
<1>1. /\ inst \in Nat /\ now \in Nat /\ event \in [Nodes -> Nat] /\ node \in Nodes
      /\ TimeStep \in Nat \ {0} /\ Duration \in Nat /\ Duration + TimeStep <= Never
  BY ClockAssumption DEF TypeOK, Horizon, Never
<1>2. t < inst + TimeStep /\ \A n \in Nodes : t <= event[n]
  BY DEF Ago
<1>3. ASSUME UNCHANGED <<inst, event>>, stage' \notin {"create", "nodes"} PROVE Ago(t)'
  BY <1>2, <1>3 DEF Ago
<1>4. CASE UNCHANGED vars
  BY <1>4 DEF vars, Ago
<1>5. CASE Call \/ Decide
  <2>1. UNCHANGED <<inst, event>> /\ stage' \in {"supplies", "step"}
    BY <1>5 DEF Call, Decide, Dispatch
  <2> QED BY <1>3, <2>1
<1>6. CASE Step
  <2>1. inst' = inst + TimeStep /\ stage' = "create" /\ event' = event
    BY <1>6 DEF Step
  <2> QED BY <1>1, <1>2, <2>1 DEF Ago
<1>7. CASE EndStep
  BY <1>3, <1>7 DEF EndStep
<1>8. CASE NodesUpdated
  <2>1. UNCHANGED <<inst, event>> /\ stage' \in {"decide", "call"}
    BY <1>8 DEF NodesUpdated
  <2> QED BY <1>3, <2>1
<1>9. ASSUME NEW r \in Routes, CreateVehicle(r) PROVE Ago(t)'
  <2>1. UNCHANGED <<stage, inst, now>> /\ stage = "create"
        /\ (event' = event \/ event' = [event EXCEPT ![Up[r[1]]] = inst])
    BY <1>9 DEF CreateVehicle
  <2>2. t < inst
    BY <2>1 DEF Ago
  <2>3. \A n \in Nodes : event'[n] = event[n] \/ event'[n] = inst
    BY <1>1, <2>1
  <2> QED BY <1>1, <1>2, <2>1, <2>2, <2>3 DEF Ago
<1>10. CASE Supplies
  <2>1. UNCHANGED <<inst, event, now>> /\ stage = "supplies" /\ stage' \in {"passage", "nodes"}
    BY <1>10 DEF Supplies
  <2>2. t <= now
    <3>1. CASE now = Never
      <4>1. inst < Duration
        BY <2>1 DEF Clock
      <4> QED BY <1>1, <1>2, <3>1, <4>1 DEF Never
    <3>2. CASE now # Never
      BY <1>1, <1>2, <2>1, <3>2 DEF Current
    <3> QED BY <3>1, <3>2
  <2> QED BY <1>2, <2>1, <2>2 DEF Ago
<1>11. CASE Passage
  <2>1. UNCHANGED <<inst, event, now>> /\ stage = "passage" /\ stage' = "nodes"
    BY <1>11 DEF Passage
  <2>2. t <= now
    BY <1>1, <1>2, <2>1 DEF Current
  <2> QED BY <1>2, <2>1, <2>2 DEF Ago
<1>12. CASE UpdateNode
  <2>1. UNCHANGED <<stage, inst, now>> /\ stage = "nodes"
    BY <1>12 DEF UpdateNode
  <2>2. t <= now /\ now <= Never
    BY <2>1 DEF Ago, Clock
  <2> DEFINE m == Head(todo)
  <2>3. m \in Nodes
    BY <1>12, HeadTailProperties DEF TypeOK, UpdateNode
  <2>4. CASE IdleNode(m)
    <3>1. event' = [event EXCEPT ![m] = Never]
      BY <2>4 DEF IdleNode
    <3>2. \A n \in Nodes : event'[n] = event[n] \/ event'[n] = Never
      BY <1>1, <3>1
    <3>3. t <= Never
      BY <1>1, <2>2 DEF Never
    <3> QED BY <1>2, <2>1, <2>2, <3>2, <3>3 DEF Ago
  <2>5. ASSUME NEW o \in EventLinks(m), NEW u \in Selected(m, o), ScheduleNode(m, o, u)
        PROVE  Ago(t)'
    <3> HIDE DEF m
    <3>1. event' = [event EXCEPT ![m] = EventTime(m, o)]
      BY <2>5 DEF ScheduleNode
    <3>2. o \in Outgoing(m) /\ LocalEventTime(m, o) \in Nat
      BY <2>3, LocalEvent DEF EventLinks
    <3>3. EventTime(m, o) \in Nat /\ EventTime(m, o) >= now
      BY <1>1, <3>2, LaterOfTwo DEF EventTime
    <3>4. t <= EventTime(m, o)
      BY <1>1, <2>2, <3>3
    <3>5. \A n \in Nodes : event'[n] = event[n] \/ event'[n] = EventTime(m, o)
      BY <1>1, <3>1
    <3> QED BY <1>2, <2>1, <2>2, <3>4, <3>5 DEF Ago
  <2> QED BY <1>12, <2>4, <2>5 DEF UpdateNode
<1> QED BY <1>4, <1>5, <1>6, <1>7, <1>8, <1>9, <1>10, <1>11, <1>12 DEF Next

(* The instant a vehicle enters a link joins the past.                     *)
LEMMA PassedStep ==
  ASSUME NoLoops, Horizon, IInv, Clock, Earliest, Passed, [Next]_vars
  PROVE  Passed'
<1>1. TypeOK /\ Current
  BY DEF IInv
<1>2. ASSUME NEW l \in Links, NEW i \in DOMAIN entered'[l], NEW t, t = entered'[l][i].time
      PROVE  Ago(t)'
  <2>1. entered[l] \in Seq(Records)
    BY <1>1 DEF TypeOK, Records
  <2>2. CASE i \in DOMAIN entered[l] /\ entered'[l][i] = entered[l][i]
    <3>1. t \in Nat
      <4>1. entered[l][i] \in Records
        BY <2>1, <2>2, ElementOfSeq
      <4> QED BY <1>2, <2>2, <4>1 DEF Records
    <3>2. Ago(t)
      BY <1>2, <2>2 DEF Passed
    <3> QED BY <1>1, <3>1, <3>2, AgoStep
  <2>3. CASE Passage
    <3>1. PICK u, a, d : Passing(u, a, d) /\ (Inserted(u, a, d) \/ Refused(u, a, d)
                                                \/ Departed(u, a, d))
      BY <2>3, PassageCases
    <3> DEFINE e == [time |-> now, veh |-> a.veh]
    <3>2. e \in Records /\ e.time = now
      BY <1>1, <3>1 DEF Passing, Records, TypeOK
    <3>3. entered'[l] = entered[l] \/ entered'[l] = Append(entered[l], e)
      BY <1>1, <3>1, PassageOfLinks
    <3> HIDE DEF e
    <3>4. \/ i \in DOMAIN entered[l] /\ entered'[l][i] = entered[l][i]
          \/ entered'[l][i] = e
      BY <2>1, <3>2, <3>3, Appended
    <3>5. CASE entered'[l][i] = e
      <4>1. t = now /\ stage = "passage" /\ UNCHANGED <<inst, event, now>>
        BY <1>2, <3>1, <3>2, <3>5 DEF Passing
      <4>2. now < inst + TimeStep /\ stage' = "nodes" /\ now \in Nat
        BY <1>1, <3>1, <4>1 DEF Clock, Current, Passing, TypeOK
      <4>3. \A n \in Nodes : now <= event[n]
        BY <4>1 DEF Earliest
      <4> QED BY <4>1, <4>2, <4>3 DEF Ago
    <3> QED BY <2>2, <3>4, <3>5
  <2>4. CASE ~Passage
    <3>1. entered' = entered
      BY <2>4 DEF Next, vars, Call, Decide, Step, EndStep, CreateVehicle, Supplies,
                  UpdateNode, NodesUpdated, links
    <3> QED BY <2>2, <3>1
  <2> QED BY <2>3, <2>4
<1>3. ASSUME NEW l \in Links, NEW i \in DOMAIN entered'[l]
      PROVE  /\ entered'[l][i].time < inst' + TimeStep
             /\ stage' = "create" => entered'[l][i].time < inst'
             /\ stage' = "nodes" => entered'[l][i].time <= now'
             /\ \A n \in Nodes : entered'[l][i].time <= event'[n]
  <2>1. PICK t : t = entered'[l][i].time
    OBVIOUS
  <2>2. Ago(t)'
    BY <1>2, <2>1
  <2> QED BY <2>1, <2>2 DEF Ago
<1> QED BY <1>3 DEF Passed, Ago

(* The end of a link is free for a vehicle of some rank.                   *)
LEMMA DownstreamFree ==
  ASSUME TypeOK, NEW l \in MesoLinks, NEW rank \in Nat, DownstreamTime(l, rank) # Never
  PROVE  rank <= Storage[l] + 1 \/ rank < Storage[l] + Len(left[l])
<1> DEFINE s == Storage[l]
           out == Len(left[l])
           ref == rank - s
<1>1. s \in Nat /\ out \in Nat /\ ref \in Int
  BY LengthsOfLink
<1>2. ref <= 1 \/ ~(ref >= out)
  BY DEF DownstreamTime
<1>3. ref = rank - s
  OBVIOUS
<1> HIDE DEF s, out, ref
<1>4. rank <= s + 1 \/ rank < s + out
  BY <1>1, <1>2, <1>3
<1> QED BY <1>4 DEF s, out

(* What is left of the supplies that are respected, on any network.        *)
LEMMA RespectedStep ==
  ASSUME NoLoops, IInv, Clock, SupplyRespected, [Next]_vars
  PROVE  SupplyRespected'
<1>1. TypeOK /\ Places /\ Scheduled /\ Current
  BY DEF IInv
<1>2. CASE UNCHANGED vars
  <2>1. UNCHANGED <<stage, todo, event, via, nextArrival, supply, route>>
    BY <1>2 DEF vars, links
  <2>2. \A n \in Nodes : AheadOf(n)' = AheadOf(n)
    BY <2>1 DEF AheadOf, NextLink
  <2>3. Pending' = Pending
    BY <2>1 DEF Pending
  <2> QED BY <2>1, <2>2, <2>3 DEF SupplyRespected
<1>3. CASE Passage
  <2>1. PICK u, a, d : Passing(u, a, d) /\ (Inserted(u, a, d) \/ Refused(u, a, d)
                                              \/ Departed(u, a, d))
    BY <1>3, PassageCases
  <2> QED BY <1>1, <2>1, RespectedPassage
<1>4. CASE Call \/ Decide \/ Step \/ EndStep \/ NodesUpdated
  BY <1>4, RespectedClock
<1>5. ASSUME NEW r \in Routes, CreateVehicle(r) PROVE SupplyRespected'
  BY <1>1, <1>5, RespectedCreate
<1>6. CASE Supplies
  BY <1>1, <1>6, RespectedSupplies
<1>7. CASE UpdateNode
  BY <1>1, <1>7, RespectedUpdate
<1> QED BY <1>2, <1>3, <1>4, <1>5, <1>6, <1>7 DEF Next

(* A supply time is known only when there is room for one more vehicle.    *)
LEMMA InnerSupplies ==
  ASSUME Horizon, IInv, Dated, InnerKept, Supplies
  PROVE  InnerKept'
<1>1. TypeOK /\ OnLinks /\ Counted /\ UNCHANGED <<entered, left, on>>
  BY DEF IInv, Places, Supplies
<1>2. ASSUME NEW l \in InnerLinks, supply'[l] # Never
      PROVE  Within(l, Rank(l) - Len(left[l]) + 1)
  <2>1. l \in MesoLinks /\ supply'[l] = IF supply[l] = Never THEN PostponedSupply(l) ELSE supply[l]
    BY <1>1, SupplyRecomputed DEF InnerLinks
  <2>2. CASE supply[l] # Never
    BY <2>2 DEF InnerKept
  <2>3. CASE supply[l] = Never
    <3> DEFINE s == Storage[l]
               in == Rank(l)
               out == Len(left[l])
    <3>1. s \in Nat /\ in \in Nat /\ out \in Nat
      BY <1>1, <2>1, LengthsOfLink DEF Rank
    <3>2. CASE arrivals[l] = {}
      <4>1. on[l] = {}
        BY <1>1, <2>1, <3>2 DEF OnLinks, Arrivals
      <4>2. Cardinality(on[l]) = 0 /\ Cardinality(on[l]) = in - out
        BY <1>1, <2>1, <4>1, FS_EmptySet DEF Counted, Rank
      <4>3. in - out = 0
        BY <4>2
      <4>4. in - out + 1 <= s + 1
        <5> HIDE DEF in, out, s
        <5> QED BY <3>1, <4>3
      <4> QED BY <4>4 DEF Within
    <3>3. CASE arrivals[l] # {}
      <4> DEFINE x == entered[l][Rank(l)].time + Headway
                 t == DownstreamTime(l, Rank(l))
      <4>1. in \in Nat \ {0}
        BY <1>1, <2>1, <3>3, SomebodyEntered
      <4>2. entered[l] # <<>>
        BY <4>1 DEF Rank
      <4>3. x \in Nat /\ x < Never
        BY <1>1, <2>1, <4>2, FarFromNever
      <4>4. PostponedSupply(l) = Later(x, t)
        BY <3>3 DEF PostponedSupply
      <4>5. t # Never
        <5> SUFFICES ASSUME t = Never PROVE FALSE
          OBVIOUS
        <5>1. PostponedSupply(l) = Later(x, Never)
          BY <4>4
        <5> HIDE DEF x, t
        <5>2. Never \in Int
          BY DEF Never
        <5>3. Later(x, Never) = Never
          BY <4>3, <5>2, LaterOfTwo
        <5> QED BY <1>2, <2>1, <2>3, <5>1, <5>3
      <4>6. in <= s + 1 \/ in < s + out
        BY <1>1, <2>1, <3>1, <4>5, DownstreamFree
      <4>7. out = 0 => left[l] = <<>>
        BY <1>1, <2>1, LengthsOfLink
      <4>8. in - out + 1 <= s + 1 \/ out = 0
        <5> HIDE DEF in, out, s
        <5> QED BY <3>1, <4>6
      <4> QED BY <4>7, <4>8 DEF Within, FirstQueue
    <3> QED BY <3>2, <3>3
  <2> QED BY <2>2, <2>3
<1>3. \A l \in InnerLinks : Rank(l)' = Rank(l) /\ left'[l] = left[l] /\ entered'[l] = entered[l]
  BY <1>1 DEF Rank
<1> QED BY <1>1, <1>2, <1>3 DEF InnerKept, Within, FirstQueue

(* A vehicle enters an inner link only when its supply time is known.      *)
LEMMA InnerPassage ==
  ASSUME Horizon, IInv, Clock, SupplyRespected, Passed, InnerKept,
         NEW u, NEW a, NEW d, Passing(u, a, d),
         Inserted(u, a, d) \/ Refused(u, a, d) \/ Departed(u, a, d)
  PROVE  InnerKept'
<1>1. TypeOK /\ Current /\ stage = "passage"
  BY DEF IInv, Passing
<1> DEFINE Room(l, c) == \/ c <= Storage[l] + 1 \/ left'[l] = <<>>
                         \/ \A i \in 1 .. c : entered'[l][i].time <= left'[l][1].time
<1> SUFFICES ASSUME NEW l \in InnerLinks
             PROVE  /\ Room(l, Len(entered'[l]) - Len(left'[l]))
                    /\ supply'[l] # Never => Room(l, Len(entered'[l]) - Len(left'[l]) + 1)
  BY DEF InnerKept, Within, FirstQueue, Rank
<1>2. l \in MesoLinks /\ l \in Links
  BY <1>1 DEF InnerLinks, MesoLinks
<1> DEFINE e == [time |-> now, veh |-> a.veh]
<1>0. \/ l = d /\ l # u /\ Inserted(u, a, d) /\ l \in MesoLinks
         /\ entered'[l] = Append(entered[l], [time |-> now, veh |-> a.veh])
         /\ supply'[l] = NextSupplyTime(l, Rank(l) + 1)
      \/ entered'[l] = entered[l] /\ (l \in InnerLinks => supply'[l] = supply[l])
  BY <1>1, <1>2, PassageOfLinks, Zenon
<1>3. \/ l = d /\ l # u /\ entered'[l] = Append(entered[l], e)
         /\ supply'[l] = NextSupplyTime(l, Rank(l) + 1)
      \/ entered'[l] = entered[l] /\ supply'[l] = supply[l]
  BY <1>0
<1>4. left'[l] = IF l = u THEN Append(left[l], e) ELSE left[l]
  BY <1>1, <1>2, PassageOfLinks, Zenon
<1>5. /\ Within(l, Rank(l) - Len(left[l]))
      /\ supply[l] # Never => Within(l, Rank(l) - Len(left[l]) + 1)
  BY DEF InnerKept
<1>6. e \in Records /\ e.time = now
  BY <1>1 DEF Passing, Records, TypeOK
<1> HIDE DEF e
<1> DEFINE s == Storage[l]
           in == Rank(l)
           out == Len(left[l])
<1>7. /\ s \in Nat /\ in \in Nat /\ out \in Nat /\ in = Len(entered[l])
      /\ entered[l] \in Seq(Records) /\ left[l] \in Seq(Records)
  BY <1>1, <1>2, LengthsOfLink DEF Rank
<1>8. left[l] = <<>> <=> out = 0
  BY <1>7
<1>9. CASE entered'[l] = entered[l] /\ supply'[l] = supply[l] /\ left'[l] = left[l]
  <2>1. Len(entered'[l]) - Len(left'[l]) = Rank(l) - Len(left[l])
    BY <1>9 DEF Rank
  <2> QED BY <1>5, <1>9, <2>1 DEF Within, FirstQueue
<1>10. CASE entered'[l] = entered[l] /\ left'[l] = Append(left[l], e)
  <2>1. Len(left'[l]) = out + 1 /\ Len(entered'[l]) = in
    BY <1>6, <1>7, <1>10, Appended
  <2>2. left'[l] # <<>> /\ left'[l][1] = IF left[l] = <<>> THEN e ELSE left[l][1]
    BY <1>6, <1>7, <1>8, <1>10, <2>1, Appended, SMTT(30)
  <2>3. ASSUME NEW i \in 1 .. in - out, in - out > s + 1
        PROVE  entered'[l][i].time <= left'[l][1].time
    <3>1. CASE left[l] = <<>>
      <4>1. i \in DOMAIN entered[l]
        BY <1>7, <1>8, <3>1
      <4>2. entered[l][i].time <= event[node]
        BY <1>1, <1>2, <4>1 DEF Passed, Ago, TypeOK
      <4>3. event[node] = now
        BY <1>1, PassageDates DEF IInv
      <4> QED BY <1>6, <1>10, <2>2, <3>1, <4>2, <4>3
    <3>2. CASE left[l] # <<>>
      <4>1. FirstQueue(l, in - out)
        <5>1. Within(l, in - out)
          BY <1>5
        <5>2. in - out \in Int
          BY <1>7
        <5> HIDE DEF in, out
        <5> QED BY <1>7, <2>3, <5>1, <5>2 DEF Within
      <4> QED BY <1>10, <2>2, <3>2, <4>1 DEF FirstQueue
    <3> QED BY <3>1, <3>2
  <2>4. ASSUME NEW c \in {in - out, in - out - 1} PROVE Room(l, c)
    <3>1. CASE in - out <= s + 1
      <4>1. c <= s + 1
        <5>1. c = in - out \/ c = in - out - 1
          BY <2>4
        <5> HIDE DEF in, out, s
        <5> QED BY <1>7, <3>1, <5>1
      <4> QED BY <4>1
    <3>2. CASE in - out > s + 1
      <4>1. \A i \in 1 .. c : i \in 1 .. in - out
        <5>1. c = in - out \/ c = in - out - 1
          BY <2>4
        <5> HIDE DEF in, out, s
        <5> QED BY <1>7, <5>1
      <4>2. \A i \in 1 .. c : entered'[l][i].time <= left'[l][1].time
        BY <2>3, <3>2, <4>1
      <4> QED BY <4>2
    <3>3. in - out <= s + 1 \/ in - out > s + 1
      <4> HIDE DEF in, out, s
      <4> QED BY <1>7
    <3> QED BY <3>1, <3>2, <3>3
  <2> DEFINE k == in - out
             out2 == Len(left'[l])
             in2 == Len(entered'[l])
  <2>5. in2 - out2 = k - 1 /\ in2 - out2 + 1 = k
    <3>1. out2 = out + 1 /\ in2 = in
      BY <2>1
    <3>2. k = in - out
      OBVIOUS
    <3> HIDE DEF in, out, in2, out2, k
    <3> QED BY <1>7, <3>1, <3>2
  <2>6. Room(l, k) /\ Room(l, k - 1)
    BY <2>4
  <2> HIDE DEF k, Room
  <2> QED BY <2>5, <2>6
<1>11. CASE /\ l = d /\ l # u /\ entered'[l] = Append(entered[l], e)
            /\ supply'[l] = NextSupplyTime(l, Rank(l) + 1)
  <2>1. left'[l] = left[l]
    BY <1>4, <1>11
  <2>2. Len(entered'[l]) = in + 1 /\ \A i \in 1 .. in : entered'[l][i] = entered[l][i]
    BY <1>6, <1>7, <1>11, Appended
  <2>3. supply[l] # Never
    <3>1. supply[l] <= now
      BY <1>1, <1>11, EntersInTime
    <3>2. now \in Nat /\ now < Never
      <4>1. now \in Nat /\ now < Duration + TimeStep
        BY <1>1, PassageDates
      <4> QED BY <4>1, ClockAssumption, SMT DEF Horizon, Never
    <3>3. supply[l] \in Nat \cup {AnyTime}
      BY <1>1, <1>2 DEF TypeOK, Keys
    <3> QED BY <3>1, <3>2, <3>3, SMT DEF Never, AnyTime
  <2>4. CASE left[l] = <<>>
    BY <2>1, <2>4
  <2>5. CASE left[l] # <<>>
    <3>1. out \in Nat \ {0}
      BY <1>7, <1>8, <2>5
    <3>2. in - out + 1 <= s + 1 \/ \A i \in 1 .. in - out + 1 : entered'[l][i].time <= left'[l][1].time
      <4>1. Within(l, in - out + 1)
        BY <1>5, <2>3
      <4>2. \A i \in 1 .. in - out + 1 : i \in 1 .. in
        <5> HIDE DEF in, out
        <5> QED BY <1>7, <3>1
      <4> QED BY <2>1, <2>2, <2>5, <4>1, <4>2 DEF Within, FirstQueue
    <3>3. Room(l, Len(entered'[l]) - Len(left'[l]))
      <4> DEFINE in2 == Len(entered'[l])
      <4>1. in2 - out = in - out + 1
        <5>1. in2 = in + 1
          BY <2>2
        <5> HIDE DEF in2, in, out
        <5> QED BY <1>7, <5>1
      <4> QED BY <2>1, <3>2, <4>1
    <3>4. ASSUME supply'[l] # Never
          PROVE  Room(l, Len(entered'[l]) - Len(left'[l]) + 1)
      <4> DEFINE t == DownstreamTime(l, Rank(l) + 1)
      <4>1. NextSupplyTime(l, Rank(l) + 1) = Later(now + Headway, t)
        BY <2>5 DEF NextSupplyTime
      <4>2. t # Never
        <5> SUFFICES ASSUME t = Never PROVE FALSE
          OBVIOUS
        <5>1. supply'[l] = Later(now + Headway, Never)
          BY <1>11, <4>1
        <5>2. now + Headway \in Nat /\ now + Headway < Never /\ Never \in Int
          <6>1. now \in Nat /\ now < Duration + TimeStep
            BY <1>1, PassageDates DEF IInv
          <6> QED BY <6>1, ClockAssumption, SMT DEF Horizon, Never
        <5>3. Later(now + Headway, Never) = Never
          BY <5>2, LaterOfTwo
        <5> QED BY <3>4, <5>1, <5>3
      <4>3. in + 1 \in Nat
        <5> HIDE DEF in
        <5> QED BY <1>7
      <4>4. in + 1 <= s + 1 \/ in + 1 < s + out
        BY <1>1, <1>2, <4>2, <4>3, DownstreamFree
      <4> DEFINE in2 == Len(entered'[l])
      <4>5. in2 - out + 1 <= s + 1
        <5>1. in2 = in + 1
          BY <2>2
        <5> HIDE DEF in2, in, out, s
        <5> QED BY <1>7, <3>1, <4>4, <5>1
      <4> QED BY <2>1, <4>5
    <3> QED BY <3>3, <3>4
  <2> QED BY <2>4, <2>5
<1>12. left'[l] = left[l] \/ (left'[l] = Append(left[l], e) /\ l = u)
  BY <1>4
<1> QED BY <1>3, <1>9, <1>10, <1>11, <1>12

(* Every step keeps the room of the links inside the network.              *)
LEMMA InnerStep ==
  ASSUME NoLoops, Horizon, IInv, Clock, Dated, SupplyRespected, Passed, InnerKept,
         [Next]_vars
  PROVE  InnerKept'
<1>1. CASE UNCHANGED <<entered, left, supply>>
  <2>1. \A l \in InnerLinks : Rank(l)' = Rank(l)
    BY <1>1 DEF Rank
  <2> QED BY <1>1, <2>1 DEF InnerKept, Within, FirstQueue
<1>2. CASE Supplies
  BY <1>2, InnerSupplies
<1>3. CASE Passage
  <2>1. PICK u, a, d : Passing(u, a, d) /\ (Inserted(u, a, d) \/ Refused(u, a, d)
                                              \/ Departed(u, a, d))
    BY <1>3, PassageCases
  <2> QED BY <2>1, InnerPassage
<1>4. CASE ~Supplies /\ ~Passage
  <2>1. UNCHANGED <<entered, left, supply>>
    BY <1>4 DEF Next, vars, Call, Decide, Step, EndStep, CreateVehicle, UpdateNode,
                NodesUpdated, links
  <2> QED BY <1>1, <2>1
<1> QED BY <1>2, <1>3, <1>4

(* On every network a link from an entry holds at most two vehicles above   *)
(* its storage.  A link inside it holds at most one above, however late the *)
(* nodes downstream answer and supply times are computed, or no more than   *)
(* it had taken when its first vehicle left: NextSupplyTime (SimuTraficMeso *)
(* in reseau.cpp) does not look at the storage before.                      *)
THEOREM StorageBounded ==
  ASSUME NoLoops, OneLinkEntries, Horizon
  PROVE  Spec => []StorageKept
<1> DEFINE I == /\ IInv /\ Clock /\ Dated /\ SupplyRespected /\ Earliest /\ Passed
                /\ InnerKept /\ EntriesKept
<1>1. Init => I
  <2> SUFFICES ASSUME Init PROVE I
    OBVIOUS
  <2>1. IInv /\ Clock /\ Dated /\ SupplyRespected
    BY InitInvariant, InitTimed DEF Timed
  <2>2. \A l \in Links : entered[l] = <<>> /\ left[l] = <<>>
    BY DEF Init, Keys
  <2>3. \A l \in MesoLinks : l \in Links /\ on[l] = {} /\ Storage[l] \in Nat
    BY NetworkAssumption DEF Init, MesoLinks
  <2>4. InnerKept
    BY <2>2, <2>3 DEF InnerKept, InnerLinks, Within, FirstQueue
  <2>5. EntriesKept
    <3> SUFFICES ASSUME NEW l \in MesoLinks PROVE Cardinality(on[l]) <= Storage[l] + 2
      BY DEF EntriesKept
    <3>1. Cardinality(on[l]) = 0 /\ Storage[l] \in Nat
      BY <2>3, FS_EmptySet
    <3> QED BY <3>1
  <2>6. Earliest /\ Passed
    BY <2>2 DEF Init, Earliest, Passed
  <2> QED BY <2>1, <2>4, <2>5, <2>6
<1>2. I /\ [Next]_vars => I'
  <2> SUFFICES ASSUME I, [Next]_vars PROVE I'
    OBVIOUS
  <2>1. IInv' /\ EntriesKept' /\ SupplyRespected' /\ Dated' /\ InnerKept' /\ Passed'
    BY InvariantStep, EntriesStep, RespectedStep, DatedStep, InnerStep, PassedStep
  <2>2. Clock' /\ Earliest'
    BY ClockStep, EarliestStep DEF IInv
  <2> QED BY <2>1, <2>2
<1>3. I => StorageKept
  <2> SUFFICES ASSUME I, NEW l \in MesoLinks
               PROVE  IF Up[l] \in Entries THEN Cardinality(on[l]) <= Storage[l] + 2
                      ELSE Within(l, Cardinality(on[l]))
    BY DEF StorageKept, Within
  <2>1. CASE Up[l] \in Entries
    BY <2>1 DEF EntriesKept
  <2>2. CASE Up[l] \notin Entries
    <3>1. Cardinality(on[l]) = Rank(l) - Len(left[l])
      BY DEF IInv, Counted, Rank
    <3> QED BY <2>2, <3>1 DEF InnerKept, InnerLinks
  <2> QED BY <2>1, <2>2
<1> QED BY <1>1, <1>2, <1>3, PTL DEF Spec
=============================================================================
