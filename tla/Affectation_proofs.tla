-------------------------- MODULE Affectation_proofs --------------------------
(***************************************************************************)
(* Proofs about Affectation, for every length of the simulation, period,    *)
(* number of iterations, barrier and number of vehicles and snapshots.      *)
(***************************************************************************)
EXTENDS Affectation, SequenceTheorems, FiniteSetTheorems, TLAPS

(***************************************************************************)
(* The values of the state.                                                *)
(***************************************************************************)
VehIds   == 0 .. MaxVehicles - 1
Instants == 1 .. LastStep
Nodes    == [created : 0 .. Never, entered : 0 .. Never, left : 0 .. Never]
NodeMaps == UNION {[D -> Nodes] : D \in SUBSET VehIds}
Docs     == [insts : Seq(Instants), vehs : NodeMaps]
Files    == [doc : Docs, rows : Seq(Instants)]
Nets     == [inst : 0 .. LastStep, lastId : 0 .. MaxVehicles, vehs : SUBSET Objects,
             ready : Int, waiting : Seq(Objects), lastOut : 0 .. LastStep,
             fleet : SUBSET Objects]
Backups  == [inst : 0 .. LastStep, lastId : 0 .. MaxVehicles, vehs : SUBSET Objects,
             ready : Int, waiting : Seq(Objects), fleet : SUBSET VehIds]
Snaps    == [saved : Backups, doc : Docs, rows : Seq(Instants), file : Nat]

Values ==
  /\ net \in Nets /\ copies \in 0 .. MaxRollbacks
  /\ out \in Files /\ snapshots \in Seq(Snaps)
  /\ master \in BOOLEAN /\ period \in Periods
  /\ pc \in {"init", "start", "step", "end", "return", "done"}
  /\ nIteration \in 0 .. NbItMax \cup {1} /\ bLastInstSimu \in BOOLEAN

(* The vehicles of a network, those that wait included, have different ids,  *)
(* all given out before; the ready vehicle is one that runs.                 *)
Owned(n) == n.vehs \cup ToSet(n.waiting)

Numbered(n) ==
  /\ \A v \in Owned(n) : v.id < n.lastId
  /\ \A v, w \in Owned(n) : v.id = w.id => v = w
  /\ \A i, j \in DOMAIN n.waiting : n.waiting[i] = n.waiting[j] => i = j
  /\ n.vehs \cap ToSet(n.waiting) = {}
  /\ n.ready \in {None} \cup Ids(n.vehs)

(* FleetsMatchNetwork is not inductive: what a rollback brings back is what  *)
(* was saved, and the fleets find a vehicle by its id, so the saved fleets    *)
(* must be those of the saved network and no two vehicles may share an id.   *)
SavedOK(list) == \A i \in DOMAIN list :
  /\ Numbered(list[i].saved)
  /\ list[i].saved.fleet = Ids(Owned(list[i].saved))

SavedInv == SavedOK(snapshots)

(* Under SymuMaster the driver only makes steps.                             *)
Driven == master => pc = "start"

IInv == /\ Values /\ Numbered(net) /\ SavedInv /\ Driven
        /\ FleetsMatchNetwork /\ OneSnapshot

(***************************************************************************)
(* Documents.                                                              *)
(***************************************************************************)
LEMMA EmptyDocType == EmptyDoc \in Docs
<1>1. <<>> \in [{} -> Nodes]
  OBVIOUS
<1> QED
  BY <1>1 DEF EmptyDoc, Docs, NodeMaps

(* Nodes of vehicles, and their merge, have their types.                   *)
LEMMA NodeType ==
  /\ \A c \in 0 .. Never : Node(c) \in Nodes
  /\ \A d \in Docs, id \in VehIds : NodeOf(d, id) \in Nodes
  /\ \A a, b \in Nodes : MergedNode(a, b) \in Nodes
<1>1. Never \in Nat
  BY SnapshotAssumption DEF Never
<1>2. \A c \in 0 .. Never : Node(c) \in Nodes
  BY <1>1 DEF Node, Nodes, Unset
<1>3. ASSUME NEW d \in Docs, NEW id \in VehIds PROVE NodeOf(d, id) \in Nodes
  <2>1. PICK D \in SUBSET VehIds : d.vehs \in [D -> Nodes]
    BY DEF Docs, NodeMaps
  <2> QED
    BY <1>1, <1>2, <2>1 DEF NodeOf, Unset
<1>4. \A a, b \in Nodes : MergedNode(a, b) \in Nodes
  BY DEF MergedNode, Updated, Nodes
<1> QED
  BY <1>2, <1>3, <1>4

(* A document keeps its type when one vehicle gets a node.                 *)
LEMMA WithNodeType ==
  ASSUME NEW d \in Docs, NEW id \in VehIds, NEW node \in Nodes
  PROVE  /\ WithNode(d, id, node) \in Docs
         /\ WithNode(d, id, node).insts = d.insts
         /\ WithNode(d, id, node).vehs =
              [i \in DOMAIN d.vehs \cup {id} |-> IF i = id THEN node ELSE d.vehs[i]]
<1>1. PICK D \in SUBSET VehIds : d.vehs \in [D -> Nodes]
  BY DEF Docs, NodeMaps
<1> DEFINE m == [i \in D \cup {id} |-> IF i = id THEN node ELSE d.vehs[i]]
<1>2. m \in [D \cup {id} -> Nodes] /\ D \cup {id} \in SUBSET VehIds
  BY <1>1
<1>3. m \in NodeMaps
  BY <1>2 DEF NodeMaps
<1>4. WithNode(d, id, node) = [d EXCEPT !.vehs = m]
  BY <1>1 DEF WithNode
<1> HIDE DEF m
<1>5. WithNode(d, id, node) \in Docs /\ WithNode(d, id, node).insts = d.insts
  BY <1>3, <1>4 DEF Docs
<1>6. WithNode(d, id, node).vehs = m
  BY <1>4 DEF Docs
<1> QED
  BY <1>1, <1>5, <1>6 DEF m

(* A creation written in a document.                                       *)
LEMMA AddVehiculeType ==
  ASSUME NEW d \in Docs, NEW id \in VehIds, NEW t \in 0 .. Never
  PROVE  AddVehicule(d, id, t) \in Docs
BY NodeType, WithNodeType DEF AddVehicule

(* An entry or an exit written in a document.                              *)
LEMMA UpdatesType ==
  ASSUME NEW d \in Docs, NEW id \in VehIds, NEW t \in 0 .. Never
  PROVE  /\ UpdateInstEntreeVehicule(d, id, t) \in Docs
         /\ UpdateInstSortieVehicule(d, id, t) \in Docs
<1>1. NodeOf(d, id) \in Nodes
  BY NodeType
<1>2. [NodeOf(d, id) EXCEPT !.entered = t] \in Nodes /\ [NodeOf(d, id) EXCEPT !.left = t] \in Nodes
  BY <1>1 DEF Nodes
<1> QED
  BY <1>2, WithNodeType DEF UpdateInstEntreeVehicule, UpdateInstSortieVehicule

(* An instant written in a document.                                       *)
LEMMA AddInstantType ==
  ASSUME NEW d \in Docs, NEW t \in Instants
  PROVE  AddInstant(d, t) \in Docs
BY DEF AddInstant, Docs

(* Vehicles of a number or above removed from a document.                  *)
LEMMA RemoveType ==
  ASSUME NEW d \in Docs, NEW from \in Int
  PROVE  RemoveVehicules(d, from) \in Docs
<1>1. PICK D \in SUBSET VehIds : d.vehs \in [D -> Nodes]
  BY DEF Docs, NodeMaps
<1> DEFINE E == {j \in D : j < from}
           m == [i \in E |-> d.vehs[i]]
<1>2. m \in [E -> Nodes] /\ E \in SUBSET VehIds
  BY <1>1
<1>3. m \in NodeMaps
  BY <1>2 DEF NodeMaps
<1>4. RemoveVehicules(d, from) = [d EXCEPT !.vehs = m]
  BY <1>1 DEF RemoveVehicules
<1> HIDE DEF m
<1> QED
  BY <1>3, <1>4 DEF Docs

(* A document added to another.                                            *)
LEMMA AddType ==
  ASSUME NEW d \in Docs, NEW e \in Docs
  PROVE  Add(d, e) \in Docs
<1>1. PICK D \in SUBSET VehIds : d.vehs \in [D -> Nodes]
  BY DEF Docs, NodeMaps
<1>2. PICK E \in SUBSET VehIds : e.vehs \in [E -> Nodes]
  BY DEF Docs, NodeMaps
<1> DEFINE m == [i \in D \cup E |-> IF i \in D THEN MergedNode(d.vehs[i], NodeOf(e, i))
                                               ELSE e.vehs[i]]
<1>3. \A i \in D \cup E : m[i] \in Nodes
  BY <1>1, <1>2, NodeType
<1>4. m \in [D \cup E -> Nodes] /\ D \cup E \in SUBSET VehIds
  BY <1>3
<1>5. m \in NodeMaps
  BY <1>4 DEF NodeMaps
<1>6. Add(d, e) = [insts |-> d.insts \o e.insts, vehs |-> m]
  BY <1>1, <1>2 DEF Add
<1> HIDE DEF m
<1> QED
  BY <1>5, <1>6 DEF Docs

(***************************************************************************)
(* Folds over the snapshots.  Commit is the recursion one expects: nothing  *)
(* for no snapshot, and the last snapshot after those before it.            *)
(***************************************************************************)
(* A set of naturals has a least element: what the inductions below use.     *)
LEMMA SmallestOfSet ==
  ASSUME NEW S, S \subseteq Nat, S # {}
  PROVE  \E i \in S : \A j \in S : i <= j
<1> DEFINE R == {p \in Nat \X Nat : p[1] < p[2]}
<1>1. IsWellFoundedOn(R, Nat)
  BY NatLessThanWellFounded DEF OpToRel
<1> HIDE DEF R
<1>2. PICK i \in S : \A j \in S : <<j, i>> \notin R
  BY <1>1, WFMin
<1>3. ASSUME NEW j \in S PROVE i <= j
  <2>1. <<j, i>> \in R <=> j < i
    BY DEF R
  <2> QED BY <1>2, <2>1
<1> QED BY <1>3

(* A set of naturals with 0 and every successor is the whole of Nat.         *)
LEMMA EveryNatural ==
  ASSUME NEW S \in SUBSET Nat, 0 \in S, \A n \in S : n + 1 \in S
  PROVE  S = Nat
<1> SUFFICES ASSUME Nat \ S # {} PROVE FALSE
  OBVIOUS
<1>1. PICK i \in Nat \ S : \A j \in Nat \ S : i <= j
  BY SmallestOfSet
<1>2. i # 0 /\ i - 1 \in Nat /\ i - 1 \notin Nat \ S
  BY <1>1
<1> QED
  BY <1>1, <1>2

(* The greatest of a set of naturals up to n + 1 that holds n + 1.         *)
LEMMA MaxOfPrefix ==
  ASSUME NEW n \in Nat, NEW s \in SUBSET (1 .. n + 1), n + 1 \in s
  PROVE  Max(s) = n + 1
<1>1. \A y \in s : n + 1 >= y
  OBVIOUS
<1>2. ASSUME NEW x \in s, \A y \in s : x >= y PROVE x = n + 1
  BY <1>1, <1>2
<1> QED
  BY <1>1, <1>2 DEF Max

(* The function that FoldLeft(Validated, files, list) evaluates: by set of   *)
(* positions of the list.                                                    *)
Folded(it, files, list) ==
  it = [s \in SUBSET DOMAIN list |->
          IF s = {} THEN files ELSE Validated(it[s \ {Max(s)}], list[Max(s)])]

(* The fold of Commit, as the function it chooses.                         *)
LEMMA CommitDef ==
  ASSUME NEW files, NEW list
  PROVE  Commit(files, list) = (CHOOSE it : Folded(it, files, list))[DOMAIN list]
BY DEF Commit, FoldLeft, MapThenFoldSet, Folded

(* The function of the fold exists.                                        *)
LEMMA FoldedExists ==
  ASSUME NEW files, NEW list, NEW n \in Nat, DOMAIN list = 1 .. n
  PROVE  \E it : Folded(it, files, list)
<1> DEFINE Upto(it, k) ==
      it = [s \in SUBSET (1 .. k) |->
              IF s = {} THEN files ELSE Validated(it[s \ {Max(s)}], list[Max(s)])]
    N == {k \in Nat : \E it : Upto(it, k)}
<1>1. 0 \in N
  <2> DEFINE it == [s \in SUBSET (1 .. 0) |-> files]
  <2>1. \A s \in SUBSET (1 .. 0) : s = {}
    OBVIOUS
  <2>2. it = [s \in SUBSET (1 .. 0) |->
              IF s = {} THEN files ELSE Validated(it[s \ {Max(s)}], list[Max(s)])]
    BY <2>1
  <2> QED
    BY <2>2
<1>2. ASSUME NEW k \in N PROVE k + 1 \in N
  <2>1. PICK f : Upto(f, k)
    OBVIOUS
  <2> DEFINE g == [s \in SUBSET (1 .. k + 1) |->
                IF k + 1 \in s THEN Validated(f[s \ {k + 1}], list[k + 1]) ELSE f[s]]
  <2>2. \A s \in SUBSET (1 .. k + 1) : k + 1 \notin s => s \in SUBSET (1 .. k)
    OBVIOUS
  <2>3. \A s \in SUBSET (1 .. k) : g[s] = f[s]
    OBVIOUS
  <2>4. ASSUME NEW s \in SUBSET (1 .. k + 1)
        PROVE  g[s] = IF s = {} THEN files ELSE Validated(g[s \ {Max(s)}], list[Max(s)])
    <3>1. CASE k + 1 \in s
      <4>1. Max(s) = k + 1
        BY <3>1, MaxOfPrefix
      <4>2. s \ {k + 1} \in SUBSET (1 .. k) /\ s # {}
        BY <3>1
      <4>3. g[s] = Validated(f[s \ {k + 1}], list[k + 1])
        BY <3>1
      <4>4. g[s \ {k + 1}] = f[s \ {k + 1}]
        BY <2>3, <4>2
      <4> HIDE DEF g
      <4> QED
        BY <4>1, <4>2, <4>3, <4>4
    <3>2. CASE k + 1 \notin s
      <4>1. s \in SUBSET (1 .. k) /\ s \ {Max(s)} \in SUBSET (1 .. k)
        <5>1. s \in SUBSET (1 .. k)
          BY <2>2, <3>2
        <5> QED
          BY <5>1
      <4>2. g[s] = f[s] /\ g[s \ {Max(s)}] = f[s \ {Max(s)}]
        BY <2>3, <4>1
      <4>3. f[s] = IF s = {} THEN files ELSE Validated(f[s \ {Max(s)}], list[Max(s)])
        BY <2>1, <4>1
      <4> HIDE DEF g
      <4> QED
        BY <4>2, <4>3
    <3> QED
      BY <3>1, <3>2
  <2>5. g = [s \in SUBSET (1 .. k + 1) |-> g[s]]
    OBVIOUS
  <2> HIDE DEF g
  <2>6. Upto(g, k + 1)
    BY <2>4, <2>5
  <2>7. k + 1 \in Nat
    OBVIOUS
  <2> HIDE DEF Upto
  <2> QED
    BY <2>6, <2>7
<1> HIDE DEF N
<1>3. N = Nat
  <2>1. N \in SUBSET Nat
    BY DEF N
  <2> QED
    BY <1>1, <1>2, <2>1, EveryNatural
<1> QED
  BY <1>3 DEF N, Folded

Commits(it, files, list, n) ==
  /\ Commit(files, list) = it[1 .. n]
  /\ \A s \in SUBSET (1 .. n) : it[s] =
       IF s = {} THEN files ELSE Validated(it[s \ {Max(s)}], list[Max(s)])

(* That function, one step after the other.                                *)
LEMMA FoldedFunction ==
  ASSUME NEW files, NEW list, NEW n \in Nat, DOMAIN list = 1 .. n
  PROVE  \E it : Commits(it, files, list, n)
<1> DEFINE it == CHOOSE it : Folded(it, files, list)
<1>1. Folded(it, files, list)
  BY FoldedExists
<1>2. Commit(files, list) = it[1 .. n]
  BY CommitDef
<1> HIDE DEF it
<1>3. Commits(it, files, list, n)
  BY <1>1, <1>2 DEF Folded, Commits
<1> QED
  BY <1>3

(* No snapshot commits nothing.                                            *)
LEMMA CommitNone == ASSUME NEW files PROVE Commit(files, <<>>) = files
<1>1. DOMAIN <<>> = 1 .. 0
  OBVIOUS
<1>2. PICK it : Commits(it, files, <<>>, 0)
  BY <1>1, FoldedFunction, 0 \in Nat
<1>3. Commit(files, <<>>) = it[1 .. 0] /\ it[{}] = files
  BY <1>2 DEF Commits
<1>4. 1 .. 0 = {}
  OBVIOUS
<1> QED
  BY <1>3, <1>4

(* One more snapshot is committed after the others.                        *)
LEMMA CommitOneMore ==
  ASSUME NEW S, NEW files, NEW list \in Seq(S), NEW n \in Nat, n < Len(list)
  PROVE  Commit(files, SubSeq(list, 1, n + 1)) =
           Validated(Commit(files, SubSeq(list, 1, n)), list[n + 1])
<1> DEFINE a == SubSeq(list, 1, n)
           b == SubSeq(list, 1, n + 1)
<1>1. /\ DOMAIN a = 1 .. n /\ \A i \in 1 .. n : a[i] = list[i]
      /\ DOMAIN b = 1 .. n + 1 /\ \A i \in 1 .. n + 1 : b[i] = list[i]
  OBVIOUS
<1> HIDE DEF a, b
<1>2a. PICK f : Commits(f, files, a, n)
  BY <1>1, FoldedFunction
<1>3a. PICK g : Commits(g, files, b, n + 1)
  BY <1>1, FoldedFunction, n + 1 \in Nat
<1>2. /\ Commit(files, a) = f[1 .. n]
      /\ \A s \in SUBSET (1 .. n) : f[s] =
           IF s = {} THEN files ELSE Validated(f[s \ {Max(s)}], a[Max(s)])
  BY <1>2a DEF Commits
<1>3. /\ Commit(files, b) = g[1 .. n + 1]
      /\ \A s \in SUBSET (1 .. n + 1) : g[s] =
           IF s = {} THEN files ELSE Validated(g[s \ {Max(s)}], b[Max(s)])
  BY <1>3a DEF Commits
<1> DEFINE N == {k \in Nat : k <= n => \A s \in SUBSET (1 .. k) : f[s] = g[s]}
<1>4. 0 \in N
  <2>1. \A s \in SUBSET (1 .. 0) : s = {}
    OBVIOUS
  <2>2. f[{}] = files /\ g[{}] = files
    BY <1>2, <1>3
  <2> QED
    BY <2>1, <2>2
<1>5. ASSUME NEW k \in N PROVE k + 1 \in N
  <2> SUFFICES ASSUME k + 1 <= n, NEW s \in SUBSET (1 .. k + 1)
               PROVE  f[s] = g[s]
    OBVIOUS
  <2>1. CASE k + 1 \notin s
    <3>1. s \in SUBSET (1 .. k)
      BY <2>1
    <3> QED
      BY <3>1
  <2>2. CASE k + 1 \in s
    <3>1. Max(s) = k + 1
      BY <2>2, MaxOfPrefix
    <3>2. s # {} /\ s \in SUBSET (1 .. n) /\ s \in SUBSET (1 .. n + 1)
      BY <2>2
    <3>3. f[s \ {k + 1}] = g[s \ {k + 1}]
      <4>1. s \ {k + 1} \in SUBSET (1 .. k)
        OBVIOUS
      <4> QED
        BY <4>1
    <3>4. a[k + 1] = b[k + 1]
      BY <1>1
    <3> HIDE DEF N
    <3> QED
      BY <1>2, <1>3, <3>1, <3>2, <3>3, <3>4
  <2> QED
    BY <2>1, <2>2
<1>6. n \in N
  <2> HIDE DEF N
  <2>1. N \in SUBSET Nat
    BY DEF N
  <2> QED
    BY <1>4, <1>5, <2>1, EveryNatural
<1>7. f[1 .. n] = g[1 .. n]
  BY <1>6
<1>8. g[1 .. n + 1] = Validated(g[1 .. n], b[n + 1])
  <2> HIDE DEF N
  <2>0. n + 1 \in 1 .. n + 1
    OBVIOUS
  <2>1. 1 .. n + 1 \in SUBSET (1 .. n + 1) /\ n + 1 \in 1 .. n + 1 /\ 1 .. n + 1 # {}
    BY <2>0, Zenon
  <2>2. Max(1 .. n + 1) = n + 1
    BY <2>1, MaxOfPrefix
  <2>3. (1 .. n + 1) \ {n + 1} = 1 .. n
    OBVIOUS
  <2> QED
    BY <1>3, <2>1, <2>2, <2>3
<1>9. b[n + 1] = list[n + 1]
  BY <1>1
<1> HIDE DEF N
<1>10. Commit(files, b) = Validated(Commit(files, a), list[n + 1])
  BY <1>2, <1>3, <1>7, <1>8, <1>9
<1> QED
  BY <1>10 DEF a, b

(* Files keep their types when a snapshot is validated.                    *)
LEMMA ValidatedType ==
  ASSUME NEW files \in Files, NEW snapshot \in Snaps
  PROVE  Validated(files, snapshot) \in Files
<1>1. files.doc \in Docs /\ files.rows \in Seq(Instants)
  BY DEF Files
<1>2. snapshot.doc \in Docs /\ snapshot.rows \in Seq(Instants)
  BY DEF Snaps
<1>3. Converged(files.rows, snapshot) \in Seq(Instants)
  BY <1>1, <1>2 DEF Converged
<1> QED
  BY <1>1, <1>2, <1>3, AddType DEF Validated, Files

(* Files keep their types when the first snapshots are committed.          *)
LEMMA CommitPrefixType ==
  ASSUME NEW files \in Files, NEW list \in Seq(Snaps), NEW n \in 0 .. Len(list)
  PROVE  Commit(files, SubSeq(list, 1, n)) \in Files
<1> DEFINE N == {k \in Nat : k <= Len(list) => Commit(files, SubSeq(list, 1, k)) \in Files}
<1>1. 0 \in N
  <2>1. SubSeq(list, 1, 0) = <<>>
    BY SubSeqEmpty
  <2> QED
    BY <2>1, CommitNone
<1>2. ASSUME NEW k \in N PROVE k + 1 \in N
  <2> SUFFICES ASSUME k + 1 <= Len(list)
               PROVE  Commit(files, SubSeq(list, 1, k + 1)) \in Files
    OBVIOUS
  <2>1. Commit(files, SubSeq(list, 1, k)) \in Files /\ list[k + 1] \in Snaps
    OBVIOUS
  <2>2. Commit(files, SubSeq(list, 1, k + 1)) =
          Validated(Commit(files, SubSeq(list, 1, k)), list[k + 1])
    BY CommitOneMore
  <2> QED
    BY <2>1, <2>2, ValidatedType
<1> HIDE DEF N
<1>3. N \in SUBSET Nat
  BY DEF N
<1>4. N = Nat
  BY <1>1, <1>2, <1>3, EveryNatural
<1> QED
  BY <1>4 DEF N

(* Files keep their types when all the snapshots are committed.            *)
LEMMA CommitType ==
  ASSUME NEW files \in Files, NEW list \in Seq(Snaps)
  PROVE  Commit(files, list) \in Files
<1>1. SubSeq(list, 1, Len(list)) = list /\ Len(list) \in 0 .. Len(list)
  BY SubSeqFull
<1> QED
  BY <1>1, CommitPrefixType

(***************************************************************************)
(* The vehicles.  One lemma says what each part of a step keeps.            *)
(***************************************************************************)
Sound(n) == n \in Nets /\ Numbered(n) /\ n.fleet = Owned(n)

(* The elements of a queue, with one more or without the first.            *)
LEMMA ToSetFacts ==
  ASSUME NEW S, NEW s \in Seq(S), NEW e \in S
  PROVE  /\ ToSet(s) \subseteq S
         /\ ToSet(Append(s, e)) = ToSet(s) \cup {e}
         /\ s # <<>> => /\ Head(s) = s[1] /\ Head(s) \in ToSet(s)
                        /\ ToSet(s) = {Head(s)} \cup ToSet(Tail(s))
         /\ ToSet(<<>>) = {}
<1>1. ToSet(s) \subseteq S /\ ToSet(<<>>) = {}
  BY DEF ToSet
<1>2. ToSet(Append(s, e)) = ToSet(s) \cup {e}
  <2>1. /\ DOMAIN Append(s, e) = DOMAIN s \cup {Len(s) + 1}
        /\ Append(s, e)[Len(s) + 1] = e
        /\ \A i \in DOMAIN s : Append(s, e)[i] = s[i] /\ i # Len(s) + 1
    OBVIOUS
  <2> QED
    BY <2>1, Zenon DEF ToSet
<1>3. ASSUME s # <<>>
      PROVE  /\ Head(s) = s[1] /\ Head(s) \in ToSet(s)
             /\ ToSet(s) = {Head(s)} \cup ToSet(Tail(s))
  <2>1. /\ Head(s) = s[1] /\ 1 \in DOMAIN s
        /\ \A i \in DOMAIN Tail(s) : i + 1 \in DOMAIN s /\ Tail(s)[i] = s[i + 1]
        /\ \A i \in DOMAIN s : i = 1 \/ (i - 1 \in DOMAIN Tail(s) /\ s[i] = Tail(s)[i - 1])
    BY <1>3, HeadTailProperties
  <2>2. Head(s) \in ToSet(s)
    BY <2>1 DEF ToSet
  <2>3. ToSet(Tail(s)) \subseteq ToSet(s)
    BY <2>1 DEF ToSet
  <2>4. ASSUME NEW i \in DOMAIN s PROVE s[i] \in {Head(s)} \cup ToSet(Tail(s))
    BY <2>1 DEF ToSet
  <2>5. ToSet(s) \subseteq {Head(s)} \cup ToSet(Tail(s))
    BY <2>4 DEF ToSet
  <2> QED
    BY <2>1, <2>2, <2>3, <2>5
<1> QED
  BY <1>1, <1>2, <1>3

Network(inst, lastId, vehs, ready, waiting, lastOut, fleet) ==
  [inst |-> inst, lastId |-> lastId, vehs |-> vehs, ready |-> ready,
   waiting |-> waiting, lastOut |-> lastOut, fleet |-> fleet]

(* A network built from its parts.                                         *)
LEMMA NetworkType ==
  ASSUME NEW inst \in 0 .. LastStep, NEW lastId \in 0 .. MaxVehicles,
         NEW vehs \in SUBSET Objects, NEW ready \in Int, NEW waiting \in Seq(Objects),
         NEW lastOut \in 0 .. LastStep, NEW fleet \in SUBSET Objects
  PROVE  Network(inst, lastId, vehs, ready, waiting, lastOut, fleet) \in Nets
BY DEF Network, Nets

(* The parts of a network.                                                 *)
LEMMA NetFields ==
  ASSUME NEW n \in Nets
  PROVE  /\ n.inst \in 0 .. LastStep /\ n.lastId \in 0 .. MaxVehicles
         /\ n.vehs \in SUBSET Objects /\ n.ready \in Int /\ n.waiting \in Seq(Objects)
         /\ n.lastOut \in 0 .. LastStep /\ n.fleet \in SUBSET Objects
BY DEF Nets

(* A vehicle that is created carries the next number.                      *)
LEMMA FreshVehicle ==
  ASSUME copies \in 0 .. MaxRollbacks, NEW n \in Nets, n.lastId < MaxVehicles,
         NEW kind \in {"car", "bus"}
  PROVE  /\ Vehicle(n.lastId, kind) \in Objects
         /\ Vehicle(n.lastId, kind).id = n.lastId
BY SnapshotAssumption DEF Vehicle, Objects, Nets

(* A creation keeps the fleets and the network in accord.                  *)
LEMMA GenerateSound ==
  ASSUME copies \in 0 .. MaxRollbacks, NEW w, Sound(w.net), w.net.lastId < MaxVehicles
  PROVE  Sound(GenerateVehicle(w).net)
<1> DEFINE n == w.net
           v == Vehicle(n.lastId, "car")
           r == GenerateVehicle(w).net
<1>1. n \in Nets /\ Numbered(n) /\ n.fleet = Owned(n)
  BY DEF Sound
<1>2. v \in Objects /\ v.id = n.lastId
  BY <1>1, FreshVehicle
<1>3. \/ r = Network(n.inst, n.lastId + 1, n.vehs, n.ready, Append(n.waiting, v), n.lastOut,
                     n.fleet \cup {v})
      \/ r = Network(n.inst, n.lastId + 1, n.vehs \cup {v}, v.id, n.waiting, n.lastOut,
                     n.fleet \cup {v})
  BY <1>1 DEF GenerateVehicle, World, Network, Nets
<1> SUFFICES Sound(r)
  BY DEF r
<1> HIDE DEF v, n, r
<1>4. n.lastId + 1 \in 0 .. MaxVehicles /\ n.waiting \in Seq(Objects) /\ n.vehs \subseteq Objects
  BY <1>1, NetFields, SnapshotAssumption DEF n
<1>5. \A u \in Owned(n) : u.id # v.id /\ u.id \in Int /\ u.id < n.lastId
  BY <1>1, <1>2 DEF Numbered, Nets, Owned, Objects
<1>6. ToSet(Append(n.waiting, v)) = ToSet(n.waiting) \cup {v}
  BY <1>2, <1>4, ToSetFacts
<1>7. r \in Nets
  <2>1. /\ n.inst \in 0 .. LastStep /\ n.ready \in Int /\ n.lastOut \in 0 .. LastStep
        /\ n.vehs \in SUBSET Objects /\ n.vehs \cup {v} \in SUBSET Objects
        /\ n.fleet \cup {v} \in SUBSET Objects /\ Append(n.waiting, v) \in Seq(Objects)
        /\ v.id \in Int
    BY <1>1, <1>2, <1>4, NetFields DEF Nets
  <2>2. Network(n.inst, n.lastId + 1, n.vehs, n.ready, Append(n.waiting, v), n.lastOut,
                n.fleet \cup {v}) \in Nets
    BY <1>4, <2>1, NetworkType
  <2>3. Network(n.inst, n.lastId + 1, n.vehs \cup {v}, v.id, n.waiting, n.lastOut,
                n.fleet \cup {v}) \in Nets
    BY <1>4, <2>1, NetworkType
  <2> QED
    BY <1>3, <2>2, <2>3
<1> USE <1>1, <1>2, <1>4, <1>5, <1>6, <1>7
<1>8. CASE r = Network(n.inst, n.lastId + 1, n.vehs, n.ready, Append(n.waiting, v), n.lastOut,
                     n.fleet \cup {v})
  <2>1. /\ r.waiting = Append(n.waiting, v) /\ r.vehs = n.vehs /\ r.ready = n.ready
        /\ r.lastId = n.lastId + 1 /\ r.fleet = n.fleet \cup {v}
    BY <1>8 DEF Network
  <2>2. Owned(r) = Owned(n) \cup {v}
    BY <2>1 DEF Owned
  <2>3. \A i, j \in DOMAIN r.waiting : r.waiting[i] = r.waiting[j] => i = j
    <3>1. \A i \in DOMAIN n.waiting : n.waiting[i] # v
      BY DEF Owned, ToSet
    <3> QED
      BY <2>1, <3>1 DEF Numbered
  <2>4. /\ \A u \in Owned(r) : u.id < r.lastId
        /\ \A u, x \in Owned(r) : u.id = x.id => u = x
    BY <2>1, <2>2, NetFields DEF Numbered
  <2>5. r.vehs \cap ToSet(r.waiting) = {} /\ r.ready \in {None} \cup Ids(r.vehs)
    BY <2>1 DEF Owned, Numbered
  <2>n. Numbered(r)
    BY <2>1, <2>2, <2>3, <2>4, <2>5 DEF Numbered
  <2> QED
    BY <2>1, <2>2, <2>3, <2>4, <2>5, <2>n DEF Sound
<1>9. CASE r = Network(n.inst, n.lastId + 1, n.vehs \cup {v}, v.id, n.waiting, n.lastOut,
                     n.fleet \cup {v})
  <2>1. /\ r.waiting = n.waiting /\ r.vehs = n.vehs \cup {v} /\ r.ready = v.id
        /\ r.lastId = n.lastId + 1 /\ r.fleet = n.fleet \cup {v}
    BY <1>9 DEF Network
  <2>2. Owned(r) = Owned(n) \cup {v}
    BY <2>1 DEF Owned
  <2>4. /\ \A u \in Owned(r) : u.id < r.lastId
        /\ \A u, x \in Owned(r) : u.id = x.id => u = x
    BY <2>1, <2>2, NetFields DEF Numbered
  <2>5. r.vehs \cap ToSet(r.waiting) = {} /\ r.ready \in {None} \cup Ids(r.vehs)
    BY <2>1 DEF Owned, Numbered, Ids
  <2>n. Numbered(r)
    BY <2>1, <2>2, <2>4, <2>5 DEF Numbered
  <2> QED
    BY <2>1, <2>2, <2>4, <2>5, <2>n DEF Sound
<1> QED
  BY <1>3, <1>8, <1>9

(* A bus that starts keeps the fleets and the network in accord.           *)
LEMMA ActivateSound ==
  ASSUME copies \in 0 .. MaxRollbacks, NEW w, Sound(w.net), w.net.lastId < MaxVehicles
  PROVE  Sound(ActivateBus(w).net)
<1> DEFINE n == w.net
           v == Vehicle(n.lastId, "bus")
           r == ActivateBus(w).net
<1>1. n \in Nets /\ Numbered(n) /\ n.fleet = Owned(n)
  BY DEF Sound
<1>2. v \in Objects /\ v.id = n.lastId
  BY <1>1, FreshVehicle
<1>3. r = Network(n.inst, n.lastId + 1, n.vehs \cup {v}, n.ready, n.waiting, n.lastOut,
                  n.fleet \cup {v})
  BY <1>1 DEF ActivateBus, World, Network, Nets
<1> SUFFICES Sound(r)
  BY DEF r
<1> HIDE DEF v, n, r
<1>4. n.lastId + 1 \in 0 .. MaxVehicles
  BY <1>1, NetFields, SnapshotAssumption DEF n
<1>5. \A u \in Owned(n) : u.id # v.id /\ u.id \in Int /\ u.id < n.lastId
  BY <1>1, <1>2 DEF Numbered, Nets, Owned, Objects
<1>6. r \in Nets
  BY <1>1, <1>2, <1>3, <1>4, NetworkType, NetFields, SnapshotAssumption
<1>7. /\ r.waiting = n.waiting /\ r.vehs = n.vehs \cup {v} /\ r.ready = n.ready
      /\ r.lastId = n.lastId + 1 /\ r.fleet = n.fleet \cup {v}
  BY <1>3 DEF Network
<1>8. Owned(r) = Owned(n) \cup {v}
  BY <1>7 DEF Owned
<1>9. /\ \A u \in Owned(r) : u.id < r.lastId
      /\ \A u, x \in Owned(r) : u.id = x.id => u = x
  BY <1>1, <1>2, <1>5, <1>7, <1>8, NetFields DEF Numbered
<1>10. r.vehs \cap ToSet(r.waiting) = {} /\ r.ready \in {None} \cup Ids(r.vehs)
  BY <1>1, <1>2, <1>5, <1>7 DEF Owned, Numbered, Ids
<1>n. Numbered(r)
  BY <1>1, <1>6, <1>7, <1>8, <1>9, <1>10 DEF Numbered
<1> QED
  BY <1>1, <1>6, <1>7, <1>8, <1>9, <1>10, <1>n DEF Sound

(* The vehicle that was ready enters a sound network.                      *)
LEMMA EnteredSound ==
  ASSUME NEW w, Sound(w.net)
  PROVE  Sound(ReadyEntered(w).net)
<1> DEFINE n == w.net
           r == ReadyEntered(w).net
<1>1. n \in Nets /\ Numbered(n) /\ n.fleet = Owned(n)
  BY DEF Sound
<1>2. r = Network(n.inst, n.lastId, n.vehs, None, n.waiting, n.inst, n.fleet)
  BY <1>1 DEF ReadyEntered, World, Network, Nets
<1> SUFFICES Sound(r)
  BY DEF r
<1> HIDE DEF n, r
<1>3. r \in Nets
  BY <1>1, <1>2, NetworkType, NetFields DEF None
<1>4. /\ r.waiting = n.waiting /\ r.vehs = n.vehs /\ r.ready = None
      /\ r.lastId = n.lastId /\ r.fleet = n.fleet
  BY <1>2 DEF Network
<1>5. Owned(r) = Owned(n)
  BY <1>4 DEF Owned
<1>n. Numbered(r)
  BY <1>1, <1>3, <1>4, <1>5 DEF Numbered
<1> QED
  BY <1>1, <1>3, <1>4, <1>5, <1>n DEF Sound

(* The first of a queue enters a sound network.                            *)
LEMMA InsertedSound ==
  ASSUME NEW w, Sound(w.net), w.net.waiting # <<>>
  PROVE  Sound(FirstInserted(w).net)
<1> DEFINE n == w.net
           v == Head(n.waiting)
           r == FirstInserted(w).net
<1>1. n \in Nets /\ Numbered(n) /\ n.fleet = Owned(n)
  BY DEF Sound
<1>2. r = Network(n.inst, n.lastId, n.vehs \cup {v}, n.ready, Tail(n.waiting), n.inst, n.fleet)
  BY <1>1 DEF FirstInserted, World, Network, Nets
<1>3. n.waiting \in Seq(Objects) /\ n.waiting # <<>>
  BY <1>1, NetFields
<1> SUFFICES Sound(r)
  BY DEF r
<1> HIDE DEF n, r
<1>4. v \in Objects /\ Tail(n.waiting) \in Seq(Objects) /\ 1 \in DOMAIN n.waiting
      /\ v = n.waiting[1]
      /\ \A i \in DOMAIN Tail(n.waiting) :
            i \in 1 .. Len(n.waiting) /\ i + 1 \in DOMAIN n.waiting
            /\ Tail(n.waiting)[i] = n.waiting[i + 1]
  BY <1>3, HeadTailProperties
<1>5. v \in ToSet(n.waiting) /\ ToSet(n.waiting) = {v} \cup ToSet(Tail(n.waiting))
  BY <1>3, <1>4, ToSetFacts
<1>6. v \notin ToSet(Tail(n.waiting))
  <2>1. ASSUME NEW i \in DOMAIN Tail(n.waiting), v = Tail(n.waiting)[i] PROVE FALSE
    <3>1. n.waiting[1] = n.waiting[i + 1]
      BY <1>4, <2>1
    <3>2. 1 = i + 1
      BY <1>1, <1>4, <3>1 DEF Numbered
    <3> QED
      BY <1>4, <2>1, <3>2
  <2> QED
    BY <2>1 DEF ToSet
<1>7. ASSUME NEW i \in DOMAIN Tail(n.waiting), NEW j \in DOMAIN Tail(n.waiting),
             Tail(n.waiting)[i] = Tail(n.waiting)[j]
      PROVE  i = j
  <2>1. i + 1 = j + 1
    BY <1>1, <1>4, <1>7 DEF Numbered
  <2> QED
    BY <1>4, <2>1
<1> HIDE DEF v
<1>8. r \in Nets
  BY <1>1, <1>2, <1>4, NetworkType, NetFields
<1>9. /\ r.waiting = Tail(n.waiting) /\ r.vehs = n.vehs \cup {v} /\ r.ready = n.ready
      /\ r.lastId = n.lastId /\ r.fleet = n.fleet
  BY <1>2 DEF Network
<1>10. Owned(r) = Owned(n)
  BY <1>5, <1>9 DEF Owned
<1>11. r.vehs \cap ToSet(r.waiting) = {} /\ r.ready \in {None} \cup Ids(r.vehs)
  BY <1>1, <1>5, <1>6, <1>9 DEF Numbered, Ids
<1>n. Numbered(r)
  BY <1>1, <1>7, <1>8, <1>9, <1>10, <1>11 DEF Numbered
<1> QED
  BY <1>1, <1>7, <1>8, <1>9, <1>10, <1>11, <1>n DEF Sound

(* A vehicle leaves a sound network.                                       *)
LEMMA LeftSound ==
  ASSUME NEW w, Sound(w.net), NEW v \in w.net.vehs, v.id # w.net.ready
  PROVE  Sound(Left(w, v).net)
<1> DEFINE n == w.net
           r == Left(w, v).net
<1>1. n \in Nets /\ Numbered(n) /\ n.fleet = Owned(n)
  BY DEF Sound
<1>2. r = Network(n.inst, n.lastId, n.vehs \ {v}, n.ready, n.waiting, n.lastOut, n.fleet \ {v})
  BY <1>1 DEF Left, World, Network, Nets
<1>3. v \in n.vehs /\ v.id # n.ready
  OBVIOUS
<1> SUFFICES Sound(r)
  BY DEF r
<1> HIDE DEF n, r
<1>4. r \in Nets
  BY <1>1, <1>2, NetworkType, NetFields
<1>5. /\ r.waiting = n.waiting /\ r.vehs = n.vehs \ {v} /\ r.ready = n.ready
      /\ r.lastId = n.lastId /\ r.fleet = n.fleet \ {v}
  BY <1>2 DEF Network
<1>6. Owned(r) = Owned(n) \ {v}
  BY <1>1, <1>3, <1>5 DEF Owned, Numbered
<1>7. r.vehs \cap ToSet(r.waiting) = {} /\ r.ready \in {None} \cup Ids(r.vehs)
  BY <1>1, <1>3, <1>5 DEF Numbered, Ids
<1>n. Numbered(r)
  BY <1>1, <1>4, <1>5, <1>6, <1>7 DEF Numbered
<1> QED
  BY <1>1, <1>4, <1>5, <1>6, <1>7, <1>n DEF Sound

(* What is saved of a network is sound, and a rollback brings it back.       *)
LEMMA BackupSound ==
  ASSUME NEW n, Sound(n)
  PROVE  /\ Backup(n) \in Backups
         /\ Numbered(Backup(n))
         /\ Backup(n).fleet = Ids(Owned(Backup(n)))
         /\ Owned(Backup(n)) = Owned(n) /\ Backup(n).lastId = n.lastId
<1> DEFINE s == Backup(n)
<1>1. n \in Nets /\ Numbered(n) /\ n.fleet = Owned(n)
  BY DEF Sound
<1>2. /\ s.inst = n.inst /\ s.lastId = n.lastId /\ s.vehs = n.vehs /\ s.ready = n.ready
      /\ s.waiting = n.waiting /\ s.fleet = Ids(n.fleet)
  BY DEF Backup
<1>3. Ids(n.fleet) \in SUBSET VehIds
  BY <1>1, NetFields DEF Ids, Objects, VehIds
<1>4. s \in Backups
  BY <1>1, <1>3, NetFields DEF Backup, Backups
<1> HIDE DEF s
<1>5. Owned(s) = Owned(n)
  BY <1>2 DEF Owned
<1>6. Numbered(s)
  BY <1>1, <1>2, <1>5 DEF Numbered
<1> QED
  BY <1>1, <1>2, <1>4, <1>5, <1>6 DEF s

(* The copy of a vehicle has its number.                                   *)
LEMMA CopiedFacts ==
  ASSUME copies \in 0 .. MaxRollbacks, NEW v \in Objects
  PROVE  Copied(v) \in Objects /\ Copied(v).id = v.id
<1>1. NextCopy \in 0 .. MaxRollbacks
  BY SnapshotAssumption DEF NextCopy
<1> QED
  BY <1>1 DEF Copied, Objects

(* The parts of a saved state.                                             *)
LEMMA BackupFields ==
  ASSUME NEW s \in Backups
  PROVE  /\ s.inst \in 0 .. LastStep /\ s.lastId \in 0 .. MaxVehicles
         /\ s.vehs \in SUBSET Objects /\ s.ready \in Int /\ s.waiting \in Seq(Objects)
         /\ s.fleet \in SUBSET VehIds
BY DEF Backups

(* A network restored from a saved state is sound.                         *)
LEMMA RestoredSound ==
  ASSUME copies \in 0 .. MaxRollbacks, NEW n \in Nets, NEW s \in Backups,
         Numbered(s), s.fleet = Ids(Owned(s))
  PROVE  /\ Sound(Restored(n, s)) 
         /\ Restored(n, s).lastId = s.lastId
<1> DEFINE here    == {Copied(v) : v \in s.vehs}
           waiting == [i \in DOMAIN s.waiting |-> Copied(s.waiting[i])]
           fleet   == {Found(id, here, waiting) : id \in s.fleet}
           all     == here \cup ToSet(waiting)
           r       == Restored(n, s)
<1>1. /\ s.inst \in 0 .. LastStep /\ s.lastId \in 0 .. MaxVehicles
      /\ s.vehs \in SUBSET Objects /\ s.ready \in Int /\ s.waiting \in Seq(Objects)
  BY BackupFields
<1>2. \A v \in Objects : Copied(v) \in Objects /\ Copied(v).id = v.id
  BY CopiedFacts
<1>3. here \in SUBSET Objects
  BY <1>1, <1>2
<1>4. waiting \in Seq(Objects) /\ DOMAIN waiting = DOMAIN s.waiting
  BY <1>1, <1>2
<1>5. all = {Copied(v) : v \in Owned(s)}
  <2>1. ToSet(waiting) = {Copied(v) : v \in ToSet(s.waiting)}
    BY DEF ToSet
  <2> HIDE DEF waiting
  <2> QED
    BY <2>1 DEF Owned
<1>6. Owned(s) \subseteq Objects
  BY <1>1 DEF Owned, ToSet
<1>7. \A v, w \in all : v.id = w.id => v = w
  BY <1>2, <1>5, <1>6 DEF Numbered
<1>8. /\ \A id \in s.fleet : \E v \in all : v.id = id
      /\ \A v \in all : v.id \in s.fleet
  <2> HIDE DEF all
  <2>1. \A v \in Owned(s) : Copied(v) \in all /\ Copied(v).id = v.id /\ v.id \in s.fleet
    BY <1>2, <1>5, <1>6 DEF Ids
  <2>2. \A id \in s.fleet : \E v \in Owned(s) : v.id = id
    BY DEF Ids
  <2>3. \A v \in all : \E u \in Owned(s) : v = Copied(u)
    BY <1>5
  <2> QED
    BY <2>1, <2>2, <2>3
<1>9. fleet = all
  <2> HIDE DEF all
  <2>1. ASSUME NEW id \in s.fleet, NEW v \in all, v.id = id
        PROVE  Found(id, here, waiting) = v
    <3> DEFINE known == {u \in all : u.id = id}
    <3>1. known = {v}
      BY <1>7, <2>1
    <3>2. Found(id, here, waiting) = IF known = {} THEN Nobody ELSE CHOOSE u \in known : TRUE
      BY DEF Found, all
    <3> HIDE DEF known
    <3> QED
      BY <3>1, <3>2
  <2> HIDE DEF here, waiting
  <2>2. fleet \subseteq all
    BY <1>8, <2>1
  <2>3. all \subseteq fleet
    BY <1>8, <2>1
  <2> QED
    BY <2>2, <2>3
<1>10. r = Network(s.inst, s.lastId, here, s.ready, waiting, n.lastOut, fleet)
  <2>1. r = [n EXCEPT !.inst = s.inst, !.lastId = s.lastId, !.vehs = here, !.ready = s.ready,
                      !.waiting = waiting, !.fleet = fleet]
    BY DEF Restored
  <2> HIDE DEF here, waiting, fleet
  <2> QED
    BY <2>1 DEF Network, Nets
<1>11. ToSet(waiting) \subseteq Objects
  BY <1>4 DEF ToSet
<1>12. \A i, j \in DOMAIN waiting : waiting[i] = waiting[j] => i = j
  <2>1. ASSUME NEW i \in DOMAIN waiting, NEW j \in DOMAIN waiting, waiting[i] = waiting[j]
        PROVE  i = j
    <3>1. /\ s.waiting[i] \in Owned(s) /\ s.waiting[j] \in Owned(s)
          /\ s.waiting[i] \in Objects /\ s.waiting[j] \in Objects
      BY <1>1, <1>4, <2>1 DEF Owned, ToSet
    <3>2. s.waiting[i].id = s.waiting[j].id
      BY <1>2, <1>4, <2>1, <3>1
    <3>3. s.waiting[i] = s.waiting[j]
      BY <3>1, <3>2 DEF Numbered
    <3> QED
      BY <1>4, <3>3 DEF Numbered
  <2> QED
    BY <2>1
<1>13. here \cap ToSet(waiting) = {}
  <2>1. ASSUME NEW x \in here, NEW i \in DOMAIN waiting, x = waiting[i]
        PROVE  FALSE
    <3>1. PICK v \in s.vehs : x = Copied(v)
      OBVIOUS
    <3>2. v \in Owned(s) /\ s.waiting[i] \in Owned(s) /\ s.waiting[i] \in ToSet(s.waiting)
      BY <1>4, <2>1 DEF Owned, ToSet
    <3>3. v.id = s.waiting[i].id
      BY <1>2, <1>6, <2>1, <3>1, <3>2
    <3> QED
      BY <3>2, <3>3 DEF Numbered
  <2> QED
    BY <2>1 DEF ToSet
<1>14. s.ready \in {None} \cup Ids(here)
  BY <1>1, <1>2 DEF Numbered, Ids
<1>15. \A v \in all : v.id < s.lastId
  BY <1>2, <1>5, <1>6 DEF Numbered
<1> SUFFICES Sound(r) /\ r.lastId = s.lastId
  BY DEF r
<1> HIDE DEF here, waiting, fleet, r
<1>16. /\ r.waiting = waiting /\ r.vehs = here /\ r.ready = s.ready
       /\ r.lastId = s.lastId /\ r.fleet = fleet
  BY <1>10 DEF Network
<1>17. Owned(r) = all
  BY <1>16 DEF Owned
<1> HIDE DEF all
<1>18. r \in Nets
  <2>1. fleet \in SUBSET Objects
    BY <1>3, <1>9, <1>11 DEF all
  <2> QED
    BY <1>1, <1>3, <1>4, <1>10, <2>1, NetworkType, NetFields
<1>19. Numbered(r)
  BY <1>7, <1>12, <1>13, <1>14, <1>15, <1>16, <1>17 DEF Numbered
<1> QED
  BY <1>9, <1>16, <1>17, <1>18, <1>19 DEF Sound

(***************************************************************************)
(* FinSimuTrafic: the vehicles written one by one as never having left.     *)
(***************************************************************************)
Pick(s) == CHOOSE x \in s : TRUE

LeavesBy(it, doc, s) ==
  IF s = {} THEN doc
  ELSE UpdateInstSortieVehicule(it[s \ {Pick(s)}], Pick(s).id, Never)

NeverLeft(doc, vehs) ==
  FoldSet(LAMBDA v, d : UpdateInstSortieVehicule(d, v.id, Never), doc, vehs)

(* The marks of those who never left, as a recursive function.             *)
LEMMA NeverLeftDef ==
  ASSUME NEW doc, NEW vehs
  PROVE  NeverLeft(doc, vehs) =
           (CHOOSE it : it = [s \in SUBSET vehs |-> LeavesBy(it, doc, s)])[vehs]
BY DEF NeverLeft, FoldSet, MapThenFoldSet, LeavesBy, Pick

Leaving(it, doc, vehs) == /\ NeverLeft(doc, vehs) = it[vehs]
                          /\ \A s \in SUBSET vehs : it[s] = LeavesBy(it, doc, s)

(* That function exists for every finite set of vehicles.                  *)
LEMMA NeverLeftFunction ==
  ASSUME NEW doc, NEW vehs, IsFiniteSet(vehs)
  PROVE  \E it : Leaving(it, doc, vehs)
<1> DEFINE Sized(k) == {s \in SUBSET vehs : Cardinality(s) <= k}
           Upto(it, k) == \A s \in Sized(k) : it[s] = LeavesBy(it, doc, s)
           N == {k \in Nat : \E it : Upto(it, k)}
<1>1. \A s \in SUBSET vehs : IsFiniteSet(s) /\ Cardinality(s) \in Nat
  BY FS_Subset, FS_CardinalityType
<1>2. ASSUME NEW s \in SUBSET vehs, s # {}
      PROVE  /\ s \ {Pick(s)} \in SUBSET vehs
             /\ Cardinality(s \ {Pick(s)}) = Cardinality(s) - 1
  <2>1. Pick(s) \in s
    BY <1>2 DEF Pick
  <2> QED
    BY <1>1, <2>1, FS_RemoveElement
<1>3. 0 \in N
  <2> DEFINE it == [s \in SUBSET vehs |-> doc]
  <2>1. \A s \in Sized(0) : s = {}
    BY <1>1, FS_EmptySet
  <2>2. Upto(it, 0)
    BY <2>1 DEF LeavesBy
  <2> HIDE DEF Upto, it
  <2> QED
    BY <2>2
<1>4. ASSUME NEW k \in N PROVE k + 1 \in N
  <2>1. PICK f : Upto(f, k)
    OBVIOUS
  <2> DEFINE g == [s \in Sized(k + 1) |-> LeavesBy(f, doc, s)]
  <2>2. ASSUME NEW s \in Sized(k + 1) PROVE g[s] = LeavesBy(g, doc, s)
    <3>1. CASE s = {}
      BY <3>1 DEF LeavesBy
    <3>2. CASE s # {}
      <4> DEFINE r == s \ {Pick(s)}
      <4>1. r \in Sized(k) /\ r \in Sized(k + 1)
        BY <1>1, <1>2, <3>2
      <4>2. f[r] = LeavesBy(f, doc, r)
        BY <2>1, <4>1
      <4>3. g[r] = LeavesBy(f, doc, r)
        BY <4>1
      <4>4. g[s] = LeavesBy(f, doc, s)
        OBVIOUS
      <4> HIDE DEF g
      <4> QED
        BY <3>2, <4>2, <4>3, <4>4 DEF LeavesBy
    <3> QED
      BY <3>1, <3>2
  <2> HIDE DEF g
  <2>3. Upto(g, k + 1)
    BY <2>2
  <2>4. k + 1 \in Nat
    OBVIOUS
  <2> HIDE DEF Upto
  <2> QED
    BY <2>3, <2>4
<1>5. Cardinality(vehs) \in N
  <2> HIDE DEF N
  <2>1. N \in SUBSET Nat
    BY DEF N
  <2>2. N = Nat
    BY <1>3, <1>4, <2>1, EveryNatural
  <2> QED
    BY <2>2, FS_CardinalityType
<1>6. PICK f : Upto(f, Cardinality(vehs))
  BY <1>5
<1>7. \A s \in SUBSET vehs : s \in Sized(Cardinality(vehs))
  BY FS_Subset
<1> DEFINE h == [s \in SUBSET vehs |-> f[s]]
<1>8. h = [s \in SUBSET vehs |-> LeavesBy(h, doc, s)]
  <2>1. ASSUME NEW s \in SUBSET vehs PROVE h[s] = LeavesBy(h, doc, s)
    <3>1. f[s] = LeavesBy(f, doc, s)
      BY <1>6, <1>7
    <3>2. s # {} => h[s \ {Pick(s)}] = f[s \ {Pick(s)}]
      BY <1>2
    <3>3. h[s] = f[s]
      OBVIOUS
    <3> HIDE DEF h
    <3> QED
      BY <3>1, <3>2, <3>3 DEF LeavesBy
  <2>2. h = [s \in SUBSET vehs |-> h[s]]
    OBVIOUS
  <2> HIDE DEF h
  <2> QED
    BY <2>1, <2>2
<1> DEFINE it == CHOOSE it : it = [s \in SUBSET vehs |-> LeavesBy(it, doc, s)]
<1>9. it = [s \in SUBSET vehs |-> LeavesBy(it, doc, s)]
  <2> HIDE DEF h
  <2> QED
    BY <1>8
<1>10. NeverLeft(doc, vehs) = it[vehs]
  BY NeverLeftDef
<1> HIDE DEF it
<1>11. Leaving(it, doc, vehs)
  BY <1>9, <1>10 DEF Leaving
<1> QED
  BY <1>11

(* Whatever the order, each of the vehicles gets the mark, and nothing else   *)
(* changes.                                                                  *)
Marked(d, r, S) ==
  /\ r \in Docs /\ r.insts = d.insts
  /\ DOMAIN r.vehs = DOMAIN d.vehs \cup S
  /\ \A id \in DOMAIN r.vehs :
       r.vehs[id] = IF id \in S THEN [NodeOf(d, id) EXCEPT !.left = Never] ELSE d.vehs[id]

(* One more vehicle is marked.                                             *)
LEMMA MarkOneMore ==
  ASSUME NEW d \in Docs, NEW S \in SUBSET VehIds, NEW r, Marked(d, r, S), NEW id \in VehIds
  PROVE  Marked(d, UpdateInstSortieVehicule(r, id, Never), S \cup {id})
<1> DEFINE q == UpdateInstSortieVehicule(r, id, Never)
           node == [NodeOf(r, id) EXCEPT !.left = Never]
<1>1. r \in Docs /\ Never \in 0 .. Never
  BY SnapshotAssumption DEF Marked, Never
<1>2. NodeOf(r, id) \in Nodes /\ NodeOf(d, id) \in Nodes
  BY <1>1, NodeType
<1>3. node \in Nodes
  BY <1>1, <1>2 DEF Nodes
<1>4. node = [NodeOf(d, id) EXCEPT !.left = Never]
  <2>1. CASE id \in S
    <3>1. NodeOf(r, id) = [NodeOf(d, id) EXCEPT !.left = Never]
      BY <2>1 DEF Marked, NodeOf
    <3> QED
      BY <1>2, <3>1 DEF Nodes
  <2>2. CASE id \notin S
    <3>1. NodeOf(r, id) = NodeOf(d, id)
      BY <2>2 DEF Marked, NodeOf
    <3> QED
      BY <3>1
  <2> QED
    BY <2>1, <2>2
<1> HIDE DEF node
<1>5. /\ q \in Docs /\ q.insts = r.insts
      /\ q.vehs = [i \in DOMAIN r.vehs \cup {id} |-> IF i = id THEN node ELSE r.vehs[i]]
  BY <1>1, <1>3, WithNodeType DEF UpdateInstSortieVehicule, node
<1> HIDE DEF q
<1>6. Marked(d, q, S \cup {id})
  <2>1. q \in Docs /\ q.insts = d.insts /\ DOMAIN q.vehs = DOMAIN d.vehs \cup (S \cup {id})
    BY <1>5 DEF Marked
  <2>2. ASSUME NEW i \in DOMAIN q.vehs
        PROVE  q.vehs[i] = IF i \in S \cup {id} THEN [NodeOf(d, i) EXCEPT !.left = Never]
                                                ELSE d.vehs[i]
    <3>1. CASE i = id
      BY <1>4, <1>5, <3>1
    <3>2. CASE i # id
      <4>1. q.vehs[i] = r.vehs[i] /\ i \in DOMAIN r.vehs
        BY <1>5, <3>2
      <4> QED
        BY <3>2, <4>1 DEF Marked
    <3> QED
      BY <3>1, <3>2
  <2> QED
    BY <2>1, <2>2 DEF Marked
<1> QED
  BY <1>6 DEF q

(* Nobody is marked.                                                       *)
LEMMA MarkNone == ASSUME NEW d \in Docs PROVE Marked(d, d, {})
BY DEF Marked

(* At the end every vehicle still present is marked, no other is.          *)
LEMMA NeverLeftMarks ==
  ASSUME NEW d \in Docs, NEW vehs \in SUBSET Objects, IsFiniteSet(vehs)
  PROVE  Marked(d, NeverLeft(d, vehs), Ids(vehs))
<1>0. PICK it : Leaving(it, d, vehs)
  BY NeverLeftFunction
<1>1. /\ NeverLeft(d, vehs) = it[vehs]
      /\ \A s \in SUBSET vehs : it[s] = LeavesBy(it, d, s)
  BY <1>0 DEF Leaving
<1> DEFINE N == {k \in Nat : \A s \in SUBSET vehs : Cardinality(s) <= k => Marked(d, it[s], Ids(s))}
<1>2. \A s \in SUBSET vehs : IsFiniteSet(s) /\ Cardinality(s) \in Nat
  BY FS_Subset, FS_CardinalityType
<1>3. ASSUME NEW s \in SUBSET vehs, s = {} PROVE Marked(d, it[s], Ids(s))
  <2>1. it[s] = d /\ Ids(s) = {}
    BY <1>1, <1>3 DEF LeavesBy, Ids
  <2> QED
    BY <2>1, MarkNone
<1>4. 0 \in N
  <2>1. \A s \in SUBSET vehs : Cardinality(s) <= 0 => s = {}
    BY <1>2, FS_EmptySet
  <2> QED
    BY <1>3, <2>1
<1>5. ASSUME NEW k \in N PROVE k + 1 \in N
  <2>1. ASSUME NEW s \in SUBSET vehs, Cardinality(s) <= k + 1, s # {}
        PROVE  Marked(d, it[s], Ids(s))
    <3> DEFINE x == Pick(s)
               r == s \ {x}
    <3>1. x \in s
      BY <2>1 DEF Pick
    <3> HIDE DEF x
    <3>2. Cardinality(r) = Cardinality(s) - 1
      BY <1>2, <3>1, FS_RemoveElement
    <3>3. r \in SUBSET vehs /\ Cardinality(r) <= k
      BY <1>2, <2>1, <3>2
    <3>4. Marked(d, it[r], Ids(r))
      BY <3>3
    <3>5. it[s] = UpdateInstSortieVehicule(it[r], x.id, Never)
      BY <1>1, <2>1 DEF LeavesBy, x
    <3>6. Ids(s) = Ids(r) \cup {x.id}
      BY <3>1 DEF Ids
    <3>7. x.id \in VehIds /\ Ids(r) \in SUBSET VehIds
      BY <3>1 DEF Ids, Objects, VehIds
    <3>8. Marked(d, UpdateInstSortieVehicule(it[r], x.id, Never), Ids(r) \cup {x.id})
      <4> DEFINE q == it[r]
                 S == Ids(r)
                 id == x.id
      <4>1. Marked(d, q, S) /\ S \in SUBSET VehIds /\ id \in VehIds
        BY <3>4, <3>7
      <4> HIDE DEF q, S, id
      <4>2. Marked(d, UpdateInstSortieVehicule(q, id, Never), S \cup {id})
        BY <4>1, MarkOneMore
      <4> QED
        BY <4>2 DEF q, S, id
    <3> QED
      BY <3>5, <3>6, <3>8
  <2>2. k + 1 \in Nat
    OBVIOUS
  <2> QED
    BY <1>3, <2>1, <2>2
<1> HIDE DEF N
<1>6. N \in SUBSET Nat
  BY DEF N
<1>7. Cardinality(vehs) \in N
  <2>1. N = Nat
    BY <1>4, <1>5, <1>6, EveryNatural
  <2> QED
    BY <1>2, <2>1
<1>8. Marked(d, it[vehs], Ids(vehs))
  BY <1>2, <1>7 DEF N
<1> QED
  BY <1>1, <1>8

(* The vehicles of a network are finitely many: their ids tell them apart.   *)
LEMMA FinitelyMany ==
  ASSUME NEW n \in Nets, Numbered(n)
  PROVE  IsFiniteSet(n.vehs)
<1> DEFINE f == [v \in n.vehs |-> v.id]
<1>1. n.vehs \in SUBSET Objects
  BY NetFields
<1>2. f \in Injection(n.vehs, VehIds)
  BY <1>1 DEF Numbered, Owned, Objects, VehIds, Injection, IsInjective
<1>3. IsFiniteSet(VehIds)
  BY FS_Interval, SnapshotAssumption DEF VehIds
<1> QED
  BY <1>2, <1>3, FS_Injection

(***************************************************************************)
(* The life of a vehicle in the documents.                                 *)
(***************************************************************************)
(* What the documents say of a vehicle is not ahead of the network: it has    *)
(* not left while it is there, nor entered while it waits or is ready.       *)
Life(n, d) ==
  /\ \A id \in DOMAIN d.vehs : id < n.lastId
  /\ \A v \in Owned(n) : NodeOf(d, v.id).left = Unset
  /\ \A v \in ToSet(n.waiting) : NodeOf(d, v.id).entered = Unset
  /\ n.ready # None => NodeOf(d, n.ready).entered = Unset

(* An attribute written in one document is not written again in the next.    *)
Compatible(d, e) == \A id \in DOMAIN e.vehs :
  /\ NodeOf(d, id).entered = Unset \/ e.vehs[id].entered = Unset
  /\ NodeOf(d, id).left = Unset \/ e.vehs[id].left = Unset

(* The node of a vehicle after one was written.                            *)
LEMMA NodeOfWith ==
  ASSUME NEW d \in Docs, NEW id \in VehIds, NEW node \in Nodes
  PROVE  \A j : NodeOf(WithNode(d, id, node), j) = IF j = id THEN node ELSE NodeOf(d, j)
<1> DEFINE e == WithNode(d, id, node)
<1>1. e.vehs = [i \in DOMAIN d.vehs \cup {id} |-> IF i = id THEN node ELSE d.vehs[i]]
  BY WithNodeType
<1> HIDE DEF e
<1>2. \A j : NodeOf(e, j) = IF j = id THEN node ELSE NodeOf(d, j)
  BY <1>1 DEF NodeOf
<1> QED
  BY <1>2 DEF e

(* The parts of a document.                                                *)
LEMMA DocFields ==
  ASSUME NEW d \in Docs
  PROVE  /\ d.insts \in Seq(Instants) /\ DOMAIN d.vehs \in SUBSET VehIds
         /\ \A id \in DOMAIN d.vehs : d.vehs[id] \in Nodes
         /\ d = [insts |-> d.insts, vehs |-> d.vehs]
         /\ d.vehs = [id \in DOMAIN d.vehs |-> d.vehs[id]]
<1>1. PICK D \in SUBSET VehIds : d.vehs \in [D -> Nodes]
  BY DEF Docs, NodeMaps
<1>2. d.insts \in Seq(Instants) /\ d = [insts |-> d.insts, vehs |-> d.vehs]
  BY DEF Docs
<1> QED
  BY <1>1, <1>2

(* The parts of the sum of two documents.                                  *)
LEMMA AddFields ==
  ASSUME NEW b \in Docs, NEW d \in Docs
  PROVE  /\ Add(b, d).insts = b.insts \o d.insts
         /\ DOMAIN Add(b, d).vehs = DOMAIN b.vehs \cup DOMAIN d.vehs
         /\ \A j \in DOMAIN Add(b, d).vehs : Add(b, d).vehs[j] =
              IF j \in DOMAIN b.vehs THEN MergedNode(b.vehs[j], NodeOf(d, j)) ELSE d.vehs[j]
BY DEF Add

(* Documents are equal when their instants and their nodes are.              *)
LEMMA DocEqual ==
  ASSUME NEW d \in Docs, NEW e \in Docs, d.insts = e.insts, DOMAIN d.vehs = DOMAIN e.vehs,
         \A id \in DOMAIN d.vehs : d.vehs[id] = e.vehs[id]
  PROVE  d = e
<1>1. d.vehs = e.vehs
  BY DocFields
<1> QED
  BY <1>1, DocFields

(* Writing in the open document writes in the whole.                         *)
LEMMA AddWith ==
  ASSUME NEW b \in Docs, NEW d \in Docs, NEW id \in VehIds, NEW node \in Nodes
  PROVE  Add(b, WithNode(d, id, node)) =
           WithNode(Add(b, d), id,
                    IF id \in DOMAIN b.vehs THEN MergedNode(b.vehs[id], node) ELSE node)
<1> DEFINE e == WithNode(d, id, node)
           m == IF id \in DOMAIN b.vehs THEN MergedNode(b.vehs[id], node) ELSE node
           x == Add(b, e)
           y == WithNode(Add(b, d), id, m)
<1>1. /\ e \in Docs /\ e.insts = d.insts
      /\ e.vehs = [i \in DOMAIN d.vehs \cup {id} |-> IF i = id THEN node ELSE d.vehs[i]]
  BY WithNodeType
<1>2. m \in Nodes /\ Add(b, d) \in Docs
  BY DocFields, NodeType, AddType
<1> HIDE DEF e
<1>f. e \in Docs
  BY <1>1
<1>a. /\ Add(b, e).insts = b.insts \o e.insts
      /\ DOMAIN Add(b, e).vehs = DOMAIN b.vehs \cup DOMAIN e.vehs
      /\ \A j \in DOMAIN Add(b, e).vehs : Add(b, e).vehs[j] =
           IF j \in DOMAIN b.vehs THEN MergedNode(b.vehs[j], NodeOf(e, j)) ELSE e.vehs[j]
  BY ZenonT(40), <1>f, AddFields
<1>b. /\ Add(b, d).insts = b.insts \o d.insts
      /\ DOMAIN Add(b, d).vehs = DOMAIN b.vehs \cup DOMAIN d.vehs
      /\ \A j \in DOMAIN Add(b, d).vehs : Add(b, d).vehs[j] =
           IF j \in DOMAIN b.vehs THEN MergedNode(b.vehs[j], NodeOf(d, j)) ELSE d.vehs[j]
  BY AddFields
<1>3. /\ y \in Docs /\ y.insts = Add(b, d).insts
      /\ y.vehs = [i \in DOMAIN Add(b, d).vehs \cup {id} |-> IF i = id THEN m ELSE Add(b, d).vehs[i]]
  <2> HIDE DEF m
  <2> QED
    BY <1>2, WithNodeType
<1>4. x \in Docs
  BY <1>1, AddType
<1>5. x.insts = b.insts \o d.insts /\ y.insts = b.insts \o d.insts
  BY <1>1, <1>3, <1>a, <1>b
<1>6. DOMAIN x.vehs = DOMAIN y.vehs
  <2>1. DOMAIN x.vehs = DOMAIN b.vehs \cup (DOMAIN d.vehs \cup {id})
    BY <1>1, <1>a
  <2>2. DOMAIN y.vehs = (DOMAIN b.vehs \cup DOMAIN d.vehs) \cup {id}
    <3> HIDE DEF y, m
    <3> QED
      BY <1>3, <1>b
  <2> QED
    BY <2>1, <2>2
<1>7. ASSUME NEW i \in DOMAIN x.vehs PROVE x.vehs[i] = y.vehs[i]
  <2>1. x.vehs[i] = IF i \in DOMAIN b.vehs THEN MergedNode(b.vehs[i], NodeOf(e, i)) ELSE e.vehs[i]
    BY <1>a
  <2>2. NodeOf(e, i) = IF i = id THEN node ELSE NodeOf(d, i)
    BY NodeOfWith DEF e
  <2>3. DOMAIN x.vehs = DOMAIN b.vehs \cup DOMAIN d.vehs \cup {id}
    BY <1>1, <1>a
  <2>4. CASE i = id
    <3>1. y.vehs[i] = m
      <4> HIDE DEF m, x, y
      <4> QED
        BY <1>3, <1>6, <2>4
    <3>2. i \notin DOMAIN b.vehs => e.vehs[i] = node
      BY <1>1, <2>4
    <3> HIDE DEF x, y
    <3> QED
      BY <2>1, <2>2, <2>4, <3>1, <3>2
  <2>5. CASE i # id
    <3>1. i \in DOMAIN Add(b, d).vehs
      BY <2>3, <2>5, <1>b
    <3>2. y.vehs[i] = Add(b, d).vehs[i]
      <4> HIDE DEF m, x, y
      <4> QED
        BY <1>3, <1>6, <2>5, <3>1
    <3>3. i \notin DOMAIN b.vehs => e.vehs[i] = d.vehs[i]
      BY <1>1, <2>3, <2>5
    <3>4. Add(b, d).vehs[i] = IF i \in DOMAIN b.vehs THEN MergedNode(b.vehs[i], NodeOf(d, i)) ELSE d.vehs[i]
      BY <3>1, <1>b
    <3> HIDE DEF x, y
    <3> QED
      BY <2>1, <2>2, <2>5, <3>2, <3>3, <3>4
  <2> QED
    BY <2>4, <2>5
<1> HIDE DEF x, y
<1>8. x = y
  <2>1. x.insts = y.insts /\ y \in Docs
    BY <1>3, <1>5
  <2> QED
    BY <1>4, <1>6, <1>7, <2>1, DocEqual
<1> QED
  BY <1>8 DEF x, y, m, e

(* To write after a sum is to write in the last document added.            *)
LEMMA AddWrites ==
  ASSUME NEW b \in Docs, NEW d \in Docs, NEW id \in VehIds, NEW t \in 1 .. Never
  PROVE  /\ Add(b, UpdateInstEntreeVehicule(d, id, t)) = UpdateInstEntreeVehicule(Add(b, d), id, t)
         /\ Add(b, UpdateInstSortieVehicule(d, id, t)) = UpdateInstSortieVehicule(Add(b, d), id, t)
         /\ id \notin DOMAIN b.vehs =>
              Add(b, AddVehicule(d, id, t)) = AddVehicule(Add(b, d), id, t)
<1>1. NodeOf(d, id) \in Nodes /\ Node(t) \in Nodes /\ t \in 0 .. Never /\ Never \in Nat
  BY NodeType, SnapshotAssumption DEF Never
<1>2. id \in DOMAIN b.vehs => b.vehs[id] \in Nodes
  BY DocFields
<1>3. NodeOf(Add(b, d), id) =
        IF id \in DOMAIN b.vehs THEN MergedNode(b.vehs[id], NodeOf(d, id)) ELSE NodeOf(d, id)
  <2>1. /\ DOMAIN Add(b, d).vehs = DOMAIN b.vehs \cup DOMAIN d.vehs
        /\ \A j \in DOMAIN Add(b, d).vehs : Add(b, d).vehs[j] =
             IF j \in DOMAIN b.vehs THEN MergedNode(b.vehs[j], NodeOf(d, j)) ELSE d.vehs[j]
    BY AddFields
  <2> QED
    BY <2>1 DEF NodeOf
<1> DEFINE n == NodeOf(d, id)
           e == [n EXCEPT !.entered = t]
           s == [n EXCEPT !.left = t]
<1>4. e \in Nodes /\ s \in Nodes
  BY <1>1 DEF Nodes
<1>5. ASSUME id \in DOMAIN b.vehs
      PROVE  /\ MergedNode(b.vehs[id], e) = [NodeOf(Add(b, d), id) EXCEPT !.entered = t]
             /\ MergedNode(b.vehs[id], s) = [NodeOf(Add(b, d), id) EXCEPT !.left = t]
  <2> HIDE DEF n
  <2>1. t # Unset /\ n \in Nodes /\ b.vehs[id] \in Nodes
    BY <1>1, <1>2, <1>5 DEF Unset, n
  <2>2. NodeOf(Add(b, d), id) = MergedNode(b.vehs[id], n)
    BY <1>3, <1>5 DEF n
  <2> QED
    BY <2>1, <2>2 DEF MergedNode, Updated, Nodes
<1> HIDE DEF n, e, s
<1>6. Add(b, UpdateInstEntreeVehicule(d, id, t)) = UpdateInstEntreeVehicule(Add(b, d), id, t)
  BY <1>3, <1>4, <1>5, AddWith DEF UpdateInstEntreeVehicule, e, n
<1>7. Add(b, UpdateInstSortieVehicule(d, id, t)) = UpdateInstSortieVehicule(Add(b, d), id, t)
  BY <1>3, <1>4, <1>5, AddWith DEF UpdateInstSortieVehicule, s, n
<1>8. id \notin DOMAIN b.vehs =>
         Add(b, AddVehicule(d, id, t)) = AddVehicule(Add(b, d), id, t)
  BY <1>1, AddWith DEF AddVehicule
<1> QED
  BY <1>6, <1>7, <1>8

(* Appending and concatenating commute.                                    *)
LEMMA ConcatAppend ==
  ASSUME NEW S, NEW s \in Seq(S), NEW t \in Seq(S), NEW e \in S
  PROVE  s \o Append(t, e) = Append(s \o t, e)
<1>1. <<e>> \in Seq(S) /\ s \o t \in Seq(S)
  OBVIOUS
<1> QED
  BY <1>1, AppendIsConcat, ConcatAssociative

(* An instant is written in the last document added.                       *)
LEMMA AddInstants ==
  ASSUME NEW b \in Docs, NEW d \in Docs, NEW t \in Instants
  PROVE  Add(b, AddInstant(d, t)) = AddInstant(Add(b, d), t)
<1>1. AddInstant(d, t) \in Docs /\ Add(b, d) \in Docs
  BY AddInstantType, AddType
<1>2. AddInstant(d, t).insts = Append(d.insts, t) /\ AddInstant(d, t).vehs = d.vehs
  BY DEF AddInstant, Docs
<1>0. b.insts \o Append(d.insts, t) = Append(b.insts \o d.insts, t)
  <2> DEFINE i == b.insts
             j == d.insts
  <2>1. i \in Seq(Instants) /\ j \in Seq(Instants)
    BY DocFields
  <2> HIDE DEF i, j
  <2>2. i \o Append(j, t) = Append(i \o j, t)
    BY <2>1, ConcatAppend
  <2> QED
    BY <2>2 DEF i, j
<1> DEFINE x == Add(b, AddInstant(d, t))
           y == AddInstant(Add(b, d), t)
<1>3. y.insts = Append(Add(b, d).insts, t) /\ y.vehs = Add(b, d).vehs
  BY <1>1 DEF AddInstant, Docs
<1>4. x \in Docs /\ y \in Docs
  BY <1>1, AddType, AddInstantType
<1>5. x.insts = y.insts
  <2>1. x.insts = b.insts \o Append(d.insts, t) /\ y.insts = Append(b.insts \o d.insts, t)
    <3>1. AddInstant(d, t) \in Docs
      BY <1>1
    <3>2. x.insts = b.insts \o AddInstant(d, t).insts /\ Add(b, d).insts = b.insts \o d.insts
      BY <3>1, AddFields
    <3> QED
      BY <1>2, <1>3, <3>2
  <2> QED
    BY <2>1, <1>0
<1>6. x.vehs = y.vehs
  BY <1>1, <1>2, <1>3 DEF Add, NodeOf
<1> HIDE DEF x, y
<1>7. x = y
  BY <1>4, <1>5, <1>6, DocFields
<1> QED
  BY <1>7 DEF x, y

(***************************************************************************)
(* What a step writes, only adds.                                          *)
(***************************************************************************)
Kept(a, b) == /\ a.created \in {Unset, b.created}
              /\ a.entered \in {Unset, b.entered}
              /\ a.left \in {Unset, b.left}

(* Prefixes, index by index.                                               *)
LEMMA PrefixIff ==
  ASSUME NEW S, NEW s \in Seq(S), NEW t \in Seq(S)
  PROVE  IsPrefix(s, t) <=> Len(s) <= Len(t) /\ \A i \in 1 .. Len(s) : s[i] = t[i]
<1> SUFFICES ASSUME Len(s) <= Len(t)
             PROVE  SubSeq(s, 1, Len(s)) = SubSeq(t, 1, Len(s)) <=>
                      \A i \in 1 .. Len(s) : s[i] = t[i]
  BY DEF IsPrefix
<1>1. SubSeq(s, 1, Len(s)) = s
  BY SubSeqFull
<1> DEFINE u == SubSeq(t, 1, Len(s))
<1>2. u \in Seq(S) /\ Len(u) = Len(s) /\ \A i \in 1 .. Len(s) : u[i] = t[i]
  OBVIOUS
<1> HIDE DEF u
<1>3. s = u <=> \A i \in 1 .. Len(s) : s[i] = t[i]
  BY <1>2, SeqEqual
<1> QED
  BY <1>1, <1>3 DEF u

(* Prefixes are reflexive and transitive.                                  *)
LEMMA PrefixFacts ==
  ASSUME NEW S, NEW s \in Seq(S), NEW t \in Seq(S), NEW u \in Seq(S)
  PROVE  /\ IsPrefix(s, s) /\ IsPrefix(s, s \o t)
         /\ IsPrefix(s, t) /\ IsPrefix(t, u) => IsPrefix(s, u)
<1>1. IsPrefix(s, s)
  BY PrefixIff
<1>2. IsPrefix(s, s \o t)
  <2>1. /\ s \o t \in Seq(S) /\ Len(s) <= Len(s \o t)
        /\ \A i \in 1 .. Len(s) : s[i] = (s \o t)[i]
    OBVIOUS
  <2> QED
    BY <2>1, PrefixIff
<1>3. ASSUME IsPrefix(s, t), IsPrefix(t, u) PROVE IsPrefix(s, u)
  <2>1. Len(s) <= Len(t) /\ \A i \in 1 .. Len(s) : s[i] = t[i]
    BY <1>3, PrefixIff
  <2>2. Len(t) <= Len(u) /\ \A i \in 1 .. Len(t) : t[i] = u[i]
    BY <1>3, PrefixIff
  <2>3. Len(s) <= Len(u) /\ \A i \in 1 .. Len(s) : s[i] = u[i]
    BY <2>1, <2>2
  <2> QED
    BY <2>3, PrefixIff
<1> QED
  BY <1>1, <1>2, <1>3

(* What it means for a document to grow.                                   *)
LEMMA GrowsIff ==
  ASSUME NEW d \in Docs, NEW e \in Docs
  PROVE  History!DocGrows(d, e) <=>
           /\ Len(d.insts) <= Len(e.insts)
           /\ \A i \in 1 .. Len(d.insts) : d.insts[i] = e.insts[i]
           /\ \A id \in DOMAIN d.vehs : id \in DOMAIN e.vehs /\ Kept(d.vehs[id], e.vehs[id])
<1>1. /\ d.insts \in Seq(Instants) /\ \A id \in DOMAIN d.vehs : d.vehs[id] \in Nodes
      /\ e.insts \in Seq(Instants) /\ \A id \in DOMAIN e.vehs : e.vehs[id] \in Nodes
  BY DocFields
<1>2. History!IsPrefix(d.insts, e.insts) <=> IsPrefix(d.insts, e.insts)
  BY DEF IsPrefix, History!IsPrefix
<1>3. \A a, b \in Nodes :
        (\A attribute \in DOMAIN a : a[attribute] \in {0, b[attribute]}) <=> Kept(a, b)
  BY DEF Kept, Nodes, Unset
<1> QED
  BY <1>1, <1>2, <1>3, PrefixIff DEF History!DocGrows

(* Growing is transitive.                                                  *)
LEMMA GrowsTransitive ==
  ASSUME NEW d \in Docs, NEW e \in Docs, NEW f \in Docs,
         History!DocGrows(d, e), History!DocGrows(e, f)
  PROVE  History!DocGrows(d, f)
<1>1. /\ d.insts \in Seq(Instants) /\ \A id \in DOMAIN d.vehs : d.vehs[id] \in Nodes
      /\ e.insts \in Seq(Instants) /\ \A id \in DOMAIN e.vehs : e.vehs[id] \in Nodes
      /\ f.insts \in Seq(Instants)
  BY DocFields
<1>2. \A i \in 1 .. Len(d.insts) : d.insts[i] = f.insts[i]
  BY <1>1, GrowsIff
<1>3. Len(d.insts) <= Len(f.insts)
  BY <1>1, GrowsIff
<1>4. ASSUME NEW id \in DOMAIN d.vehs
      PROVE  id \in DOMAIN f.vehs /\ Kept(d.vehs[id], f.vehs[id])
  <2>1. id \in DOMAIN e.vehs /\ Kept(d.vehs[id], e.vehs[id])
    BY GrowsIff
  <2>2. id \in DOMAIN f.vehs /\ Kept(e.vehs[id], f.vehs[id])
    BY <2>1, GrowsIff
  <2> QED
    BY <2>1, <2>2 DEF Kept
<1> QED
  BY <1>2, <1>3, <1>4, GrowsIff

(* Growing is reflexive.                                                   *)
LEMMA GrowsReflexive == ASSUME NEW d \in Docs PROVE History!DocGrows(d, d)
<1>1. d.insts \in Seq(Instants)
  BY DocFields
<1>2. \A id \in DOMAIN d.vehs : Kept(d.vehs[id], d.vehs[id])
  BY DEF Kept
<1> QED
  BY <1>1, <1>2, GrowsIff

(* A node that is new, or changed where nothing was written.                 *)
LEMMA WithGrows ==
  ASSUME NEW d \in Docs, NEW id \in VehIds, NEW node \in Nodes,
         id \in DOMAIN d.vehs => Kept(d.vehs[id], node)
  PROVE  History!DocGrows(d, WithNode(d, id, node))
<1> DEFINE e == WithNode(d, id, node)
<1>1. /\ e \in Docs /\ e.insts = d.insts
      /\ e.vehs = [i \in DOMAIN d.vehs \cup {id} |-> IF i = id THEN node ELSE d.vehs[i]]
  BY WithNodeType
<1> HIDE DEF e
<1>2. ASSUME NEW i \in DOMAIN d.vehs PROVE i \in DOMAIN e.vehs /\ Kept(d.vehs[i], e.vehs[i])
  <2>1. CASE i = id
    BY <1>1, <2>1
  <2>2. CASE i # id
    <3>1. i \in DOMAIN e.vehs /\ e.vehs[i] = d.vehs[i]
      BY <1>1, <2>2
    <3> QED
      BY <3>1 DEF Kept
  <2> QED
    BY <2>1, <2>2
<1>3. d.insts \in Seq(Instants)
  BY DocFields
<1>4. e \in Docs /\ Len(d.insts) <= Len(e.insts) /\ \A i \in 1 .. Len(d.insts) : d.insts[i] = e.insts[i]
  BY <1>1, <1>3
<1>5. History!DocGrows(d, e)
  <2>1. \A i \in DOMAIN d.vehs : i \in DOMAIN e.vehs /\ Kept(d.vehs[i], e.vehs[i])
    BY <1>2
  <2> QED
    BY <1>4, <2>1, GrowsIff
<1> QED
  BY <1>5 DEF e

(* A first writing of a vehicle makes a document grow.                     *)
LEMMA WritesGrow ==
  ASSUME NEW d \in Docs, NEW id \in VehIds, NEW t \in 1 .. Never
  PROVE  /\ NodeOf(d, id).entered = Unset => History!DocGrows(d, UpdateInstEntreeVehicule(d, id, t))
         /\ NodeOf(d, id).left = Unset => History!DocGrows(d, UpdateInstSortieVehicule(d, id, t))
         /\ id \notin DOMAIN d.vehs => History!DocGrows(d, AddVehicule(d, id, t))
<1>1. NodeOf(d, id) \in Nodes /\ Node(t) \in Nodes /\ t \in 0 .. Never /\ Never \in Nat
  BY NodeType, SnapshotAssumption DEF Never
<1> DEFINE n == NodeOf(d, id)
           e == [n EXCEPT !.entered = t]
           s == [n EXCEPT !.left = t]
<1>2. e \in Nodes /\ s \in Nodes
  BY <1>1 DEF Nodes
<1>3. id \in DOMAIN d.vehs => d.vehs[id] = n
  BY DEF NodeOf
<1>4. n.entered = Unset => Kept(n, e)
  BY <1>1 DEF Kept, Nodes
<1>5. n.left = Unset => Kept(n, s)
  BY <1>1 DEF Kept, Nodes
<1> HIDE DEF n, e, s
<1>6. n.entered = Unset => History!DocGrows(d, WithNode(d, id, e))
  BY <1>2, <1>3, <1>4, WithGrows
<1>7. n.left = Unset => History!DocGrows(d, WithNode(d, id, s))
  BY <1>2, <1>3, <1>5, WithGrows
<1>8. id \notin DOMAIN d.vehs => History!DocGrows(d, WithNode(d, id, Node(t)))
  BY <1>1, WithGrows
<1> QED
  BY <1>6, <1>7, <1>8 DEF UpdateInstEntreeVehicule, UpdateInstSortieVehicule, AddVehicule, n, e, s

(* An instant makes a document grow.                                       *)
LEMMA InstantGrows ==
  ASSUME NEW d \in Docs, NEW t \in Instants
  PROVE  History!DocGrows(d, AddInstant(d, t))
<1>1. AddInstant(d, t) \in Docs /\ d.insts \in Seq(Instants)
  BY AddInstantType, DocFields
<1>2. AddInstant(d, t).insts = Append(d.insts, t) /\ AddInstant(d, t).vehs = d.vehs
  BY DEF AddInstant, Docs
<1>3. /\ Len(d.insts) <= Len(Append(d.insts, t))
      /\ \A i \in 1 .. Len(d.insts) : d.insts[i] = Append(d.insts, t)[i]
  BY <1>1
<1>4. \A id \in DOMAIN d.vehs : Kept(d.vehs[id], d.vehs[id])
  BY DEF Kept
<1> QED
  BY <1>1, <1>2, <1>3, <1>4, GrowsIff

(* What the whole says of a vehicle when the open document does not.         *)
LEMMA NodeOfAdd ==
  ASSUME NEW b \in Docs, NEW d \in Docs
  PROVE  \A id : /\ NodeOf(Add(b, d), id) = IF id \in DOMAIN b.vehs
                                            THEN MergedNode(b.vehs[id], NodeOf(d, id))
                                            ELSE NodeOf(d, id)
                 /\ NodeOf(Add(b, d), id).entered = Unset =>
                      NodeOf(b, id).entered = Unset /\ NodeOf(d, id).entered = Unset
                 /\ NodeOf(Add(b, d), id).left = Unset =>
                      NodeOf(b, id).left = Unset /\ NodeOf(d, id).left = Unset
<1>1. /\ DOMAIN Add(b, d).vehs = DOMAIN b.vehs \cup DOMAIN d.vehs
      /\ \A j \in DOMAIN Add(b, d).vehs : Add(b, d).vehs[j] =
           IF j \in DOMAIN b.vehs THEN MergedNode(b.vehs[j], NodeOf(d, j)) ELSE d.vehs[j]
  BY AddFields
<1>2. ASSUME NEW id
      PROVE  NodeOf(Add(b, d), id) = IF id \in DOMAIN b.vehs
                                     THEN MergedNode(b.vehs[id], NodeOf(d, id))
                                     ELSE NodeOf(d, id)
  BY <1>1 DEF NodeOf
<1>3. ASSUME NEW id, id \in DOMAIN b.vehs
      PROVE  /\ NodeOf(Add(b, d), id).entered = Updated(NodeOf(b, id).entered, NodeOf(d, id).entered)
             /\ NodeOf(Add(b, d), id).left = Updated(NodeOf(b, id).left, NodeOf(d, id).left)
  <2>1. NodeOf(b, id) = b.vehs[id] /\ b.vehs[id] \in Nodes
    BY <1>3, DocFields DEF NodeOf
  <2> QED
    BY <1>2, <1>3, <2>1 DEF MergedNode, Nodes
<1>4. ASSUME NEW id, id \notin DOMAIN b.vehs
      PROVE  NodeOf(Add(b, d), id) = NodeOf(d, id) /\ NodeOf(b, id) = Node(Unset)
  BY <1>2, <1>4 DEF NodeOf
<1> QED
  BY <1>2, <1>3, <1>4 DEF Updated, Node


(***************************************************************************)
(* A step of the simulation.                                               *)
(***************************************************************************)
Valid(w) == Sound(w.net) /\ w.doc \in Docs

(* The numbers in a sound network.                                         *)
LEMMA SoundIds ==
  ASSUME NEW n, Sound(n)
  PROVE  /\ \A v \in Owned(n) : v \in Objects /\ v.id \in VehIds /\ v.id < n.lastId
         /\ n.ready # None => n.ready \in VehIds /\ \E v \in n.vehs : v.id = n.ready
         /\ n.inst \in 0 .. Never /\ n.lastId \in Nat
         /\ n.lastId # MaxVehicles => n.lastId \in VehIds /\ n.lastId < MaxVehicles
         /\ n.waiting # <<>> => Head(n.waiting) \in ToSet(n.waiting)
<1>1. n \in Nets /\ Numbered(n)
  BY DEF Sound
<1>2. /\ n.vehs \in SUBSET Objects /\ n.waiting \in Seq(Objects) /\ n.inst \in 0 .. LastStep
      /\ n.lastId \in 0 .. MaxVehicles
  BY <1>1, NetFields
<1>3. \A v \in Objects : v.id \in VehIds
  BY DEF Objects, VehIds
<1>4. Owned(n) \subseteq Objects
  BY <1>2 DEF Owned, ToSet
<1>5. LastStep \in Nat /\ MaxVehicles \in Nat
  BY SnapshotAssumption
<1>6. n.waiting # <<>> => Head(n.waiting) \in ToSet(n.waiting)
  <2> DEFINE s == n.waiting
  <2>1. s \in Seq(Objects)
    BY <1>2
  <2> HIDE DEF s
  <2>2. s # <<>> => Head(s) = s[1] /\ 1 \in DOMAIN s
    BY <2>1
  <2>3. s # <<>> => Head(s) \in ToSet(s)
    BY <2>2 DEF ToSet
  <2> QED
    BY <2>3 DEF s
<1>7. n.inst \in 0 .. Never
  BY <1>2, <1>5 DEF Never
<1>8. n.lastId # MaxVehicles => n.lastId \in VehIds /\ n.lastId < MaxVehicles
  BY <1>2, <1>5 DEF VehIds
<1>9. n.ready # None => n.ready \in VehIds /\ \E v \in n.vehs : v.id = n.ready
  BY <1>1, <1>2, <1>3 DEF Numbered, Ids
<1> QED
  BY <1>1, <1>2, <1>3, <1>4, <1>6, <1>7, <1>8, <1>9 DEF Numbered

(* What each event of a step writes in the document.                       *)
LEMMA Writings ==
  ASSUME NEW w, w.net \in Nets, NEW v
  PROVE  /\ GenerateVehicle(w).doc = AddVehicule(w.doc, w.net.lastId, w.net.inst)
         /\ ActivateBus(w).doc = AddVehicule(w.doc, w.net.lastId, w.net.inst)
         /\ ReadyEntered(w).doc = UpdateInstEntreeVehicule(w.doc, w.net.ready, w.net.inst)
         /\ FirstInserted(w).doc =
              UpdateInstEntreeVehicule(w.doc, Head(w.net.waiting).id, w.net.inst)
         /\ Left(w, v).doc = UpdateInstSortieVehicule(w.doc, v.id, w.net.inst)
         /\ GenerateVehicle(w).net.inst = w.net.inst
         /\ ActivateBus(w).net.inst = w.net.inst
         /\ ReadyEntered(w).net.inst = w.net.inst
         /\ FirstInserted(w).net.inst = w.net.inst
         /\ Left(w, v).net.inst = w.net.inst
<1>1. /\ GenerateVehicle(w).doc = AddVehicule(w.doc, w.net.lastId, w.net.inst)
      /\ GenerateVehicle(w).net.inst = w.net.inst
  BY DEF GenerateVehicle, World, Vehicle, Nets
<1>2. /\ ActivateBus(w).doc = AddVehicule(w.doc, w.net.lastId, w.net.inst)
      /\ ActivateBus(w).net.inst = w.net.inst
  BY DEF ActivateBus, World, Vehicle, Nets
<1>3. /\ ReadyEntered(w).doc = UpdateInstEntreeVehicule(w.doc, w.net.ready, w.net.inst)
      /\ ReadyEntered(w).net.inst = w.net.inst
  BY DEF ReadyEntered, World, Nets
<1>4. /\ FirstInserted(w).doc =
           UpdateInstEntreeVehicule(w.doc, Head(w.net.waiting).id, w.net.inst)
      /\ FirstInserted(w).net.inst = w.net.inst
  BY DEF FirstInserted, World, Nets
<1>5. /\ Left(w, v).doc = UpdateInstSortieVehicule(w.doc, v.id, w.net.inst)
      /\ Left(w, v).net.inst = w.net.inst
  BY DEF Left, World, Nets
<1> QED
  BY <1>1, <1>2, <1>3, <1>4, <1>5

(* A creation keeps the state of a step valid.                             *)
LEMMA CreatedValid ==
  ASSUME copies \in 0 .. MaxRollbacks, NEW w, Valid(w), NEW c \in Created(w)
  PROVE  Valid(c) /\ c.net.inst = w.net.inst
<1>1. Sound(w.net) /\ w.doc \in Docs /\ w.net \in Nets
  BY DEF Valid, Sound
<1>2. ASSUME w.net.lastId # MaxVehicles
      PROVE  /\ Valid(GenerateVehicle(w)) /\ Valid(ActivateBus(w))
             /\ GenerateVehicle(w).net.inst = w.net.inst
             /\ ActivateBus(w).net.inst = w.net.inst
  <2>1. w.net.lastId < MaxVehicles /\ w.net.lastId \in VehIds /\ w.net.inst \in 0 .. Never
    BY <1>1, <1>2, SoundIds
  <2>2. Sound(GenerateVehicle(w).net) /\ Sound(ActivateBus(w).net)
    BY <1>1, <2>1, GenerateSound, ActivateSound
  <2>3. AddVehicule(w.doc, w.net.lastId, w.net.inst) \in Docs
    BY <1>1, <2>1, AddVehiculeType
  <2> QED
    BY <1>1, <2>2, <2>3, Writings DEF Valid
<1>3. c = w \/ (w.net.lastId # MaxVehicles /\ c \in {GenerateVehicle(w), ActivateBus(w)})
  BY DEF Created
<1> QED
  BY <1>2, <1>3

(* The entry of the ready vehicle keeps it valid.                          *)
LEMMA EnteredValid ==
  ASSUME NEW w, Valid(w), w.net.ready # None
  PROVE  Valid(ReadyEntered(w)) /\ ReadyEntered(w).net.inst = w.net.inst
<1>1. Sound(w.net) /\ w.doc \in Docs /\ w.net \in Nets
  BY DEF Valid, Sound
<1>2. w.net.ready \in VehIds /\ w.net.inst \in 0 .. Never
  BY <1>1, SoundIds
<1>3. UpdateInstEntreeVehicule(w.doc, w.net.ready, w.net.inst) \in Docs
  BY <1>1, <1>2, UpdatesType
<1>4. Sound(ReadyEntered(w).net)
  BY <1>1, EnteredSound
<1> QED
  BY <1>1, <1>3, <1>4, Writings DEF Valid

(* The entry of the first of the queue keeps it valid.                     *)
LEMMA FirstValid ==
  ASSUME NEW w, Valid(w), w.net.waiting # <<>>
  PROVE  Valid(FirstInserted(w)) /\ FirstInserted(w).net.inst = w.net.inst
<1>1. Sound(w.net) /\ w.doc \in Docs /\ w.net \in Nets
  BY DEF Valid, Sound
<1>2. Head(w.net.waiting).id \in VehIds /\ w.net.inst \in 0 .. Never
  BY <1>1, SoundIds DEF Owned
<1>3. UpdateInstEntreeVehicule(w.doc, Head(w.net.waiting).id, w.net.inst) \in Docs
  BY <1>1, <1>2, UpdatesType
<1>4. Sound(FirstInserted(w).net)
  BY <1>1, InsertedSound
<1> QED
  BY <1>1, <1>3, <1>4, Writings DEF Valid

(* Who may enter in a step.                                                *)
LEMMA InsertedCases ==
  ASSUME NEW w, NEW e \in Inserted(w)
  PROVE  \/ e = w
         \/ w.net.ready # None /\ e = ReadyEntered(w)
         \/ w.net.ready = None /\ w.net.waiting # <<>> /\ e = FirstInserted(w)
         \/ /\ w.net.ready # None /\ ReadyEntered(w).net.waiting # <<>>
            /\ e = FirstInserted(ReadyEntered(w))
BY DEF Inserted

(* The entries of a step keep its state valid.                             *)
LEMMA InsertedValid ==
  ASSUME NEW w, Valid(w), NEW e \in Inserted(w)
  PROVE  Valid(e) /\ e.net.inst = w.net.inst
BY InsertedCases, EnteredValid, FirstValid

(* An exit keeps it valid.                                                 *)
LEMMA LeftValid ==
  ASSUME NEW w, Valid(w), NEW v \in w.net.vehs, v.id # w.net.ready
  PROVE  Valid(Left(w, v)) /\ Left(w, v).net.inst = w.net.inst
<1>1. Sound(w.net) /\ w.doc \in Docs /\ w.net \in Nets
  BY DEF Valid, Sound
<1>2. v.id \in VehIds /\ w.net.inst \in 0 .. Never
  BY <1>1, SoundIds DEF Owned
<1>3. UpdateInstSortieVehicule(w.doc, v.id, w.net.inst) \in Docs
  BY <1>1, <1>2, UpdatesType
<1>4. Sound(Left(w, v).net)
  BY <1>1, LeftSound
<1> QED
  BY <1>1, <1>3, <1>4, Writings DEF Valid

(* The exits of a step keep its state valid.                               *)
LEMMA DepartedValid ==
  ASSUME NEW w, Valid(w), NEW x \in Departed(w)
  PROVE  Valid(x) /\ x.net.inst = w.net.inst
<1>1. x = w \/ \E v \in w.net.vehs : v.id # w.net.ready /\ x = Left(w, v)
  BY DEF Departed
<1> QED
  BY <1>1, LeftValid

(***************************************************************************)
(* The operations on the network and its snapshots.                        *)
(***************************************************************************)
WorldInv == /\ Sound(net) /\ copies \in 0 .. MaxRollbacks
            /\ out \in Files /\ snapshots \in Seq(Snaps) /\ SavedInv

(* The parts of the output files.                                          *)
LEMMA FileFields ==
  ASSUME NEW f \in Files
  PROVE  f.doc \in Docs /\ f.rows \in Seq(Instants) /\ f = [doc |-> f.doc, rows |-> f.rows]
BY DEF Files

(* The parts of a snapshot of the list.                                    *)
LEMMA SnapFields ==
  ASSUME NEW list \in Seq(Snaps), NEW i \in DOMAIN list
  PROVE  /\ list[i] \in Snaps /\ list[i].saved \in Backups /\ list[i].doc \in Docs
         /\ list[i].rows \in Seq(Instants) /\ list[i].file \in Nat
<1>1. list[i] \in Snaps
  OBVIOUS
<1> QED
  BY <1>1 DEF Snaps

(* The document being written is the last one opened.                      *)
LEMMA CurrentDocType ==
  ASSUME out \in Files, snapshots \in Seq(Snaps)
  PROVE  /\ snapshots # <<>> => Len(snapshots) \in DOMAIN snapshots
         /\ CurrentDoc = IF snapshots = <<>> THEN out.doc ELSE snapshots[Len(snapshots)].doc
         /\ CurrentDoc \in Docs
<1>1. snapshots # <<>> => Len(snapshots) \in DOMAIN snapshots
  OBVIOUS
<1>2. CurrentDoc = IF snapshots = <<>> THEN out.doc ELSE snapshots[Len(snapshots)].doc
  BY DEF CurrentDoc, Last
<1>3. CASE snapshots = <<>>
  BY <1>1, <1>2, <1>3, FileFields
<1>4. CASE snapshots # <<>>
  <2>1. snapshots[Len(snapshots)].doc \in Docs
    BY <1>1, <1>4, SnapFields
  <2> QED
    BY <1>1, <1>2, <1>4, <2>1
<1> QED
  BY <1>3, <1>4

(* What a step writes goes to one document; the saved networks stay.         *)
LEMMA WrittenFields ==
  ASSUME out \in Files, snapshots \in Seq(Snaps), NEW d \in Docs, NEW rows \in Seq(Instants),
         Written(d, rows)
  PROVE  /\ out' \in Files /\ snapshots' \in Seq(Snaps)
         /\ Len(snapshots') = Len(snapshots) /\ DOMAIN snapshots' = DOMAIN snapshots
         /\ \A i \in DOMAIN snapshots : snapshots'[i].saved = snapshots[i].saved
         /\ \A i \in DOMAIN snapshots : snapshots'[i].doc =
               IF i = Len(snapshots) THEN d ELSE snapshots[i].doc
         /\ \A i \in DOMAIN snapshots : snapshots'[i].file = snapshots[i].file
         /\ \A i \in DOMAIN snapshots : snapshots'[i].rows =
               IF i = Len(snapshots) THEN snapshots[i].rows \o rows ELSE snapshots[i].rows
         /\ snapshots = <<>> => out'.doc = d /\ out'.rows = out.rows \o rows
         /\ snapshots # <<>> => out' = out
<1>1. CASE snapshots = <<>>
  <2>1. out' = [doc |-> d, rows |-> out.rows \o rows] /\ snapshots' = snapshots
    BY <1>1 DEF Written
  <2>2. out.rows \o rows \in Seq(Instants)
    BY FileFields
  <2> QED
    BY <1>1, <2>1, <2>2 DEF Files
<1>2. CASE snapshots # <<>>
  <2> DEFINE k == Len(snapshots)
             s == snapshots[k]
             t == [s EXCEPT !.doc = d, !.rows = @ \o rows]
  <2>1. out' = out /\ snapshots' = [snapshots EXCEPT ![k].doc = d, ![k].rows = @ \o rows]
    BY <1>2 DEF Written
  <2>2. k \in DOMAIN snapshots
    BY <1>2
  <2>3. s \in Snaps /\ s.rows \o rows \in Seq(Instants)
    BY <2>2, SnapFields
  <2>4. /\ t \in Snaps /\ t.saved = s.saved /\ t.doc = d /\ t.file = s.file
        /\ t.rows = s.rows \o rows
    BY <2>3 DEF Snaps
  <2>5. snapshots' = [snapshots EXCEPT ![k] = t]
    BY <2>1, <2>2, <2>3 DEF Snaps
  <2> HIDE DEF t
  <2>6. /\ snapshots' \in Seq(Snaps) /\ Len(snapshots') = Len(snapshots)
        /\ DOMAIN snapshots' = DOMAIN snapshots
        /\ \A i \in DOMAIN snapshots : snapshots'[i] = IF i = k THEN t ELSE snapshots[i]
    BY <2>2, <2>4, <2>5
  <2> HIDE DEF k
  <2>7. /\ \A i \in DOMAIN snapshots : snapshots'[i].saved = snapshots[i].saved
        /\ \A i \in DOMAIN snapshots : snapshots'[i].doc = IF i = k THEN d ELSE snapshots[i].doc
        /\ \A i \in DOMAIN snapshots : snapshots'[i].file = snapshots[i].file
    BY <2>4, <2>6
  <2>8. \A i \in DOMAIN snapshots : snapshots'[i].rows =
          IF i = k THEN snapshots[i].rows \o rows ELSE snapshots[i].rows
    BY <2>4, <2>6
  <2> QED
    BY <1>2, <2>1, <2>6, <2>7, <2>8 DEF k
<1> QED
  BY <1>1, <1>2

StartOf(n, d) == World([n EXCEPT !.inst = n.inst + 1], AddInstant(d, n.inst + 1))

(* The worlds that a step goes through.                                      *)
StepMade(c, e, w) ==
  /\ c \in Created(StartOf(net, CurrentDoc)) /\ e \in Inserted(c) /\ w \in Departed(e)
  /\ net' = w.net /\ Written(w.doc, <<net.inst + 1>>)

(* A time step creates, inserts, then lets vehicles out.                   *)
LEMMA StepParts ==
  ASSUME TimeStep
  PROVE  \E c, e, w : StepMade(c, e, w)
BY DEF TimeStep, StepMade, StartOf

(* A step starts from a sound network.                                     *)
LEMMA StartValid ==
  ASSUME NEW n, Sound(n), n.inst < LastStep, NEW d \in Docs
  PROVE  /\ Valid(StartOf(n, d)) /\ StartOf(n, d).doc = AddInstant(d, n.inst + 1)
         /\ StartOf(n, d).net.inst = n.inst + 1 /\ StartOf(n, d).net.lastId = n.lastId
         /\ StartOf(n, d).net.vehs = n.vehs /\ StartOf(n, d).net.waiting = n.waiting
         /\ StartOf(n, d).net.ready = n.ready /\ n.inst + 1 \in Instants
<1> DEFINE r == StartOf(n, d).net
<1>1. n \in Nets /\ Numbered(n) /\ n.fleet = Owned(n)
  BY DEF Sound
<1>2. n.inst + 1 \in Instants /\ n.inst + 1 \in 0 .. LastStep
  BY <1>1, NetFields, SnapshotAssumption DEF Instants
<1>3. r = Network(n.inst + 1, n.lastId, n.vehs, n.ready, n.waiting, n.lastOut, n.fleet)
  BY <1>1 DEF StartOf, World, Network, Nets
<1>4. StartOf(n, d).doc = AddInstant(d, n.inst + 1)
  BY DEF StartOf, World
<1>5. StartOf(n, d).doc \in Docs
  BY <1>2, <1>4, AddInstantType
<1> SUFFICES Sound(r) /\ r.inst = n.inst + 1 /\ r.lastId = n.lastId /\ r.vehs = n.vehs
             /\ r.waiting = n.waiting /\ r.ready = n.ready
  BY <1>2, <1>4, <1>5 DEF r, Valid
<1> HIDE DEF r
<1>6. r \in Nets
  BY <1>1, <1>2, <1>3, NetworkType, NetFields
<1>7. /\ r.waiting = n.waiting /\ r.vehs = n.vehs /\ r.ready = n.ready
      /\ r.lastId = n.lastId /\ r.fleet = n.fleet /\ r.inst = n.inst + 1
  BY <1>3 DEF Network
<1>8. Owned(r) = Owned(n)
  BY <1>7 DEF Owned
<1>9. Numbered(r)
  BY <1>1, <1>7, <1>8 DEF Numbered
<1> QED
  BY <1>1, <1>6, <1>7, <1>8, <1>9 DEF Sound

(* A time step keeps the network and the snapshots sound.                  *)
LEMMA StepKeepsWorld ==
  ASSUME WorldInv, TimeStep
  PROVE  WorldInv'
<1>1. /\ Sound(net) /\ copies \in 0 .. MaxRollbacks /\ out \in Files
      /\ snapshots \in Seq(Snaps) /\ SavedInv
  BY DEF WorldInv
<1>2. PICK c, e, w : StepMade(c, e, w)
  BY StepParts
<1>3. net.inst < LastStep /\ copies' = copies
  BY DEF TimeStep
<1>4. CurrentDoc \in Docs
  BY <1>1, CurrentDocType
<1>5. Valid(StartOf(net, CurrentDoc)) /\ net.inst + 1 \in Instants
  BY <1>1, <1>3, <1>4, StartValid
<1>6. Valid(c)
  BY <1>1, <1>2, <1>5, CreatedValid DEF StepMade
<1>7. Valid(e)
  BY <1>2, <1>6, InsertedValid DEF StepMade
<1>8. Valid(w)
  BY <1>2, <1>7, DepartedValid DEF StepMade
<1>9. Sound(net') /\ w.doc \in Docs /\ <<net.inst + 1>> \in Seq(Instants)
  BY <1>2, <1>5, <1>8 DEF Valid, StepMade
<1>10. Written(w.doc, <<net.inst + 1>>)
  BY <1>2 DEF StepMade
<1>11. /\ out' \in Files /\ snapshots' \in Seq(Snaps) /\ DOMAIN snapshots' = DOMAIN snapshots
       /\ \A i \in DOMAIN snapshots : snapshots'[i].saved = snapshots[i].saved
  <2> DEFINE d == w.doc
             rows == <<net.inst + 1>>
  <2>1. d \in Docs /\ rows \in Seq(Instants) /\ Written(d, rows)
    BY <1>9, <1>10
  <2> HIDE DEF d, rows
  <2> QED
    BY <1>1, <2>1, WrittenFields
<1>12. SavedInv'
  BY <1>1, <1>11 DEF SavedInv, SavedOK
<1>13. Sound(net)'
  BY <1>9 DEF Sound, Numbered, Owned
<1> QED
  BY <1>1, <1>3, <1>11, <1>12, <1>13 DEF WorldInv

(* A snapshot taken of a sound network is a sound one.                     *)
LEMMA TakenKeeps ==
  ASSUME NEW n, Sound(n), NEW list \in Seq(Snaps), SavedOK(list)
  PROVE  /\ Taken(n, list) \in Seq(Snaps) /\ SavedOK(Taken(n, list))
         /\ Taken(n, list) = Append(list, WithTempFiles(Backup(n), Len(list)))
<1> DEFINE s == WithTempFiles(Backup(n), Len(list))
<1>1. Backup(n) \in Backups /\ Numbered(Backup(n)) /\ Backup(n).fleet = Ids(Owned(Backup(n)))
  BY BackupSound
<1>2. s \in Snaps /\ s.saved = Backup(n)
  BY <1>1, EmptyDocType DEF WithTempFiles, Snaps
<1>3. Taken(n, list) = Append(list, s)
  BY DEF Taken
<1> HIDE DEF s
<1>4. SavedOK(Append(list, s))
  BY <1>1, <1>2 DEF SavedOK
<1> QED
  BY <1>2, <1>3, <1>4 DEF s

(* An empty list of snapshots is sound.                                    *)
LEMMA NoneSaved == <<>> \in Seq(Snaps) /\ SavedOK(<<>>)
BY DEF SavedOK

(* Taking a snapshot keeps everything sound.                               *)
LEMMA TakeKeepsWorld ==
  ASSUME WorldInv, TakeSimulationSnapshot
  PROVE  WorldInv'
<1>1. /\ Sound(net) /\ copies \in 0 .. MaxRollbacks /\ out \in Files
      /\ snapshots \in Seq(Snaps) /\ SavedOK(snapshots)
  BY DEF WorldInv, SavedInv
<1>2. /\ snapshots' = Taken(net, snapshots) /\ net' = net /\ copies' = copies /\ out' = out
  BY DEF TakeSimulationSnapshot
<1>3. snapshots' \in Seq(Snaps) /\ SavedOK(snapshots')
  BY <1>1, <1>2, TakenKeeps
<1>4. Sound(net)'
  BY <1>1, <1>2 DEF Sound, Numbered, Owned
<1>5. SavedInv'
  BY <1>3 DEF SavedInv, SavedOK
<1> QED
  BY <1>1, <1>2, <1>3, <1>4, <1>5 DEF WorldInv

(* A commit, after which a snapshot may be taken at once.                    *)
LEMMA CommitKeepsWorld ==
  ASSUME WorldInv, out' = Commit(out, snapshots), UNCHANGED <<net, copies>>,
         snapshots' = <<>> \/ snapshots' = Taken(net, <<>>)
  PROVE  WorldInv'
<1>1. /\ Sound(net) /\ copies \in 0 .. MaxRollbacks /\ out \in Files
      /\ snapshots \in Seq(Snaps)
  BY DEF WorldInv
<1>2. out' \in Files
  BY <1>1, CommitType
<1>3. snapshots' \in Seq(Snaps) /\ SavedOK(snapshots')
  BY <1>1, NoneSaved, TakenKeeps
<1>4. Sound(net)'
  BY <1>1 DEF Sound, Numbered, Owned
<1>5. SavedInv'
  BY <1>3 DEF SavedInv, SavedOK
<1> QED
  BY <1>1, <1>2, <1>3, <1>4, <1>5 DEF WorldInv

(* A rollback leaves one snapshot, and a sound network.                    *)
LEMMA RollbackKeepsWorld ==
  ASSUME WorldInv, NEW i \in DOMAIN snapshots, SimulationRollback(i)
  PROVE  WorldInv' /\ Len(snapshots') = 1
<1> DEFINE older == Commit(out, SubSeq(snapshots, 1, i - 1))
           saved == snapshots[i].saved
<1>1. /\ Sound(net) /\ copies \in 0 .. MaxRollbacks /\ out \in Files
      /\ snapshots \in Seq(Snaps) /\ SavedOK(snapshots) /\ net \in Nets
  BY DEF WorldInv, SavedInv, Sound
<1>2. /\ net' = Restored(net, saved) /\ copies' = NextCopy
      /\ out' = [older EXCEPT !.doc = RemoveVehicules(@, saved.lastId)]
      /\ snapshots' = <<WithTempFiles(saved, 0)>>
  BY DEF SimulationRollback
<1>3. saved \in Backups /\ Numbered(saved) /\ saved.fleet = Ids(Owned(saved))
      /\ saved.lastId \in Int
  BY <1>1, SnapFields, BackupFields DEF SavedOK
<1>4. older \in Files
  <2>1. i - 1 \in 0 .. Len(snapshots)
    BY <1>1
  <2> QED
    BY <1>1, <2>1, CommitPrefixType
<1> HIDE DEF older, saved
<1>5. Sound(net')
  BY <1>1, <1>2, <1>3, RestoredSound
<1>6. copies' \in 0 .. MaxRollbacks
  BY <1>1, <1>2, SnapshotAssumption DEF NextCopy
<1>7. out' \in Files
  <2>1. older.doc \in Docs /\ RemoveVehicules(older.doc, saved.lastId) \in Docs
    BY <1>3, <1>4, FileFields, RemoveType
  <2> QED
    BY <1>2, <1>4, <2>1 DEF Files
<1>8. snapshots' \in Seq(Snaps) /\ SavedOK(snapshots') /\ Len(snapshots') = 1
  BY <1>2, <1>3, EmptyDocType DEF WithTempFiles, Snaps, SavedOK
<1>9. Sound(net)' /\ SavedInv'
  BY <1>5, <1>8 DEF Sound, Numbered, Owned, SavedInv, SavedOK
<1> QED
  BY <1>6, <1>7, <1>8, <1>9 DEF WorldInv

(***************************************************************************)
(* The actions.                                                            *)
(***************************************************************************)
Places == {"init", "start", "step", "end", "return", "done"}

(* While the driver has not finished the network and its fleets are sound.   *)
LEMMA InvWorld ==
  ASSUME IInv, pc # "done"
  PROVE  WorldInv
BY DEF IInv, Values, FleetsMatchNetwork, WorldInv, Sound, Owned

(* Steps that leave the world alone keep it sound.                         *)
LEMMA WorldSame ==
  ASSUME WorldInv, UNCHANGED world
  PROVE  WorldInv'
<1>1. net' = net /\ copies' = copies /\ out' = out /\ snapshots' = snapshots
  BY DEF world
<1>2. Sound(net)'
  BY <1>1 DEF WorldInv, Sound, Numbered, Owned
<1>3. SavedInv'
  BY <1>1 DEF WorldInv, SavedInv, SavedOK
<1> QED
  BY <1>1, <1>2, <1>3 DEF WorldInv

(* The invariant of the next state, from its parts.                        *)
LEMMA WorldInvNext ==
  ASSUME WorldInv', master' \in BOOLEAN, period' \in Periods, pc' \in Places,
         nIteration' \in 0 .. NbItMax \cup {1}, bLastInstSimu' \in BOOLEAN,
         master' => pc' = "start",
         ~master' => Len(snapshots') = IF nIteration' > 0 THEN 1 ELSE 0
  PROVE  IInv'
BY DEF WorldInv, IInv, Values, Sound, Numbered, Owned, Driven, FleetsMatchNetwork, OneSnapshot,
       Places

(* What a call of Run keeps.                                                 *)
RunKeeps == /\ WorldInv' /\ nIteration' \in 0 .. NbItMax \cup {1} /\ bLastInstSimu' \in BOOLEAN
            /\ Len(snapshots') = IF nIteration' > 0 THEN 1 ELSE 0

(* A call of the assignment keeps the invariant.                           *)
LEMMA RunStep ==
  ASSUME IInv, pc # "done", ~master, Run
  PROVE  RunKeeps
<1>1. WorldInv /\ snapshots \in Seq(Snaps)
  BY InvWorld DEF WorldInv
<1>2. /\ nIteration \in 0 .. NbItMax \cup {1} /\ bLastInstSimu \in BOOLEAN
      /\ Len(snapshots) = (IF nIteration > 0 THEN 1 ELSE 0) /\ NbItMax \in Nat
  BY AssignmentAssumption DEF IInv, Values, OneSnapshot
<1>3. CASE UNCHANGED <<world, nIteration>> /\ bLastInstSimu' \in BOOLEAN
  <2>1. WorldInv'
    BY <1>1, <1>3, WorldSame
  <2> QED
    BY <1>2, <1>3, <2>1 DEF RunKeeps, world
<1>4. CASE FirstIteration /\ bLastInstSimu' \in BOOLEAN
  <2>1. CASE BeforeEnd(net.inst)
    <3>1. TakeSimulationSnapshot /\ nIteration' = 1 /\ nIteration = 0
      BY <1>4, <2>1 DEF FirstIteration
    <3>2. WorldInv'
      BY <1>1, <3>1, TakeKeepsWorld
    <3>3. snapshots' = Append(snapshots, WithTempFiles(Backup(net), Len(snapshots)))
      BY <3>1 DEF TakeSimulationSnapshot, Taken
    <3>4. Len(snapshots') = 1
      BY <1>1, <1>2, <3>1, <3>3, LenProperties
    <3> QED
      BY <1>4, <3>1, <3>2, <3>4 DEF RunKeeps
  <2>2. CASE ~BeforeEnd(net.inst)
    <3>1. UNCHANGED <<world, nIteration>>
      BY <1>4, <2>2 DEF FirstIteration
    <3> QED
      BY <1>3, <1>4, <3>1
  <2> QED
    BY <2>1, <2>2
<1>5. CASE Equilibrium /\ bLastInstSimu' \in BOOLEAN
  <2>1. /\ out' = Commit(out, snapshots) /\ UNCHANGED <<net, copies>>
        /\ \/ snapshots' = Taken(net, <<>>) /\ nIteration' = 1
           \/ snapshots' = <<>> /\ nIteration' = 0
    BY <1>5 DEF Equilibrium
  <2>2. WorldInv'
    BY <1>1, <2>1, CommitKeepsWorld
  <2>3. Len(snapshots') = IF nIteration' > 0 THEN 1 ELSE 0
    <3>1. Len(Taken(net, <<>>)) = 1
      BY DEF Taken
    <3> QED
      BY <2>1, <3>1
  <2>4. nIteration' \in 0 .. NbItMax \cup {1}
    BY <1>2, <2>1
  <2> QED
    BY <1>5, <2>2, <2>3, <2>4 DEF RunKeeps
<1>6. CASE NextIteration /\ bLastInstSimu' \in BOOLEAN
  <2>1. /\ nIteration \in 1 .. NbItMax - 1 /\ SimulationRollback(1)
        /\ nIteration' \in {nIteration, nIteration + 1}
    BY <1>6 DEF NextIteration
  <2>2. 1 \in DOMAIN snapshots
    BY <1>1, <1>2, <2>1
  <2>3. WorldInv' /\ Len(snapshots') = 1
    BY <1>1, <2>1, <2>2, RollbackKeepsWorld
  <2>4. nIteration' \in 0 .. NbItMax \cup {1} /\ nIteration' > 0
    BY <1>2, <2>1
  <2> QED
    BY <1>6, <2>3, <2>4 DEF RunKeeps
<1>7. \/ UNCHANGED <<world, nIteration>> /\ bLastInstSimu' \in BOOLEAN
      \/ FirstIteration /\ bLastInstSimu' \in BOOLEAN
      \/ Equilibrium /\ bLastInstSimu' \in BOOLEAN
      \/ NextIteration /\ bLastInstSimu' \in BOOLEAN
  <2>1. CASE DuringPeriod /\ UNCHANGED <<world, nIteration, bLastInstSimu>>
    BY <1>2, <2>1
  <2>2. CASE AlreadyRun
    BY <2>2 DEF AlreadyRun
  <2>3. CASE /\ bLastInstSimu' = (net.inst = DureeSimu)
             /\ FirstIteration \/ Equilibrium \/ NextIteration
    <3>1. bLastInstSimu' \in BOOLEAN
      BY <2>3
    <3> QED
      BY <2>3, <3>1
  <2> QED
    BY <2>1, <2>2, <2>3 DEF Run
<1> QED
  BY <1>3, <1>4, <1>5, <1>6, <1>7

(* The first period is a period.                                           *)
LEMMA FirstPeriod == Min(Periods) \in Periods
<1>1. Periods \subseteq Nat /\ Periods # {}
  BY AssignmentAssumption, SnapshotAssumption
<1>2. \E i \in Periods : \A j \in Periods : i <= j
  BY <1>1, SmallestOfSet
<1> QED
  BY <1>2 DEF Min

(* The invariant holds at first.                                           *)
LEMMA InitInv == Init => IInv
<1> SUFFICES ASSUME Init PROVE IInv
  OBVIOUS
<1>1. /\ net = EmptyNet /\ copies = 0 /\ out = [doc |-> EmptyDoc, rows |-> <<>>]
      /\ snapshots = <<>> /\ nIteration = 0 /\ bLastInstSimu = FALSE
      /\ master \in BOOLEAN /\ period \in Periods
      /\ pc \in {"start", "init"} /\ (master => pc = "start")
  BY FirstPeriod DEF Init, SnapshotInit
<1>2. EmptyNet = Network(0, 0, {}, None, <<>>, 0, {})
  BY DEF EmptyNet, Network
<1>3. net \in Nets
  <2>1. /\ 0 \in 0 .. LastStep /\ 0 \in 0 .. MaxVehicles /\ None \in Int
        /\ {} \in SUBSET Objects /\ <<>> \in Seq(Objects)
    BY SnapshotAssumption DEF None
  <2> QED
    BY <1>1, <1>2, <2>1, NetworkType
<1>4. /\ net.vehs = {} /\ net.waiting = <<>> /\ net.ready = None /\ net.fleet = {}
  BY <1>1 DEF EmptyNet
<1>5. Owned(net) = {} /\ ToSet(net.waiting) = {}
  BY <1>4, ToSetFacts DEF Owned, ToSet
<1>6. Numbered(net) /\ FleetsMatchNetwork
  BY <1>4, <1>5 DEF Numbered, Owned, FleetsMatchNetwork
<1>7. out \in Files /\ snapshots \in Seq(Snaps) /\ SavedInv
  BY <1>1, EmptyDocType, NoneSaved DEF Files, SavedInv
<1>8. copies \in 0 .. MaxRollbacks /\ nIteration \in 0 .. NbItMax \cup {1}
  BY <1>1, SnapshotAssumption, AssignmentAssumption
<1>9. Driven /\ OneSnapshot
  BY <1>1 DEF Driven, OneSnapshot
<1> QED
  BY <1>1, <1>3, <1>6, <1>7, <1>8, <1>9 DEF IInv, Values

(* FinSimuTrafic.                                                            *)
LEMMA FinishWrites ==
  ASSUME WorldInv, FinSimuTrafic
  PROVE  /\ Written(NeverLeft(CurrentDoc, net.vehs), <<>>)
         /\ Marked(CurrentDoc, NeverLeft(CurrentDoc, net.vehs), Ids(net.vehs))
         /\ net' = Network(net.inst, net.lastId, {}, None, <<>>, net.lastOut, net.fleet)
         /\ net' \in Nets /\ Numbered(net') /\ copies' = copies
<1>1. /\ Sound(net) /\ net \in Nets /\ Numbered(net)
      /\ out \in Files /\ snapshots \in Seq(Snaps)
  BY DEF WorldInv, Sound
<1>2. Written(NeverLeft(CurrentDoc, net.vehs), <<>>)
  BY DEF FinSimuTrafic, NeverLeft
<1>3. CurrentDoc \in Docs /\ net.vehs \in SUBSET Objects /\ IsFiniteSet(net.vehs)
  BY <1>1, CurrentDocType, NetFields, FinitelyMany
<1>4. Marked(CurrentDoc, NeverLeft(CurrentDoc, net.vehs), Ids(net.vehs))
  <2> DEFINE d == CurrentDoc
             s == net.vehs
  <2>1. d \in Docs /\ s \in SUBSET Objects /\ IsFiniteSet(s)
    BY <1>3
  <2> HIDE DEF d, s
  <2>2. Marked(d, NeverLeft(d, s), Ids(s))
    BY <2>1, NeverLeftMarks
  <2> QED
    BY <2>2 DEF d, s
<1> DEFINE r == Network(net.inst, net.lastId, {}, None, <<>>, net.lastOut, net.fleet)
<1>5. net' = r /\ copies' = copies
  BY <1>1 DEF FinSimuTrafic, Network, Nets
<1>6. r \in Nets
  <2>1. {} \in SUBSET Objects /\ <<>> \in Seq(Objects) /\ None \in Int
    BY DEF None
  <2> QED
    BY <1>1, <2>1, NetworkType, NetFields
<1>7. r.vehs = {} /\ r.waiting = <<>> /\ r.ready = None
  BY DEF Network
<1> HIDE DEF r
<1>8. Owned(r) = {} /\ ToSet(r.waiting) = {}
  BY <1>7, ToSetFacts DEF Owned, ToSet
<1>9. Numbered(r)
  BY <1>7, <1>8 DEF Numbered
<1> QED
  BY <1>2, <1>4, <1>5, <1>6, <1>9 DEF r

(* Every step keeps the invariant.                                         *)
LEMMA StepInv == IInv /\ [Next]_vars => IInv'
<1> SUFFICES ASSUME IInv, [Next]_vars PROVE IInv'
  OBVIOUS
<1>1. /\ master \in BOOLEAN /\ period \in Periods /\ pc \in Places
      /\ nIteration \in 0 .. NbItMax \cup {1} /\ bLastInstSimu \in BOOLEAN
      /\ (master => pc = "start") /\ NbItMax \in Nat
      /\ (~master => Len(snapshots) = IF nIteration > 0 THEN 1 ELSE 0)
  BY AssignmentAssumption DEF IInv, Values, Driven, OneSnapshot, Places
<1>2. ASSUME InitialRun PROVE IInv'
  <2>1. pc = "init" /\ pc' = "start" /\ UNCHANGED <<master, period>> /\ Run /\ ~master
    BY <1>1, <1>2 DEF InitialRun, At, GoTo
  <2>2. RunKeeps
    BY <2>1, RunStep
  <2> QED
    BY <1>1, <2>1, <2>2, WorldInvNext DEF RunKeeps, Places
<1>3. ASSUME StartOfStep PROVE IInv'
  <2>1. pc = "start" /\ pc' = "step" /\ UNCHANGED <<master, period>> /\ ~master
    BY <1>3 DEF StartOfStep, At, GoTo
  <2>2. RunKeeps
    <3>1. CASE Run
      BY <2>1, <3>1, RunStep
    <3>2. CASE UNCHANGED <<world, Counters>>
      <4>1. WorldInv'
        BY <2>1, <3>2, InvWorld, WorldSame
      <4> QED
        BY <1>1, <2>1, <3>2, <4>1 DEF RunKeeps, world, Counters
    <3> QED
      BY <1>3, <3>1, <3>2 DEF StartOfStep
  <2> QED
    BY <1>1, <2>1, <2>2, WorldInvNext DEF RunKeeps, Places
<1>4. ASSUME Step PROVE IInv'
  <2>1. /\ pc # "done" /\ pc' \in {"start", "end"} /\ UNCHANGED <<master, period, Counters>>
        /\ TimeStep /\ (master => pc' = "start")
    BY <1>4 DEF Step, At, GoTo
  <2>2. WorldInv
    BY <2>1, InvWorld
  <2>3. WorldInv'
    BY <2>1, <2>2, StepKeepsWorld
  <2>4. Len(snapshots') = Len(snapshots)
    <3>1. PICK c, e, w : StepMade(c, e, w)
      BY <2>1, StepParts
    <3>2. Written(w.doc, <<net.inst + 1>>)
      BY <3>1 DEF StepMade
    <3> QED
      BY <2>2, <3>2 DEF Written, WorldInv
  <2> QED
    BY <1>1, <2>1, <2>3, <2>4, WorldInvNext DEF Counters, Places
<1>5. ASSUME EndOfStep PROVE IInv'
  <2>1. pc = "end" /\ pc' = "return" /\ UNCHANGED <<master, period>> /\ Run /\ ~master
    BY <1>1, <1>5 DEF EndOfStep, At, GoTo
  <2>2. RunKeeps
    BY <2>1, RunStep
  <2> QED
    BY <1>1, <2>1, <2>2, WorldInvNext DEF RunKeeps, Places
<1>6. ASSUME Return PROVE IInv'
  <2>1. pc = "return" /\ pc' = "start" /\ UNCHANGED <<master, period, world, Counters>>
    BY <1>6 DEF Return, At, GoTo
  <2>2. WorldInv'
    BY <2>1, InvWorld, WorldSame
  <2> QED
    BY <1>1, <2>1, <2>2, WorldInvNext DEF world, Counters, Places
<1>7. ASSUME Finish PROVE IInv'
  <2>1. /\ pc = "return" /\ pc' = "done" /\ UNCHANGED <<master, period, Counters>>
        /\ FinSimuTrafic /\ ~master
    BY <1>1, <1>7 DEF Finish, At, GoTo
  <2>2. WorldInv /\ out \in Files /\ snapshots \in Seq(Snaps) /\ SavedInv
    BY <2>1, InvWorld DEF WorldInv
  <2> DEFINE d == NeverLeft(CurrentDoc, net.vehs)
  <2>3. Written(d, <<>>) /\ d \in Docs /\ <<>> \in Seq(Instants)
    BY <2>1, <2>2, FinishWrites DEF Marked
  <2> HIDE DEF d
  <2>4. /\ out' \in Files /\ snapshots' \in Seq(Snaps) /\ Len(snapshots') = Len(snapshots)
        /\ DOMAIN snapshots' = DOMAIN snapshots
        /\ \A i \in DOMAIN snapshots : snapshots'[i].saved = snapshots[i].saved
    <3> DEFINE rows == <<>>
    <3>1. rows \in Seq(Instants) /\ Written(d, rows) /\ d \in Docs
      BY <2>3
    <3> HIDE DEF rows
    <3> QED
      BY <2>2, <3>1, WrittenFields
  <2>5. SavedInv'
    BY <2>2, <2>4 DEF SavedInv, SavedOK
  <2>6. net' \in Nets /\ Numbered(net') /\ copies' = copies
    BY <2>1, <2>2, FinishWrites
  <2>7. Values'
    BY <1>1, <2>1, <2>2, <2>4, <2>6 DEF Values, Counters, WorldInv
  <2>8. Numbered(net)' /\ Driven' /\ OneSnapshot' /\ FleetsMatchNetwork'
    BY <1>1, <2>1, <2>4, <2>6
    DEF Numbered, Owned, Driven, OneSnapshot, FleetsMatchNetwork, Counters
  <2> QED
    BY <2>5, <2>7, <2>8 DEF IInv
<1>8. ASSUME Client PROVE IInv'
  <2>1. pc = "start" /\ master /\ UNCHANGED <<master, period, pc, Counters>>
    BY <1>8 DEF Client, At
  <2>2. WorldInv
    BY <2>1, InvWorld
  <2>3. WorldInv'
    <3>1. CASE TakeSimulationSnapshot
      BY <2>2, <3>1, TakeKeepsWorld
    <3>2. CASE SimulationCommit
      BY <2>2, <3>2, CommitKeepsWorld DEF SimulationCommit
    <3>3. CASE \E i \in DOMAIN snapshots : SimulationRollback(i)
      BY <2>2, <3>3, RollbackKeepsWorld
    <3> QED
      BY <1>8, <3>1, <3>2, <3>3 DEF Client
  <2> QED
    BY <1>1, <2>1, <2>3, WorldInvNext DEF Counters, Places
<1>9. ASSUME UNCHANGED vars PROVE IInv'
  <2>1. /\ net' = net /\ copies' = copies /\ out' = out /\ snapshots' = snapshots
        /\ UNCHANGED <<master, period, pc, nIteration, bLastInstSimu>>
    BY <1>9 DEF vars, world
  <2>2. Values' /\ Driven' /\ OneSnapshot' /\ FleetsMatchNetwork'
    BY <2>1 DEF IInv, Values, Driven, FleetsMatchNetwork, OneSnapshot
  <2>3. Numbered(net)' /\ SavedInv'
    BY <2>1 DEF IInv, Numbered, Owned, SavedInv, SavedOK
  <2> QED
    BY <2>2, <2>3 DEF IInv
<1> QED
  BY <1>2, <1>3, <1>4, <1>5, <1>6, <1>7, <1>8, <1>9 DEF Next

(* Every behaviour of the assignment keeps the inductive invariant.          *)
THEOREM Invariance == Spec => []IInv
<1> QED
  BY InitInv, StepInv, PTL DEF Spec

(* The invariant gives the types.                                          *)
LEMMA InvTypes == IInv => TypeOK
<1> SUFFICES ASSUME IInv PROVE TypeOK
  OBVIOUS
<1>1. /\ net \in Nets /\ Numbered(net) /\ out \in Files /\ copies \in 0 .. MaxRollbacks
      /\ master \in BOOLEAN /\ period \in Periods /\ pc \in Places
      /\ nIteration \in 0 .. NbItMax \cup {1} /\ bLastInstSimu \in BOOLEAN
  BY DEF IInv, Values, Places
<1>2. /\ net.inst \in 0 .. LastStep /\ net.lastId \in 0 .. MaxVehicles
      /\ net.vehs \in SUBSET Objects /\ net.waiting \in Seq(Objects)
      /\ net.lastOut \in 0 .. LastStep /\ net.fleet \in SUBSET Objects
  BY <1>1, NetFields
<1>3. net.vehs \cup ToSet(net.waiting) \subseteq Objects
  BY <1>2 DEF ToSet
<1>4. ToSet(out.doc.insts) \cup ToSet(out.rows) \subseteq 1 .. LastStep
  <2>1. out.doc.insts \in Seq(Instants) /\ out.rows \in Seq(Instants)
    BY <1>1, FileFields, DocFields
  <2> DEFINE i == out.doc.insts
             r == out.rows
  <2>2. i \in Seq(Instants) /\ r \in Seq(Instants)
    BY <2>1
  <2> HIDE DEF i, r
  <2>3. ToSet(i) \subseteq Instants /\ ToSet(r) \subseteq Instants
    BY <2>2 DEF ToSet
  <2> QED
    BY <2>3 DEF i, r, Instants
<1>5. DOMAIN out.doc.vehs \subseteq 0 .. MaxVehicles - 1
  BY <1>1, FileFields, DocFields DEF VehIds
<1>6. net.ready \in {None} \cup Ids(net.vehs)
  BY <1>1 DEF Numbered
<1> QED
  BY <1>1, <1>2, <1>3, <1>4, <1>5, <1>6 DEF TypeOK, Places

(* The variables hold values of their types, whatever is rolled back.        *)
THEOREM TypeCorrect == Spec => []TypeOK
<1> QED
  BY Invariance, InvTypes, PTL

(* The fleets own exactly the vehicles that run or wait, after every rollback *)
(* too: Restore builds new vehicles, and the fleets find each of them by id.  *)
THEOREM FleetsMatch == Spec => []FleetsMatchNetwork
<1>1. IInv => FleetsMatchNetwork
  BY DEF IInv
<1> QED
  BY Invariance, <1>1, PTL

(* The assertion of Affectation::Run: one snapshot is open during an          *)
(* iteration and none otherwise.                                             *)
THEOREM OneSnapshotOpen == Spec => []OneSnapshot
<1>1. IInv => OneSnapshot
  BY DEF IInv
<1> QED
  BY Invariance, <1>1, PTL

(***************************************************************************)
(* What a step writes of a vehicle, in the open document and in the whole.  *)
(***************************************************************************)
LEMMA CompatibleWith ==
  ASSUME NEW b \in Docs, NEW d \in Docs, NEW id \in VehIds, NEW node \in Nodes,
         Compatible(b, d),
         NodeOf(b, id).entered = Unset \/ node.entered = Unset,
         NodeOf(b, id).left = Unset \/ node.left = Unset
  PROVE  Compatible(b, WithNode(d, id, node))
<1> DEFINE e == WithNode(d, id, node)
<1>1. e.vehs = [i \in DOMAIN d.vehs \cup {id} |-> IF i = id THEN node ELSE d.vehs[i]]
  BY WithNodeType
<1> HIDE DEF e
<1>2. Compatible(b, e)
  BY <1>1 DEF Compatible
<1> QED
  BY <1>2 DEF e

(* Two compatible documents never date the same event twice.               *)
LEMMA CompatibleNode ==
  ASSUME NEW b \in Docs, NEW d \in Docs, NEW id, Compatible(b, d)
  PROVE  /\ NodeOf(b, id).entered = Unset \/ NodeOf(d, id).entered = Unset
         /\ NodeOf(b, id).left = Unset \/ NodeOf(d, id).left = Unset
BY DEF Compatible, NodeOf, Node

(* An entry that no document dates yet is written once.                    *)
LEMMA EntryWritten ==
  ASSUME NEW b \in Docs, NEW d \in Docs, NEW id \in VehIds, NEW t \in 1 .. Never,
         Compatible(b, d), NodeOf(Add(b, d), id).entered = Unset
  PROVE  LET e == UpdateInstEntreeVehicule(d, id, t)
         IN  /\ Compatible(b, e) /\ History!DocGrows(Add(b, d), Add(b, e))
             /\ Add(b, e) = UpdateInstEntreeVehicule(Add(b, d), id, t)
<1>1. Add(b, d) \in Docs /\ NodeOf(d, id) \in Nodes /\ Never \in Nat /\ NodeOf(b, id) \in Nodes
  BY AddType, NodeType, SnapshotAssumption DEF Never
<1>2. NodeOf(b, id).entered = Unset
  BY NodeOfAdd
<1> DEFINE node == [NodeOf(d, id) EXCEPT !.entered = t]
<1>3. node \in Nodes /\ node.left = NodeOf(d, id).left
  BY <1>1 DEF Nodes
<1>4. NodeOf(b, id).left = Unset \/ node.left = Unset
  BY <1>3, CompatibleNode
<1> HIDE DEF node
<1>5. Compatible(b, WithNode(d, id, node))
  BY <1>2, <1>3, <1>4, CompatibleWith
<1>6. Add(b, UpdateInstEntreeVehicule(d, id, t)) = UpdateInstEntreeVehicule(Add(b, d), id, t)
  BY AddWrites
<1>7. History!DocGrows(Add(b, d), UpdateInstEntreeVehicule(Add(b, d), id, t))
  <2> DEFINE D == Add(b, d)
  <2>1. D \in Docs /\ NodeOf(D, id).entered = Unset
    BY <1>1
  <2> HIDE DEF D
  <2> QED
    BY <2>1, WritesGrow DEF D
<1> QED
  BY <1>5, <1>6, <1>7 DEF UpdateInstEntreeVehicule, node

(* An exit that no document dates yet is written once.                     *)
LEMMA ExitWritten ==
  ASSUME NEW b \in Docs, NEW d \in Docs, NEW id \in VehIds, NEW t \in 1 .. Never,
         Compatible(b, d), NodeOf(Add(b, d), id).left = Unset
  PROVE  LET e == UpdateInstSortieVehicule(d, id, t)
         IN  /\ Compatible(b, e) /\ History!DocGrows(Add(b, d), Add(b, e))
             /\ Add(b, e) = UpdateInstSortieVehicule(Add(b, d), id, t)
<1>1. Add(b, d) \in Docs /\ NodeOf(d, id) \in Nodes /\ Never \in Nat /\ NodeOf(b, id) \in Nodes
  BY AddType, NodeType, SnapshotAssumption DEF Never
<1>2. NodeOf(b, id).left = Unset
  BY NodeOfAdd
<1> DEFINE node == [NodeOf(d, id) EXCEPT !.left = t]
<1>3. node \in Nodes /\ node.entered = NodeOf(d, id).entered
  BY <1>1 DEF Nodes
<1>4. NodeOf(b, id).entered = Unset \/ node.entered = Unset
  BY <1>3, CompatibleNode
<1> HIDE DEF node
<1>5. Compatible(b, WithNode(d, id, node))
  BY <1>2, <1>3, <1>4, CompatibleWith
<1>6. Add(b, UpdateInstSortieVehicule(d, id, t)) = UpdateInstSortieVehicule(Add(b, d), id, t)
  BY AddWrites
<1>7. History!DocGrows(Add(b, d), UpdateInstSortieVehicule(Add(b, d), id, t))
  <2> DEFINE D == Add(b, d)
  <2>1. D \in Docs /\ NodeOf(D, id).left = Unset
    BY <1>1
  <2> HIDE DEF D
  <2> QED
    BY <2>1, WritesGrow DEF D
<1> QED
  BY <1>5, <1>6, <1>7 DEF UpdateInstSortieVehicule, node

(* A creation that no document holds yet is written once.                  *)
LEMMA CreationWritten ==
  ASSUME NEW b \in Docs, NEW d \in Docs, NEW id \in VehIds, NEW t \in 1 .. Never,
         Compatible(b, d), id \notin DOMAIN Add(b, d).vehs
  PROVE  LET e == AddVehicule(d, id, t)
         IN  /\ Compatible(b, e) /\ History!DocGrows(Add(b, d), Add(b, e))
             /\ Add(b, e) = AddVehicule(Add(b, d), id, t)
<1>1. Add(b, d) \in Docs /\ Never \in Nat /\ Node(t) \in Nodes
  BY AddType, NodeType, SnapshotAssumption DEF Never
<1>2. id \notin DOMAIN b.vehs
  <2>1. DOMAIN Add(b, d).vehs = DOMAIN b.vehs \cup DOMAIN d.vehs
    BY AddFields
  <2> QED
    BY <2>1
<1>3. Node(t).entered = Unset /\ Node(t).left = Unset
  BY DEF Node
<1>5. Compatible(b, WithNode(d, id, Node(t)))
  BY <1>1, <1>3, CompatibleWith
<1>6. Add(b, AddVehicule(d, id, t)) = AddVehicule(Add(b, d), id, t)
  BY <1>2, AddWrites
<1>7. History!DocGrows(Add(b, d), AddVehicule(Add(b, d), id, t))
  <2> DEFINE D == Add(b, d)
  <2>1. D \in Docs /\ id \notin DOMAIN D.vehs
    BY <1>1
  <2> HIDE DEF D
  <2> QED
    BY <2>1, WritesGrow DEF D
<1> QED
  BY <1>5, <1>6, <1>7 DEF AddVehicule

(* What the documents say of each vehicle after a writing.                   *)
LEMMA WrittenNodes ==
  ASSUME NEW d \in Docs, NEW id \in VehIds, NEW t \in 0 .. Never
  PROVE  /\ \A j : NodeOf(AddVehicule(d, id, t), j) = IF j = id THEN Node(t) ELSE NodeOf(d, j)
         /\ \A j : LET e == NodeOf(UpdateInstEntreeVehicule(d, id, t), j)
                   IN  /\ e.left = NodeOf(d, j).left
                       /\ j # id => e = NodeOf(d, j)
         /\ \A j : LET e == NodeOf(UpdateInstSortieVehicule(d, id, t), j)
                   IN  /\ e.entered = NodeOf(d, j).entered
                       /\ j # id => e = NodeOf(d, j)
         /\ DOMAIN AddVehicule(d, id, t).vehs = DOMAIN d.vehs \cup {id}
         /\ DOMAIN UpdateInstEntreeVehicule(d, id, t).vehs = DOMAIN d.vehs \cup {id}
         /\ DOMAIN UpdateInstSortieVehicule(d, id, t).vehs = DOMAIN d.vehs \cup {id}
<1> DEFINE n == NodeOf(d, id)
           a == Node(t)
           e == [n EXCEPT !.entered = t]
           s == [n EXCEPT !.left = t]
<1>1. n \in Nodes /\ a \in Nodes
  BY NodeType
<1>2. e \in Nodes /\ s \in Nodes /\ e.left = n.left /\ s.entered = n.entered
  BY <1>1 DEF Nodes
<1>a. AddVehicule(d, id, t) = WithNode(d, id, a)
  BY DEF AddVehicule
<1>b. UpdateInstEntreeVehicule(d, id, t) = WithNode(d, id, e)
  BY DEF UpdateInstEntreeVehicule
<1>c. UpdateInstSortieVehicule(d, id, t) = WithNode(d, id, s)
  BY DEF UpdateInstSortieVehicule
<1> HIDE DEF a, e, s
<1>3. \A m \in Nodes : /\ \A j : NodeOf(WithNode(d, id, m), j) = IF j = id THEN m ELSE NodeOf(d, j)
                       /\ DOMAIN WithNode(d, id, m).vehs = DOMAIN d.vehs \cup {id}
  <2> TAKE m \in Nodes
  <2>1. \A j : NodeOf(WithNode(d, id, m), j) = IF j = id THEN m ELSE NodeOf(d, j)
    BY NodeOfWith
  <2>2. WithNode(d, id, m).vehs =
          [i \in DOMAIN d.vehs \cup {id} |-> IF i = id THEN m ELSE d.vehs[i]]
    BY WithNodeType
  <2> QED
    BY <2>1, <2>2
<1>4. \A j : NodeOf(AddVehicule(d, id, t), j) = IF j = id THEN Node(t) ELSE NodeOf(d, j)
  BY <1>1, <1>3, <1>a DEF a
<1>5. \A j : NodeOf(UpdateInstEntreeVehicule(d, id, t), j) = IF j = id THEN e ELSE NodeOf(d, j)
  BY <1>2, <1>3, <1>b
<1>6. \A j : NodeOf(UpdateInstSortieVehicule(d, id, t), j) = IF j = id THEN s ELSE NodeOf(d, j)
  BY <1>2, <1>3, <1>c
<1> QED
  BY <1>1, <1>2, <1>3, <1>4, <1>5, <1>6, <1>a, <1>b, <1>c

(* The life of a vehicle starts with its creation.                         *)
LEMMA CreationLife ==
  ASSUME NEW n, Sound(n), NEW D \in Docs, Life(n, D), NEW r, Sound(r), NEW v,
         n.lastId \in VehIds, NEW t \in 0 .. Never, v.id = n.lastId,
         r.lastId = n.lastId + 1, Owned(r) = Owned(n) \cup {v},
         ToSet(r.waiting) \subseteq ToSet(n.waiting) \cup {v}, r.ready \in {n.ready, v.id}
  PROVE  Life(r, AddVehicule(D, n.lastId, t))
<1> DEFINE E == AddVehicule(D, n.lastId, t)
<1>1. /\ \A j : NodeOf(E, j) = IF j = n.lastId THEN Node(t) ELSE NodeOf(D, j)
      /\ DOMAIN E.vehs = DOMAIN D.vehs \cup {n.lastId}
  BY WrittenNodes
<1>2. Node(t).entered = Unset /\ Node(t).left = Unset
  BY DEF Node
<1>3. DOMAIN D.vehs \subseteq Int /\ n.lastId \in Int
  <2>1. DOMAIN D.vehs \in SUBSET VehIds
    BY DocFields
  <2>2. VehIds \subseteq Int
    BY SnapshotAssumption DEF VehIds
  <2> QED
    BY <2>1, <2>2
<1> HIDE DEF E
<1>4. \A id \in DOMAIN E.vehs : id < r.lastId
  BY <1>1, <1>3 DEF Life, VehIds
<1>5. \A u \in Owned(r) : NodeOf(E, u.id).left = Unset
  BY <1>1, <1>2 DEF Life
<1>6. \A u \in ToSet(r.waiting) : NodeOf(E, u.id).entered = Unset
  BY <1>1, <1>2 DEF Life
<1>7. r.ready # None => NodeOf(E, r.ready).entered = Unset
  BY <1>1, <1>2 DEF Life
<1>8. Life(r, E)
  BY <1>4, <1>5, <1>6, <1>7 DEF Life
<1> QED
  BY <1>8 DEF E

(* A vehicle that enters: it no longer waits, and is not the ready one.      *)
LEMMA EntryLife ==
  ASSUME NEW n, Sound(n), NEW D \in Docs, Life(n, D), NEW r, NEW id \in VehIds, id < n.lastId,
         NEW t \in 0 .. Never, r.lastId = n.lastId, Owned(r) = Owned(n),
         ToSet(r.waiting) \subseteq ToSet(n.waiting), r.ready \in {n.ready, None},
         \A u \in ToSet(r.waiting) : u.id # id, r.ready # None => r.ready # id
  PROVE  Life(r, UpdateInstEntreeVehicule(D, id, t))
<1> DEFINE E == UpdateInstEntreeVehicule(D, id, t)
<1>1. /\ \A j : NodeOf(E, j).left = NodeOf(D, j).left /\ (j # id => NodeOf(E, j) = NodeOf(D, j))
      /\ DOMAIN E.vehs = DOMAIN D.vehs \cup {id}
  BY WrittenNodes
<1> HIDE DEF E
<1>4. \A i \in DOMAIN E.vehs : i < r.lastId
  BY <1>1 DEF Life
<1>5. \A u \in Owned(r) : NodeOf(E, u.id).left = Unset
  BY <1>1 DEF Life
<1>6. \A u \in ToSet(r.waiting) : NodeOf(E, u.id).entered = Unset
  BY <1>1 DEF Life
<1>7. r.ready # None => NodeOf(E, r.ready).entered = Unset
  BY <1>1 DEF Life
<1>8. Life(r, E)
  BY <1>4, <1>5, <1>6, <1>7 DEF Life
<1> QED
  BY <1>8 DEF E

(* The life of a vehicle ends with its exit.                               *)
LEMMA ExitLife ==
  ASSUME NEW n, Sound(n), NEW D \in Docs, Life(n, D), NEW r, NEW id \in VehIds, id < n.lastId,
         NEW t \in 0 .. Never, r.lastId = n.lastId, Owned(r) \subseteq Owned(n),
         r.waiting = n.waiting, r.ready = n.ready, \A u \in Owned(r) : u.id # id
  PROVE  Life(r, UpdateInstSortieVehicule(D, id, t))
<1> DEFINE E == UpdateInstSortieVehicule(D, id, t)
<1>1. /\ \A j : NodeOf(E, j).entered = NodeOf(D, j).entered
                /\ (j # id => NodeOf(E, j) = NodeOf(D, j))
      /\ DOMAIN E.vehs = DOMAIN D.vehs \cup {id}
  BY WrittenNodes
<1> HIDE DEF E
<1>4. \A i \in DOMAIN E.vehs : i < r.lastId
  BY <1>1 DEF Life
<1>5. \A u \in Owned(r) : NodeOf(E, u.id).left = Unset
  BY <1>1 DEF Life
<1>6. /\ \A u \in ToSet(r.waiting) : NodeOf(E, u.id).entered = Unset
      /\ r.ready # None => NodeOf(E, r.ready).entered = Unset
  BY <1>1 DEF Life
<1>8. Life(r, E)
  BY <1>4, <1>5, <1>6 DEF Life
<1> QED
  BY <1>8 DEF E

(***************************************************************************)
(* Each part of a step keeps the documents in line with the network, and    *)
(* what is written in the whole only grows.  b is what was written before   *)
(* the open document.                                                       *)
(***************************************************************************)
Fit(b, w) == /\ Valid(w) /\ w.net.inst \in Instants
             /\ Life(w.net, Add(b, w.doc)) /\ Compatible(b, w.doc)

Grown(b, w, x) == Fit(b, x) /\ History!DocGrows(Add(b, w.doc), Add(b, x.doc))

(* A state has grown from itself.                                          *)
LEMMA GrownSame == ASSUME NEW b \in Docs, NEW w, Fit(b, w) PROVE Grown(b, w, w)
<1>1. Add(b, w.doc) \in Docs
  BY AddType DEF Fit, Valid
<1> QED
  BY <1>1, GrowsReflexive DEF Grown

(* Growing is transitive along a step.                                     *)
LEMMA GrownThen ==
  ASSUME NEW b \in Docs, NEW w, NEW x, NEW y, Fit(b, w), Grown(b, w, x), Grown(b, x, y)
  PROVE  Grown(b, w, y)
<1>1. Add(b, w.doc) \in Docs /\ Add(b, x.doc) \in Docs /\ Add(b, y.doc) \in Docs
  BY AddType DEF Grown, Fit, Valid
<1> QED
  BY <1>1, GrowsTransitive DEF Grown

(* The network after a creation.                                           *)
LEMMA CreatedNets ==
  ASSUME NEW w, w.net \in Nets
  PROVE  LET v == Vehicle(w.net.lastId, "car")
             b == Vehicle(w.net.lastId, "bus")
             g == GenerateVehicle(w).net
             a == ActivateBus(w).net
         IN  /\ v.id = w.net.lastId /\ b.id = w.net.lastId
             /\ g.lastId = w.net.lastId + 1 /\ a.lastId = w.net.lastId + 1
             /\ \/ /\ g.waiting = Append(w.net.waiting, v) /\ g.vehs = w.net.vehs
                   /\ g.ready = w.net.ready
                \/ /\ g.waiting = w.net.waiting /\ g.vehs = w.net.vehs \cup {v}
                   /\ g.ready = v.id
             /\ a.waiting = w.net.waiting /\ a.vehs = w.net.vehs \cup {b} /\ a.ready = w.net.ready
BY DEF GenerateVehicle, ActivateBus, World, Vehicle, Nets

(* The network after an entry or an exit.                                  *)
LEMMA MovedNets ==
  ASSUME NEW w, w.net \in Nets, NEW v
  PROVE  LET e == ReadyEntered(w).net
             f == FirstInserted(w).net
             l == Left(w, v).net
         IN  /\ e.lastId = w.net.lastId /\ f.lastId = w.net.lastId /\ l.lastId = w.net.lastId
             /\ e.vehs = w.net.vehs /\ e.waiting = w.net.waiting /\ e.ready = None
             /\ f.vehs = w.net.vehs \cup {Head(w.net.waiting)} /\ f.ready = w.net.ready
             /\ f.waiting = Tail(w.net.waiting)
             /\ l.vehs = w.net.vehs \ {v} /\ l.waiting = w.net.waiting /\ l.ready = w.net.ready
BY DEF ReadyEntered, FirstInserted, Left, World, Nets

(* What a state fit to be written in gives.                                *)
LEMMA FitFacts ==
  ASSUME NEW b \in Docs, NEW w, Fit(b, w)
  PROVE  /\ Sound(w.net) /\ w.net \in Nets /\ w.net.waiting \in Seq(Objects)
         /\ w.doc \in Docs /\ Add(b, w.doc) \in Docs /\ Life(w.net, Add(b, w.doc))
         /\ Compatible(b, w.doc) /\ w.net.inst \in 1 .. Never /\ w.net.inst \in 0 .. Never
         /\ w.net.inst \in Instants /\ Valid(w)
<1>1. Sound(w.net) /\ w.doc \in Docs /\ w.net \in Nets
  BY DEF Fit, Valid, Sound
<1>2. w.net.inst \in 1 .. Never /\ w.net.inst \in 0 .. Never
  BY SnapshotAssumption DEF Fit, Instants, Never
<1> QED
  BY <1>1, <1>2, AddType, NetFields DEF Fit

(* From the parts to the whole: what one transformation has to show.         *)
LEMMA GrownBy ==
  ASSUME NEW b \in Docs, NEW w, Fit(b, w), NEW x, Valid(x), x.net.inst = w.net.inst,
         Compatible(b, x.doc), History!DocGrows(Add(b, w.doc), Add(b, x.doc)),
         Life(x.net, Add(b, x.doc))
  PROVE  Grown(b, w, x)
BY DEF Grown, Fit

(* A creation makes the output grow.                                       *)
LEMMA CreatedGrown ==
  ASSUME copies \in 0 .. MaxRollbacks, NEW b \in Docs, NEW w, Fit(b, w), NEW c \in Created(w)
  PROVE  Grown(b, w, c)
<1> DEFINE n == w.net
           d == w.doc
           id == n.lastId
           t == n.inst
           D == Add(b, d)
<1>1. /\ Sound(n) /\ n \in Nets /\ n.waiting \in Seq(Objects) /\ d \in Docs /\ D \in Docs
      /\ Life(n, D) /\ Compatible(b, d) /\ t \in 1 .. Never /\ t \in 0 .. Never /\ Valid(w)
  BY FitFacts
<1>2. Valid(c) /\ c.net.inst = t
  BY <1>1, CreatedValid
<1>3. CASE c = w
  BY <1>3, GrownSame
<1>4. CASE n.lastId # MaxVehicles /\ c \in {GenerateVehicle(w), ActivateBus(w)}
  <2>1. id \in VehIds
    BY <1>1, <1>4, SoundIds
  <2>2. id \notin DOMAIN D.vehs
    BY <1>1, NetFields, SnapshotAssumption DEF Life
  <2>3. c.doc = AddVehicule(d, id, t)
    BY <1>1, <1>4, Writings
  <2>4. /\ Compatible(b, c.doc) /\ History!DocGrows(D, Add(b, c.doc))
        /\ Add(b, c.doc) = AddVehicule(D, id, t)
    <3> HIDE DEF n, d, id, t
    <3>1. LET e == AddVehicule(d, id, t)
          IN  /\ Compatible(b, e) /\ History!DocGrows(Add(b, d), Add(b, e))
              /\ Add(b, e) = AddVehicule(Add(b, d), id, t)
      BY <1>1, <2>1, <2>2, CreationWritten
    <3> QED
      BY <2>3, <3>1
  <2>5. Life(c.net, AddVehicule(D, id, t))
    <3>1. \E v : /\ v.id = id /\ v \in Objects
                 /\ c.net.lastId = id + 1 /\ c.net.ready \in {n.ready, v.id}
                 /\ \/ c.net.waiting = Append(n.waiting, v) /\ c.net.vehs = n.vehs
                    \/ c.net.waiting = n.waiting /\ c.net.vehs = n.vehs \cup {v}
      <4>1. Vehicle(id, "car") \in Objects /\ Vehicle(id, "bus") \in Objects
        BY <1>1, <1>4, SoundIds, FreshVehicle
      <4> QED
        BY <1>1, <1>4, <4>1, CreatedNets
    <3> HIDE DEF n, d, id, t, D
    <3>2. PICK v : /\ v.id = id /\ v \in Objects
                 /\ c.net.lastId = id + 1 /\ c.net.ready \in {n.ready, v.id}
                 /\ \/ c.net.waiting = Append(n.waiting, v) /\ c.net.vehs = n.vehs
                    \/ c.net.waiting = n.waiting /\ c.net.vehs = n.vehs \cup {v}
      BY <3>1
    <3>3. /\ Owned(c.net) = Owned(n) \cup {v}
          /\ ToSet(c.net.waiting) \subseteq ToSet(n.waiting) \cup {v}
      <4>1. ToSet(Append(n.waiting, v)) = ToSet(n.waiting) \cup {v}
        BY <1>1, <3>2, ToSetFacts
      <4> QED
        BY <3>2, <4>1 DEF Owned
    <3>4. Sound(c.net)
      BY <1>2 DEF Valid
    <3> DEFINE r == c.net
    <3>5. /\ Sound(r) /\ r.lastId = n.lastId + 1 /\ r.ready \in {n.ready, v.id}
          /\ Owned(r) = Owned(n) \cup {v} /\ ToSet(r.waiting) \subseteq ToSet(n.waiting) \cup {v}
          /\ v.id = n.lastId /\ n.lastId \in VehIds
      BY <2>1, <3>2, <3>3, <3>4 DEF id
    <3> HIDE DEF r
    <3>6. Life(r, AddVehicule(D, n.lastId, t))
      BY <1>1, <3>5, CreationLife
    <3> QED
      BY <3>6 DEF r, id
  <2> QED
    BY <1>2, <2>4, <2>5, GrownBy
<1> QED
  BY <1>3, <1>4 DEF Created

(* The entry of the ready vehicle makes the output grow.                   *)
LEMMA EnteredGrown ==
  ASSUME NEW b \in Docs, NEW w, Fit(b, w), w.net.ready # None
  PROVE  Grown(b, w, ReadyEntered(w))
<1> DEFINE n == w.net
           d == w.doc
           id == n.ready
           t == n.inst
           D == Add(b, d)
           x == ReadyEntered(w)
<1>1. /\ Sound(n) /\ n \in Nets /\ d \in Docs /\ D \in Docs
      /\ Life(n, D) /\ Compatible(b, d) /\ t \in 1 .. Never /\ t \in 0 .. Never /\ Valid(w)
  BY FitFacts
<1>2. Valid(x) /\ x.net.inst = t
  BY <1>1, EnteredValid
<1>3. /\ id \in VehIds /\ \E v \in n.vehs : v.id = id
      /\ \A v \in Owned(n) : v.id < n.lastId
  BY <1>1, SoundIds
<1>4. id < n.lastId
  BY <1>3 DEF Owned
<1>5. NodeOf(D, id).entered = Unset
  BY <1>1 DEF Life
<1>6. x.doc = UpdateInstEntreeVehicule(d, id, t)
  BY <1>1, Writings
<1>7. /\ x.net.lastId = n.lastId /\ x.net.vehs = n.vehs /\ x.net.waiting = n.waiting
      /\ x.net.ready = None
  BY <1>1, MovedNets
<1>8. \A u \in ToSet(n.waiting) : u.id # id
  BY <1>1, <1>3 DEF Sound, Numbered, Owned
<1> HIDE DEF n, d, id, t, x
<1>9. /\ Compatible(b, x.doc) /\ History!DocGrows(D, Add(b, x.doc))
      /\ Add(b, x.doc) = UpdateInstEntreeVehicule(D, id, t)
  <2>1. LET e == UpdateInstEntreeVehicule(d, id, t)
        IN  /\ Compatible(b, e) /\ History!DocGrows(Add(b, d), Add(b, e))
            /\ Add(b, e) = UpdateInstEntreeVehicule(Add(b, d), id, t)
    BY <1>1, <1>3, <1>5, EntryWritten
  <2> QED
    BY <1>6, <2>1
<1>10. Life(x.net, UpdateInstEntreeVehicule(D, id, t))
  <2> HIDE DEF D
  <2> DEFINE r == x.net
  <2>1. /\ r.lastId = n.lastId /\ Owned(r) = Owned(n) /\ ToSet(r.waiting) \subseteq ToSet(n.waiting)
        /\ r.ready \in {n.ready, None} /\ \A u \in ToSet(r.waiting) : u.id # id
        /\ (r.ready # None => r.ready # id)
    BY <1>7, <1>8 DEF Owned
  <2> HIDE DEF r
  <2>2. Life(r, UpdateInstEntreeVehicule(D, id, t))
    BY <1>1, <1>3, <1>4, <2>1, EntryLife
  <2> QED
    BY <2>2 DEF r
<1> QED
  BY <1>2, <1>9, <1>10, GrownBy DEF x, n, t, d

(* The entry of the first of a queue makes the output grow.                *)
LEMMA FirstGrown ==
  ASSUME NEW b \in Docs, NEW w, Fit(b, w), w.net.ready = None, w.net.waiting # <<>>
  PROVE  Grown(b, w, FirstInserted(w))
<1> DEFINE n == w.net
           d == w.doc
           v == Head(n.waiting)
           id == v.id
           t == n.inst
           D == Add(b, d)
           x == FirstInserted(w)
<1>1. /\ Sound(n) /\ n \in Nets /\ n.waiting \in Seq(Objects) /\ d \in Docs /\ D \in Docs
      /\ Life(n, D) /\ Compatible(b, d) /\ t \in 1 .. Never /\ t \in 0 .. Never /\ Valid(w)
      /\ n.waiting # <<>> /\ n.ready = None
  BY FitFacts
<1>2. Valid(x) /\ x.net.inst = t
  BY <1>1, FirstValid
<1>3. v \in ToSet(n.waiting) /\ id \in VehIds /\ id < n.lastId
  BY <1>1, SoundIds DEF Owned
<1>5. NodeOf(D, id).entered = Unset
  BY <1>1, <1>3 DEF Life
<1>6. x.doc = UpdateInstEntreeVehicule(d, id, t)
  BY <1>1, Writings
<1>7. /\ x.net.lastId = n.lastId /\ x.net.vehs = n.vehs \cup {v}
      /\ x.net.waiting = Tail(n.waiting) /\ x.net.ready = None
  BY <1>1, MovedNets
<1>8. ToSet(n.waiting) = {v} \cup ToSet(Tail(n.waiting))
  <2> DEFINE s == n.waiting
  <2>1. s \in Seq(Objects) /\ s # <<>>
    BY <1>1
  <2> HIDE DEF s
  <2>2. s[1] \in Objects
    BY <2>1
  <2>3. ToSet(s) = {Head(s)} \cup ToSet(Tail(s))
    BY <2>1, <2>2, ToSetFacts
  <2> QED
    BY <2>3 DEF s
<1>9. \A u \in ToSet(Tail(n.waiting)) : u.id # id
  <2>1. /\ Sound(x.net) /\ Numbered(x.net)
    BY <1>2 DEF Valid, Sound
  <2>2. v \in x.net.vehs /\ \A u \in ToSet(Tail(n.waiting)) : u \in ToSet(x.net.waiting)
    BY <1>7
  <2> QED
    BY <2>1, <2>2 DEF Numbered, Owned
<1> HIDE DEF n, d, id, v, t, x
<1>10. /\ Compatible(b, x.doc) /\ History!DocGrows(D, Add(b, x.doc))
       /\ Add(b, x.doc) = UpdateInstEntreeVehicule(D, id, t)
  <2>1. LET e == UpdateInstEntreeVehicule(d, id, t)
        IN  /\ Compatible(b, e) /\ History!DocGrows(Add(b, d), Add(b, e))
            /\ Add(b, e) = UpdateInstEntreeVehicule(Add(b, d), id, t)
    BY <1>1, <1>3, <1>5, EntryWritten
  <2> QED
    BY <1>6, <2>1
<1>11. Life(x.net, UpdateInstEntreeVehicule(D, id, t))
  <2> HIDE DEF D
  <2> DEFINE r == x.net
  <2>1. /\ r.lastId = n.lastId /\ Owned(r) = Owned(n) /\ ToSet(r.waiting) \subseteq ToSet(n.waiting)
        /\ r.ready \in {n.ready, None} /\ \A u \in ToSet(r.waiting) : u.id # id
        /\ (r.ready # None => r.ready # id)
    BY <1>7, <1>8, <1>9 DEF Owned
  <2> HIDE DEF r
  <2>2. Life(r, UpdateInstEntreeVehicule(D, id, t))
    BY <1>1, <1>3, <2>1, EntryLife
  <2> QED
    BY <2>2 DEF r
<1> QED
  BY <1>2, <1>10, <1>11, GrownBy DEF x, n, t, d

(* The entries of a step make the output grow.                             *)
LEMMA InsertedGrown ==
  ASSUME NEW b \in Docs, NEW w, Fit(b, w), NEW e \in Inserted(w)
  PROVE  Grown(b, w, e)
<1>1. CASE e = w
  BY <1>1, GrownSame
<1>2. ASSUME w.net.ready # None
      PROVE  /\ Grown(b, w, ReadyEntered(w)) /\ Fit(b, ReadyEntered(w))
             /\ ReadyEntered(w).net.ready = None
  <2>1. Grown(b, w, ReadyEntered(w)) /\ w.net \in Nets
    BY <1>2, EnteredGrown, FitFacts
  <2> QED
    BY <2>1, MovedNets DEF Grown
<1>3. CASE w.net.ready # None /\ e = ReadyEntered(w)
  BY <1>2, <1>3
<1>4. CASE w.net.ready = None /\ w.net.waiting # <<>> /\ e = FirstInserted(w)
  BY <1>4, FirstGrown
<1>5. CASE /\ w.net.ready # None /\ ReadyEntered(w).net.waiting # <<>>
           /\ e = FirstInserted(ReadyEntered(w))
  <2> DEFINE x == ReadyEntered(w)
  <2>1. /\ Grown(b, w, x) /\ Fit(b, x) /\ x.net.ready = None /\ x.net.waiting # <<>>
        /\ e = FirstInserted(x)
    BY <1>2, <1>5
  <2> HIDE DEF x
  <2>2. Grown(b, x, e)
    BY <2>1, FirstGrown
  <2> QED
    BY <2>1, <2>2, GrownThen
<1> QED
  BY <1>1, <1>3, <1>4, <1>5, InsertedCases

(* An exit makes the output grow.                                          *)
LEMMA LeftGrown ==
  ASSUME NEW b \in Docs, NEW w, Fit(b, w), NEW v \in w.net.vehs, v.id # w.net.ready
  PROVE  Grown(b, w, Left(w, v))
<1> DEFINE n == w.net
           d == w.doc
           id == v.id
           t == n.inst
           D == Add(b, d)
           x == Left(w, v)
<1>1. /\ Sound(n) /\ n \in Nets /\ d \in Docs /\ D \in Docs
      /\ Life(n, D) /\ Compatible(b, d) /\ t \in 1 .. Never /\ t \in 0 .. Never /\ Valid(w)
      /\ v \in n.vehs
  BY FitFacts
<1>2. Valid(x) /\ x.net.inst = t
  BY <1>1, LeftValid
<1>3. v \in Owned(n) /\ id \in VehIds /\ id < n.lastId
  BY <1>1, SoundIds DEF Owned
<1>5. NodeOf(D, id).left = Unset
  BY <1>1, <1>3 DEF Life
<1>6. x.doc = UpdateInstSortieVehicule(d, id, t)
  BY <1>1, Writings
<1>7. /\ x.net.lastId = n.lastId /\ x.net.vehs = n.vehs \ {v}
      /\ x.net.waiting = n.waiting /\ x.net.ready = n.ready
  BY <1>1, MovedNets
<1>8. \A u \in (n.vehs \ {v}) \cup ToSet(n.waiting) : u.id # id
  BY <1>1, <1>3 DEF Sound, Numbered, Owned
<1> HIDE DEF n, d, id, t, x
<1>10. /\ Compatible(b, x.doc) /\ History!DocGrows(D, Add(b, x.doc))
       /\ Add(b, x.doc) = UpdateInstSortieVehicule(D, id, t)
  <2>1. LET e == UpdateInstSortieVehicule(d, id, t)
        IN  /\ Compatible(b, e) /\ History!DocGrows(Add(b, d), Add(b, e))
            /\ Add(b, e) = UpdateInstSortieVehicule(Add(b, d), id, t)
    BY <1>1, <1>3, <1>5, ExitWritten
  <2> QED
    BY <1>6, <2>1
<1>11. Life(x.net, UpdateInstSortieVehicule(D, id, t))
  <2> HIDE DEF D
  <2> DEFINE r == x.net
  <2>1. /\ r.lastId = n.lastId /\ Owned(r) \subseteq Owned(n) /\ r.waiting = n.waiting
        /\ r.ready = n.ready /\ \A u \in Owned(r) : u.id # id
    BY <1>7, <1>8 DEF Owned
  <2> HIDE DEF r
  <2>2. Life(r, UpdateInstSortieVehicule(D, id, t))
    BY <1>1, <1>3, <2>1, ExitLife
  <2> QED
    BY <2>2 DEF r
<1> QED
  BY <1>2, <1>10, <1>11, GrownBy DEF x, n, t, d

(* The exits of a step make the output grow.                               *)
LEMMA DepartedGrown ==
  ASSUME NEW b \in Docs, NEW w, Fit(b, w), NEW x \in Departed(w)
  PROVE  Grown(b, w, x)
<1>1. x = w \/ \E v \in w.net.vehs : v.id # w.net.ready /\ x = Left(w, v)
  BY DEF Departed
<1> QED
  BY <1>1, GrownSame, LeftGrown

(* The start of a step: the clock, and the instant that is written.          *)
LEMMA StartGrown ==
  ASSUME NEW n, Sound(n), n.inst < LastStep, NEW b \in Docs, NEW d \in Docs,
         Life(n, Add(b, d)), Compatible(b, d)
  PROVE  /\ Fit(b, StartOf(n, d))
         /\ History!DocGrows(Add(b, d), Add(b, StartOf(n, d).doc))
<1> DEFINE t == n.inst + 1
           x == StartOf(n, d)
<1>1. /\ Valid(x) /\ x.doc = AddInstant(d, t) /\ x.net.inst = t /\ t \in Instants
      /\ x.net.lastId = n.lastId /\ x.net.vehs = n.vehs /\ x.net.waiting = n.waiting
      /\ x.net.ready = n.ready
  BY StartValid
<1>2. Add(b, d) \in Docs
  BY AddType
<1> HIDE DEF t, x
<1>3. Add(b, x.doc) = AddInstant(Add(b, d), t)
  BY <1>1, AddInstants
<1> DEFINE D == Add(b, d)
<1>4. History!DocGrows(D, AddInstant(D, t)) /\ AddInstant(D, t).vehs = D.vehs
  <2>1. D \in Docs
    BY <1>2
  <2> HIDE DEF D
  <2> QED
    BY <1>1, <2>1, InstantGrows DEF AddInstant, Docs
<1>5. Compatible(b, x.doc)
  <2>1. x.doc.vehs = d.vehs
    BY <1>1 DEF AddInstant, Docs
  <2> QED
    BY <2>1 DEF Compatible
<1>6. Life(x.net, AddInstant(D, t))
  <2> DEFINE E == AddInstant(D, t)
  <2>1. E.vehs = D.vehs /\ Life(n, D)
    BY <1>4
  <2> HIDE DEF D, E
  <2>2. \A j : NodeOf(E, j) = NodeOf(D, j)
    BY <2>1 DEF NodeOf
  <2>3. Owned(x.net) = Owned(n)
    BY <1>1 DEF Owned
  <2>4. Life(x.net, E)
    BY <1>1, <2>1, <2>2, <2>3 DEF Life
  <2> QED
    BY <2>4 DEF E
<1> QED
  BY <1>1, <1>3, <1>4, <1>5, <1>6 DEF Fit, x

(***************************************************************************)
(* The whole: what the final files would hold if the snapshots up to one    *)
(* were committed.                                                          *)
(***************************************************************************)
WholeOf(files, list, n) == Commit(files, SubSeq(list, 1, n)).doc
RowsOf(files, list, n)  == Commit(files, SubSeq(list, 1, n)).rows

WholeFiles(files, list, n) ==
  [doc |-> WholeOf(files, list, n), rows |-> RowsOf(files, list, n)]

(* The documents are in line with the network at each mark, with what was     *)
(* written before it, and now.                                               *)
LifeOf(n, files, list) ==
  /\ Life(n, WholeOf(files, list, Len(list)))
  /\ \A i \in DOMAIN list :
       /\ Life(list[i].saved, WholeOf(files, list, i - 1))
       /\ Compatible(WholeOf(files, list, i - 1), list[i].doc)

LifeInv == LifeOf(net, out, snapshots)

(* The whole output is a document and rows.                                *)
LEMMA WholeIs ==
  ASSUME NEW files \in Files, NEW list \in Seq(Snaps), NEW n \in 0 .. Len(list)
  PROVE  Commit(files, SubSeq(list, 1, n)) = WholeFiles(files, list, n)
BY CommitPrefixType, FileFields DEF WholeFiles, WholeOf, RowsOf

(* The whole output is the files and the snapshots added in order.         *)
LEMMA WholeFacts ==
  ASSUME NEW files \in Files, NEW list \in Seq(Snaps)
  PROVE  /\ WholeOf(files, list, 0) = files.doc
         /\ \A n \in 0 .. Len(list) : WholeOf(files, list, n) \in Docs
         /\ \A n \in 0 .. Len(list) - 1 :
              WholeOf(files, list, n + 1) = Add(WholeOf(files, list, n), list[n + 1].doc)
         /\ WholeOf(files, list, Len(list)) = Commit(files, list).doc
<1>1. SubSeq(list, 1, 0) = <<>> /\ SubSeq(list, 1, Len(list)) = list
  BY SubSeqEmpty, SubSeqFull
<1>2. \A n \in 0 .. Len(list) : WholeOf(files, list, n) \in Docs
  BY CommitPrefixType, FileFields DEF WholeOf
<1>3. ASSUME NEW n \in 0 .. Len(list) - 1
      PROVE  WholeOf(files, list, n + 1) = Add(WholeOf(files, list, n), list[n + 1].doc)
  <2>1. Commit(files, SubSeq(list, 1, n + 1)) =
          Validated(Commit(files, SubSeq(list, 1, n)), list[n + 1])
    <3>1. n \in Nat /\ n < Len(list)
      OBVIOUS
    <3> QED
      BY <3>1, CommitOneMore
  <2> QED
    BY <2>1 DEF WholeOf, Validated
<1>4. WholeOf(files, list, 0) = files.doc
  BY <1>1, CommitNone DEF WholeOf
<1>5. WholeOf(files, list, Len(list)) = Commit(files, list).doc
  BY <1>1 DEF WholeOf
<1> QED
  BY <1>2, <1>3, <1>4, <1>5

(* The whole up to n depends on the final files and on the n first documents. *)
LEMMA WholeAgrees ==
  ASSUME NEW f \in Files, NEW g \in Files, NEW k \in Seq(Snaps), NEW l \in Seq(Snaps),
         NEW n \in Nat, n <= Len(k), n <= Len(l), f.doc = g.doc,
         \A i \in 1 .. n : k[i].doc = l[i].doc
  PROVE  \A i \in 0 .. n : WholeOf(f, k, i) = WholeOf(g, l, i)
<1> DEFINE N == {i \in Nat : i <= n => WholeOf(f, k, i) = WholeOf(g, l, i)}
<1>1. 0 \in N
  BY WholeFacts
<1>2. ASSUME NEW i \in N PROVE i + 1 \in N
  <2> SUFFICES ASSUME i + 1 <= n PROVE WholeOf(f, k, i + 1) = WholeOf(g, l, i + 1)
    OBVIOUS
  <2>1. WholeOf(f, k, i + 1) = Add(WholeOf(f, k, i), k[i + 1].doc)
    <3>1. i \in 0 .. Len(k) - 1
      OBVIOUS
    <3> HIDE DEF N
    <3> QED
      BY <3>1, WholeFacts
  <2>2. WholeOf(g, l, i + 1) = Add(WholeOf(g, l, i), l[i + 1].doc)
    <3>1. i \in 0 .. Len(l) - 1
      OBVIOUS
    <3> HIDE DEF N
    <3> QED
      BY <3>1, WholeFacts
  <2> QED
    BY <2>1, <2>2
<1> HIDE DEF N
<1>3. N \in SUBSET Nat
  BY DEF N
<1>4. N = Nat
  BY <1>1, <1>2, <1>3, EveryNatural
<1> QED
  BY <1>4 DEF N

(* The rows of the whole are those of the files and of the snapshots, as far  *)
(* as converge finds them.                                                   *)
LEMMA RowsFacts ==
  ASSUME NEW files \in Files, NEW list \in Seq(Snaps)
  PROVE  /\ RowsOf(files, list, 0) = files.rows
         /\ \A n \in 0 .. Len(list) : RowsOf(files, list, n) \in Seq(Instants)
         /\ \A n \in 0 .. Len(list) - 1 :
              RowsOf(files, list, n + 1) = Converged(RowsOf(files, list, n), list[n + 1])
         /\ RowsOf(files, list, Len(list)) = Commit(files, list).rows
<1>1. SubSeq(list, 1, 0) = <<>> /\ SubSeq(list, 1, Len(list)) = list
  BY SubSeqEmpty, SubSeqFull
<1>2. \A n \in 0 .. Len(list) : RowsOf(files, list, n) \in Seq(Instants)
  BY CommitPrefixType, FileFields DEF RowsOf
<1>3. ASSUME NEW n \in 0 .. Len(list) - 1
      PROVE  RowsOf(files, list, n + 1) = Converged(RowsOf(files, list, n), list[n + 1])
  <2>1. n \in Nat /\ n < Len(list)
    OBVIOUS
  <2>2. Commit(files, SubSeq(list, 1, n + 1)) =
          Validated(Commit(files, SubSeq(list, 1, n)), list[n + 1])
    BY <2>1, CommitOneMore
  <2> QED
    BY <2>2 DEF RowsOf, Validated
<1>4. RowsOf(files, list, 0) = files.rows
  BY <1>1, CommitNone DEF RowsOf
<1>5. RowsOf(files, list, Len(list)) = Commit(files, list).rows
  BY <1>1 DEF RowsOf
<1> QED
  BY <1>2, <1>3, <1>4, <1>5

(* The rows up to n depend on the final files and on the n first snapshots.   *)
LEMMA RowsAgree ==
  ASSUME NEW f \in Files, NEW g \in Files, NEW k \in Seq(Snaps), NEW l \in Seq(Snaps),
         NEW n \in Nat, n <= Len(k), n <= Len(l), f.rows = g.rows,
         \A i \in 1 .. n : k[i].rows = l[i].rows /\ k[i].file = l[i].file
  PROVE  \A i \in 0 .. n : RowsOf(f, k, i) = RowsOf(g, l, i)
<1> DEFINE N == {i \in Nat : i <= n => RowsOf(f, k, i) = RowsOf(g, l, i)}
<1>1. 0 \in N
  BY RowsFacts
<1>2. ASSUME NEW i \in N PROVE i + 1 \in N
  <2> SUFFICES ASSUME i + 1 <= n PROVE RowsOf(f, k, i + 1) = RowsOf(g, l, i + 1)
    OBVIOUS
  <2>1. RowsOf(f, k, i) = RowsOf(g, l, i) /\ i \in Nat /\ i + 1 \in 1 .. n
    OBVIOUS
  <2> HIDE DEF N
  <2>2. RowsOf(f, k, i + 1) = Converged(RowsOf(f, k, i), k[i + 1])
    <3>1. i \in 0 .. Len(k) - 1
      BY <2>1
    <3> QED
      BY <3>1, RowsFacts
  <2>3. RowsOf(g, l, i + 1) = Converged(RowsOf(g, l, i), l[i + 1])
    <3>1. i \in 0 .. Len(l) - 1
      BY <2>1
    <3> QED
      BY <3>1, RowsFacts
  <2>4. k[i + 1].rows = l[i + 1].rows /\ k[i + 1].file = l[i + 1].file
    BY <2>1
  <2> QED
    BY <2>1, <2>2, <2>3, <2>4 DEF Converged
<1> HIDE DEF N
<1>3. N \in SUBSET Nat
  BY DEF N
<1>4. N = Nat
  BY <1>1, <1>2, <1>3, EveryNatural
<1> QED
  BY <1>4 DEF N

(* A snapshot without rows adds none.                                      *)
LEMMA ConvergedNone ==
  ASSUME NEW rows \in Seq(Instants), NEW s, s.rows = <<>>
  PROVE  Converged(rows, s) = rows
BY DEF Converged

(* Nothing is added to or by an empty document.                              *)
LEMMA AddEmpty ==
  ASSUME NEW d \in Docs
  PROVE  Add(d, EmptyDoc) = d /\ Add(EmptyDoc, d) = d
<1>1. EmptyDoc \in Docs /\ EmptyDoc.insts = <<>> /\ DOMAIN EmptyDoc.vehs = {}
  BY EmptyDocType DEF EmptyDoc
<1>2. d.insts \in Seq(Instants)
  BY DocFields
<1>3. d.insts \o <<>> = d.insts /\ <<>> \o d.insts = d.insts
  <2> DEFINE s == d.insts
  <2>1. s \in Seq(Instants)
    BY <1>2
  <2> HIDE DEF s
  <2>2. s \o <<>> = s /\ <<>> \o s = s
    BY <2>1, ConcatEmptySeq
  <2> QED
    BY <2>2 DEF s
<1> DEFINE E == EmptyDoc
           x == Add(d, E)
           y == Add(E, d)
<1>e. E \in Docs /\ E.insts = <<>> /\ DOMAIN E.vehs = {}
  BY <1>1
<1> HIDE DEF E
<1>4. x \in Docs /\ y \in Docs
  BY <1>e, AddType
<1>5. /\ x.insts = d.insts \o E.insts
      /\ DOMAIN x.vehs = DOMAIN d.vehs \cup DOMAIN E.vehs
      /\ \A j \in DOMAIN x.vehs : x.vehs[j] =
              IF j \in DOMAIN d.vehs THEN MergedNode(d.vehs[j], NodeOf(E, j)) ELSE E.vehs[j]
  BY <1>e, AddFields
<1>6. /\ y.insts = E.insts \o d.insts
      /\ DOMAIN y.vehs = DOMAIN E.vehs \cup DOMAIN d.vehs
      /\ \A j \in DOMAIN y.vehs : y.vehs[j] =
              IF j \in DOMAIN E.vehs THEN MergedNode(E.vehs[j], NodeOf(d, j)) ELSE d.vehs[j]
  BY <1>e, AddFields
<1> HIDE DEF x, y
<1>7. \A a \in Nodes : MergedNode(a, Node(Unset)) = a
  BY DEF MergedNode, Updated, Node, Nodes
<1>8. x = d
  <2>1. \A j \in DOMAIN x.vehs : x.vehs[j] = d.vehs[j]
    BY <1>e, <1>5, <1>7, DocFields DEF NodeOf
  <2> QED
    BY <1>e, <1>3, <1>4, <1>5, <2>1, DocEqual
<1>9. y = d
  <2>1. \A j \in DOMAIN y.vehs : y.vehs[j] = d.vehs[j]
    BY <1>e, <1>6
  <2> QED
    BY <1>e, <1>3, <1>4, <1>6, <2>1, DocEqual
<1> QED
  BY <1>8, <1>9 DEF x, y, E

(***************************************************************************)
(* What each operation does to the whole and to the marks.                 *)
(***************************************************************************)
PresentOf(n, files, list) ==
  [network |-> State(n), output |-> WholeFiles(files, list, Len(list))]

MarksOf(files, list) ==
  [i \in DOMAIN list |->
     [network |-> State(list[i].saved), output |-> WholeFiles(files, list, i - 1)]]

(* What is written before the open document, and that document.              *)
Base(files, list) == IF list = <<>> THEN EmptyDoc ELSE WholeOf(files, list, Len(list) - 1)
Open(files, list) == IF list = <<>> THEN files.doc ELSE list[Len(list)].doc

(* The whole output is a closed part and the document being written.       *)
LEMMA OpenWhole ==
  ASSUME NEW files \in Files, NEW list \in Seq(Snaps)
  PROVE  /\ Base(files, list) \in Docs /\ Open(files, list) \in Docs
         /\ WholeOf(files, list, Len(list)) = Add(Base(files, list), Open(files, list))
         /\ \A n : LifeOf(n, files, list) =>
              Compatible(Base(files, list), Open(files, list))
<1>1. CASE list = <<>>
  <2>1. Base(files, list) = EmptyDoc /\ Open(files, list) = files.doc /\ Len(list) = 0
    BY <1>1 DEF Base, Open
  <2>2. files.doc \in Docs /\ EmptyDoc \in Docs
    BY FileFields, EmptyDocType
  <2>3. Add(EmptyDoc, files.doc) = files.doc
    BY <2>2, AddEmpty
  <2>4. WholeOf(files, list, 0) = files.doc
    BY WholeFacts
  <2>5. \A d : Compatible(EmptyDoc, d)
    BY DEF Compatible, NodeOf, EmptyDoc, Node
  <2> QED
    BY <2>1, <2>2, <2>3, <2>4, <2>5
<1>2. CASE list # <<>>
  <2> DEFINE k == Len(list)
  <2>1. k \in DOMAIN list /\ k - 1 \in 0 .. Len(list) - 1 /\ k - 1 \in 0 .. Len(list) /\ (k - 1) + 1 = k
    BY <1>2
  <2>2. Base(files, list) = WholeOf(files, list, k - 1) /\ Open(files, list) = list[k].doc
    BY <1>2 DEF Base, Open
  <2>3. list[k].doc \in Docs
    BY <2>1, SnapFields
  <2>4. WholeOf(files, list, k - 1) \in Docs
    BY <2>1, WholeFacts
  <2>5. WholeOf(files, list, (k - 1) + 1) = Add(WholeOf(files, list, k - 1), list[(k - 1) + 1].doc)
    <3> DEFINE j == k - 1
    <3>1. j \in 0 .. Len(list) - 1
      BY <2>1
    <3> HIDE DEF j
    <3>2. WholeOf(files, list, j + 1) = Add(WholeOf(files, list, j), list[j + 1].doc)
      BY <3>1, WholeFacts
    <3> QED
      BY <3>2 DEF j
  <2>6. \A n : LifeOf(n, files, list) => Compatible(WholeOf(files, list, k - 1), list[k].doc)
    BY <2>1 DEF LifeOf
  <2> HIDE DEF k
  <2> QED
    BY <2>1, <2>2, <2>3, <2>4, <2>5, <2>6 DEF k
<1> QED
  BY <1>1, <1>2

(* Rows that a step writes come after the others; those of the marks stay.    *)
LEMMA WrittenRows ==
  ASSUME out \in Files, snapshots \in Seq(Snaps), NEW d \in Docs, NEW rows \in Seq(Instants),
         Written(d, rows)
  PROVE  /\ \A i \in DOMAIN snapshots :
              RowsOf(out', snapshots', i - 1) = RowsOf(out, snapshots, i - 1)
         /\ IsPrefix(RowsOf(out, snapshots, Len(snapshots)),
                     RowsOf(out', snapshots', Len(snapshots')))
<1> DEFINE k == Len(snapshots)
           g == out'
           t == snapshots'
<1>1. /\ g \in Files /\ t \in Seq(Snaps) /\ Len(t) = k
      /\ \A i \in DOMAIN snapshots : t[i].file = snapshots[i].file
      /\ \A i \in DOMAIN snapshots : t[i].rows =
            IF i = k THEN snapshots[i].rows \o rows ELSE snapshots[i].rows
      /\ snapshots = <<>> => g.rows = out.rows \o rows
      /\ snapshots # <<>> => g = out
  BY WrittenFields
<1>2. DOMAIN snapshots = 1 .. k /\ k \in Nat /\ (snapshots = <<>> <=> k = 0) /\ k = Len(snapshots)
  OBVIOUS
<1> SUFFICES /\ \A i \in 1 .. k : RowsOf(g, t, i - 1) = RowsOf(out, snapshots, i - 1)
             /\ IsPrefix(RowsOf(out, snapshots, k), RowsOf(g, t, k))
  BY <1>1, <1>2
<1> HIDE DEF k, g, t
<1>3. CASE k = 0
  <2>1. RowsOf(out, snapshots, 0) = out.rows /\ RowsOf(g, t, 0) = out.rows \o rows
    BY <1>1, <1>2, <1>3, RowsFacts
  <2>2. out.rows \in Seq(Instants)
    BY FileFields
  <2>3. IsPrefix(out.rows, out.rows \o rows)
    BY <2>2, PrefixFacts
  <2>4. IsPrefix(RowsOf(out, snapshots, 0), RowsOf(g, t, 0))
    BY <2>1, <2>3, Zenon
  <2>5. 1 .. 0 = {}
    OBVIOUS
  <2> QED
    BY <1>3, <2>4, <2>5, Zenon
<1>4. CASE k # 0
  <2> DEFINE n == k - 1
  <2>1. /\ n \in Nat /\ n + 1 = k /\ n <= Len(snapshots) /\ n <= Len(t) /\ g = out
        /\ n \in 0 .. Len(snapshots) - 1 /\ n \in 0 .. Len(t) - 1
        /\ n \in 0 .. Len(snapshots) /\ n \in 0 .. n /\ k \in DOMAIN snapshots
    BY <1>1, <1>2, <1>4
  <2>2. \A i \in 1 .. n : t[i].rows = snapshots[i].rows /\ t[i].file = snapshots[i].file
    <3>0. \A i \in 1 .. n : i \in 1 .. k /\ i # k
      BY <2>1
    <3> HIDE DEF n
    <3>1. \A i \in 1 .. n : i \in DOMAIN snapshots /\ i # k
      BY <1>2, <3>0
    <3> QED
      BY <1>1, <3>1
  <2>3. \A i \in 1 .. k : i - 1 \in 0 .. n
    BY <1>2
  <2> HIDE DEF n
  <2>4. \A i \in 0 .. n : RowsOf(out, t, i) = RowsOf(out, snapshots, i)
    BY <1>1, <2>1, <2>2, RowsAgree
  <2> DEFINE a == RowsOf(out, snapshots, n)
             b == snapshots[k].rows
  <2>5. /\ a \in Seq(Instants) /\ b \in Seq(Instants)
        /\ t[k].rows = b \o rows /\ t[k].file = snapshots[k].file
    BY <1>1, <2>1, RowsFacts, SnapFields
  <2>6. RowsOf(out, snapshots, n + 1) = Converged(a, snapshots[n + 1])
    BY <2>1, RowsFacts
  <2>7. RowsOf(out, t, n + 1) = Converged(RowsOf(out, t, n), t[n + 1])
    BY <1>1, <2>1, RowsFacts
  <2>8. RowsOf(out, t, n) = a
    BY <2>1, <2>4
  <2> HIDE DEF a
  <2>9. IsPrefix(RowsOf(out, snapshots, k), RowsOf(out, t, k))
    <3>1. CASE snapshots[k].file = 0
      <4>1. RowsOf(out, snapshots, k) = a \o b /\ RowsOf(out, t, k) = a \o (b \o rows)
        BY <2>1, <2>5, <2>6, <2>7, <2>8, <3>1 DEF Converged
      <4> HIDE DEF b
      <4>2. a \o (b \o rows) = (a \o b) \o rows
        BY <2>5, ConcatAssociative, SMTT(30)
      <4>3. a \o b \in Seq(Instants)
        BY <2>5, ConcatProperties, SMTT(30)
      <4>4. IsPrefix(a \o b, (a \o b) \o rows)
        BY <4>3, PrefixFacts
      <4> QED
        BY <4>1, <4>2, <4>4
    <3>2. CASE snapshots[k].file # 0
      <4>1. RowsOf(out, snapshots, k) = a /\ RowsOf(out, t, k) = a
        BY <2>1, <2>5, <2>6, <2>7, <2>8, <3>2 DEF Converged
      <4> QED
        BY <2>5, <4>1, PrefixFacts
    <3> QED
      BY <3>1, <3>2
  <2> QED
    BY <2>1, <2>3, <2>4, <2>9
<1> QED
  BY <1>3, <1>4

(* A step writes in the open document only: the marks stay.                  *)
LEMMA WrittenWhole ==
  ASSUME out \in Files, snapshots \in Seq(Snaps), NEW d \in Docs, NEW rows \in Seq(Instants),
         Written(d, rows)
  PROVE  /\ WholeOf(out', snapshots', Len(snapshots')) = Add(Base(out, snapshots), d)
         /\ MarksOf(out', snapshots') = MarksOf(out, snapshots)
         /\ \A n, m : /\ LifeOf(n, out, snapshots)
                      /\ Life(m, Add(Base(out, snapshots), d)) /\ Compatible(Base(out, snapshots), d)
                      => LifeOf(m, out', snapshots')
<1> DEFINE k == Len(snapshots)
<1>1. /\ out' \in Files /\ snapshots' \in Seq(Snaps)
      /\ Len(snapshots') = k /\ DOMAIN snapshots' = DOMAIN snapshots
      /\ \A i \in DOMAIN snapshots : snapshots'[i].saved = snapshots[i].saved
      /\ \A i \in DOMAIN snapshots : snapshots'[i].doc = IF i = k THEN d ELSE snapshots[i].doc
      /\ snapshots = <<>> => out'.doc = d
      /\ snapshots # <<>> => out' = out
  BY WrittenFields
<1>2. DOMAIN snapshots = 1 .. k /\ k \in Nat /\ (snapshots = <<>> <=> k = 0)
  OBVIOUS
<1> HIDE DEF k
<1>3. \A i \in DOMAIN snapshots : WholeOf(out', snapshots', i - 1) = WholeOf(out, snapshots, i - 1)
  <2>1. CASE k = 0
    BY <1>2, <2>1
  <2>2. CASE k > 0
    <3> DEFINE n == k - 1
               f == out
               g == out'
               s == snapshots
               t == snapshots'
    <3>1. /\ n \in Nat /\ n <= Len(s) /\ n <= Len(t) /\ f.doc = g.doc
          /\ \A i \in 1 .. n : s[i].doc = t[i].doc
          /\ f \in Files /\ g \in Files /\ s \in Seq(Snaps) /\ t \in Seq(Snaps)
      <4>1. k > 0 /\ snapshots # <<>> /\ out' = out /\ Len(snapshots) = k
        BY <1>1, <1>2, <2>2 DEF k
      <4>2. \A i \in 1 .. n : i \in DOMAIN snapshots /\ i # k
        BY <1>2, <4>1
      <4> QED
        BY <1>1, <1>2, <4>1, <4>2
    <3> HIDE DEF f, g, s, t, n
    <3>2. \A i \in 0 .. n : WholeOf(f, s, i) = WholeOf(g, t, i)
      BY <3>1, WholeAgrees
    <3>3. \A i \in DOMAIN snapshots : i - 1 \in 0 .. n
      BY <1>2, <2>2 DEF n
    <3> QED
      BY <3>2, <3>3 DEF f, g, s, t
  <2> QED
    BY <1>2, <2>1, <2>2
<1>4. Base(out', snapshots') = Base(out, snapshots) /\ Open(out', snapshots') = d
  <2>1. CASE snapshots = <<>>
    <3>1. snapshots' = <<>>
      BY <1>1, <1>2, <2>1
    <3> QED
      BY <1>1, <2>1, <3>1 DEF Base, Open
  <2>2. CASE snapshots # <<>>
    <3>1. snapshots' # <<>> /\ k \in DOMAIN snapshots
      BY <1>1, <1>2, <2>2
    <3>2. snapshots'[k].doc = d
      BY <1>1, <3>1
    <3> QED
      BY <1>1, <1>3, <2>2, <3>1, <3>2 DEF Base, Open, k
  <2> QED
    BY <2>1, <2>2
<1>5. WholeOf(out', snapshots', Len(snapshots')) = Add(Base(out, snapshots), d)
  <2>1. WholeOf(out', snapshots', Len(snapshots')) =
          Add(Base(out', snapshots'), Open(out', snapshots'))
    <3> DEFINE g == out'
               t == snapshots'
    <3>1. g \in Files /\ t \in Seq(Snaps)
      BY <1>1
    <3> HIDE DEF g, t
    <3>2. WholeOf(g, t, Len(t)) = Add(Base(g, t), Open(g, t))
      BY <3>1, OpenWhole
    <3> QED
      BY <3>2 DEF g, t
  <2> QED
    BY <1>4, <2>1
<1>6. MarksOf(out', snapshots') = MarksOf(out, snapshots)
  <2>1. \A i \in DOMAIN snapshots : RowsOf(out', snapshots', i - 1) = RowsOf(out, snapshots, i - 1)
    BY WrittenRows
  <2> QED
    BY <1>1, <1>3, <2>1 DEF MarksOf, WholeFiles
<1>7. ASSUME NEW n, NEW m, LifeOf(n, out, snapshots),
             Life(m, Add(Base(out, snapshots), d)), Compatible(Base(out, snapshots), d)
      PROVE  LifeOf(m, out', snapshots')
  <2>1. Life(m, WholeOf(out', snapshots', Len(snapshots')))
    BY <1>5, <1>7
  <2>2. ASSUME NEW i \in DOMAIN snapshots'
        PROVE  /\ Life(snapshots'[i].saved, WholeOf(out', snapshots', i - 1))
               /\ Compatible(WholeOf(out', snapshots', i - 1), snapshots'[i].doc)
    <3>1. i \in DOMAIN snapshots /\ WholeOf(out', snapshots', i - 1) = WholeOf(out, snapshots, i - 1)
      BY <1>1, <1>3
    <3>2. Life(snapshots'[i].saved, WholeOf(out', snapshots', i - 1))
      BY <1>1, <1>7, <3>1 DEF LifeOf
    <3>3. CASE i = k
      <4>1. Base(out, snapshots) = WholeOf(out, snapshots, i - 1)
        BY <1>2, <3>1, <3>3 DEF Base, k
      <4>2. snapshots'[i].doc = d
        BY <1>1, <3>1, <3>3
      <4> QED
        BY <1>7, <3>1, <3>2, <4>1, <4>2
    <3>4. CASE i # k
      <4>1. snapshots'[i].doc = snapshots[i].doc
        BY <1>1, <3>1, <3>4
      <4> QED
        BY <1>7, <3>1, <3>2, <4>1 DEF LifeOf
    <3> QED
      BY <3>3, <3>4
  <2> QED
    BY <2>1, <2>2 DEF LifeOf
<1> QED
  BY <1>5, <1>6, <1>7

(* A snapshot is a mark of the present, and changes nothing to it.           *)
LEMMA TakenWhole ==
  ASSUME NEW n, Sound(n), NEW files \in Files, NEW list \in Seq(Snaps), LifeOf(n, files, list)
  PROVE  /\ MarksOf(files, Taken(n, list)) = Append(MarksOf(files, list), PresentOf(n, files, list))
         /\ PresentOf(n, files, Taken(n, list)) = PresentOf(n, files, list)
         /\ LifeOf(n, files, Taken(n, list))
<1> DEFINE s == WithTempFiles(Backup(n), Len(list))
           l == Taken(n, list)
           k == Len(list)
<1>1. Backup(n) \in Backups /\ Owned(Backup(n)) = Owned(n) /\ Backup(n).lastId = n.lastId
  BY BackupSound
<1>2. /\ s \in Snaps /\ s.saved = Backup(n) /\ s.doc = EmptyDoc /\ s.rows = <<>>
      /\ l = Append(list, s)
  BY <1>1, EmptyDocType DEF WithTempFiles, Snaps, Taken
<1> HIDE DEF s, l
<1>3. /\ l \in Seq(Snaps) /\ Len(l) = k + 1 /\ DOMAIN l = 1 .. k + 1 /\ k \in Nat
      /\ DOMAIN list = 1 .. k
      /\ \A i \in 1 .. k : l[i] = list[i]
      /\ l[k + 1] = s
  BY <1>2
<1>k. k = Len(list)
  OBVIOUS
<1> HIDE DEF k
<1>4. \A i \in 0 .. k : WholeOf(files, l, i) = WholeOf(files, list, i)
  <2>1. /\ k <= Len(l) /\ k <= Len(list) /\ \A i \in 1 .. k : l[i].doc = list[i].doc
    BY <1>3, <1>k
  <2> QED
    BY <1>3, <2>1, WholeAgrees
<1>5. WholeOf(files, l, k + 1) = WholeOf(files, list, k)
  <2>1. k \in 0 .. Len(l) - 1 /\ k \in 0 .. Len(list) /\ k \in 0 .. k
    BY <1>3, <1>k
  <2>2. WholeOf(files, l, k + 1) = Add(WholeOf(files, l, k), l[k + 1].doc)
    BY <1>3, <2>1, WholeFacts
  <2>3. WholeOf(files, list, k) \in Docs
    BY <2>1, WholeFacts
  <2>4. Add(WholeOf(files, list, k), EmptyDoc) = WholeOf(files, list, k)
    BY <2>3, AddEmpty
  <2> QED
    BY <1>2, <1>3, <1>4, <2>1, <2>2, <2>4
<1>4r. \A i \in 0 .. k : RowsOf(files, l, i) = RowsOf(files, list, i)
  <2>1. /\ k <= Len(l) /\ k <= Len(list)
        /\ \A i \in 1 .. k : l[i].rows = list[i].rows /\ l[i].file = list[i].file
    BY <1>3, <1>k
  <2> QED
    BY <1>3, <2>1, RowsAgree
<1>5r. RowsOf(files, l, k + 1) = RowsOf(files, list, k)
  <2>1. k \in 0 .. Len(l) - 1 /\ k \in 0 .. Len(list) /\ k \in 0 .. k
    BY <1>3, <1>k
  <2>2. RowsOf(files, l, k + 1) = Converged(RowsOf(files, l, k), l[k + 1])
    BY <1>3, <2>1, RowsFacts
  <2>3. RowsOf(files, list, k) \in Seq(Instants)
    BY <2>1, RowsFacts
  <2>4. Converged(RowsOf(files, list, k), s) = RowsOf(files, list, k)
    BY <1>2, <2>3, ConvergedNone
  <2> QED
    BY <1>3, <1>4r, <2>1, <2>2, <2>4
<1>w. /\ \A i \in 0 .. k : WholeFiles(files, l, i) = WholeFiles(files, list, i)
      /\ WholeFiles(files, l, k + 1) = WholeFiles(files, list, k)
  BY <1>4, <1>4r, <1>5, <1>5r DEF WholeFiles
<1>6. State(Backup(n)) = State(n)
  BY DEF State, Backup
<1>7. PresentOf(n, files, l) = PresentOf(n, files, list)
  BY <1>3, <1>w, <1>k DEF PresentOf
<1>8. MarksOf(files, l) = Append(MarksOf(files, list), PresentOf(n, files, list))
  <2> DEFINE a == MarksOf(files, l)
             b == MarksOf(files, list)
             p == PresentOf(n, files, list)
  <2>1. DOMAIN a = 1 .. k + 1 /\ DOMAIN b = 1 .. k
    BY <1>3 DEF MarksOf
  <2>2. \A i \in 1 .. k : a[i] = b[i]
    <3> TAKE i \in 1 .. k
    <3>1. i \in DOMAIN l /\ i \in DOMAIN list /\ i - 1 \in 0 .. k
      BY <1>3
    <3> QED
      BY <1>3, <1>w, <3>1 DEF MarksOf
  <2>3. a[k + 1] = p
    <3>1. k + 1 \in DOMAIN l /\ (k + 1) - 1 = k /\ k \in 0 .. k
      BY <1>3
    <3> QED
      BY <1>2, <1>3, <1>w, <1>6, <1>k, <3>1 DEF MarksOf, PresentOf
  <2>4. a = [i \in 1 .. k + 1 |-> a[i]] /\ b = [i \in 1 .. k |-> b[i]]
    BY <1>3 DEF MarksOf
  <2>5. Len(b) = k
    BY <1>3, <2>4
  <2> HIDE DEF a, b, p
  <2>6. \E S : a \in Seq(S) /\ b \in Seq(S) /\ p \in S
    <3> DEFINE S == {a[i] : i \in 1 .. k + 1}
    <3>0. k + 1 \in Nat /\ k + 1 \in 1 .. k + 1 /\ \A i \in 1 .. k : i \in 1 .. k + 1
      BY <1>3
    <3>1. /\ \A i \in 1 .. k + 1 : a[i] \in S
          /\ \A i \in 1 .. k : b[i] \in S
          /\ p \in S
      BY <2>2, <2>3, <3>0
    <3> HIDE DEF S
    <3>2. a \in Seq(S) /\ b \in Seq(S) /\ p \in S
      <4>1. a \in [1 .. k + 1 -> S] /\ b \in [1 .. k -> S]
        BY <2>4, <3>1
      <4> QED
        BY <1>3, <3>0, <3>1, <4>1, SeqDef
    <3> QED
      BY <3>2
  <2>7. a = Append(b, p)
    <3>1. PICK S : a \in Seq(S) /\ b \in Seq(S) /\ p \in S
      BY <2>6
    <3>2. /\ Append(b, p) \in Seq(S) /\ Len(Append(b, p)) = k + 1 /\ Len(a) = k + 1
          /\ Append(b, p)[k + 1] = p
          /\ \A i \in 1 .. k : Append(b, p)[i] = b[i]
      BY <1>3, <2>1, <2>5, <3>1
    <3>3. \A i \in 1 .. k + 1 : a[i] = Append(b, p)[i]
      BY <1>3, <2>2, <2>3, <3>2
    <3> QED
      BY <3>1, <3>2, <3>3, SeqEqual
  <2> QED
    BY <2>7 DEF a, b, p
<1>9. LifeOf(n, files, l)
  <2>1. Life(n, WholeOf(files, list, k))
    BY <1>k DEF LifeOf
  <2>2. Life(Backup(n), WholeOf(files, list, k))
    BY <1>1, <2>1 DEF Life, Backup
  <2>3. Compatible(WholeOf(files, list, k), EmptyDoc)
    BY DEF Compatible, EmptyDoc
  <2>4. ASSUME NEW i \in DOMAIN l
        PROVE  /\ Life(l[i].saved, WholeOf(files, l, i - 1))
               /\ Compatible(WholeOf(files, l, i - 1), l[i].doc)
    <3>0. i - 1 \in 0 .. k
      BY <1>3
    <3>1. CASE i = k + 1
      <4>1. i - 1 = k
        BY <1>3, <3>1
      <4> QED
        BY <1>2, <1>3, <1>4, <2>2, <2>3, <3>0, <3>1, <4>1
    <3>2. CASE i # k + 1
      <4>1. i \in DOMAIN list /\ l[i] = list[i]
        BY <1>3, <3>2
      <4> QED
        BY <1>4, <3>0, <4>1 DEF LifeOf
    <3> QED
      BY <3>1, <3>2
  <2> QED
    BY <1>3, <1>5, <2>1, <2>4 DEF LifeOf
<1> QED
  BY <1>7, <1>8, <1>9 DEF l

(* What is added where nothing was written, only grows.                      *)
LEMMA AddGrows ==
  ASSUME NEW d \in Docs, NEW e \in Docs, Compatible(d, e)
  PROVE  History!DocGrows(d, Add(d, e))
<1> DEFINE f == Add(d, e)
<1>1. f \in Docs /\ d.insts \in Seq(Instants) /\ e.insts \in Seq(Instants)
  BY AddType, DocFields
<1>2. /\ f.insts = d.insts \o e.insts
      /\ DOMAIN f.vehs = DOMAIN d.vehs \cup DOMAIN e.vehs
      /\ \A j \in DOMAIN f.vehs : f.vehs[j] =
              IF j \in DOMAIN d.vehs THEN MergedNode(d.vehs[j], NodeOf(e, j)) ELSE e.vehs[j]
  BY AddFields
<1> HIDE DEF f
<1>3. Len(d.insts) <= Len(f.insts) /\ \A i \in 1 .. Len(d.insts) : d.insts[i] = f.insts[i]
  <2> DEFINE s == d.insts
             t == e.insts
  <2>1. s \in Seq(Instants) /\ t \in Seq(Instants)
    BY <1>1
  <2> HIDE DEF s, t
  <2>2. Len(s) <= Len(s \o t) /\ \A i \in 1 .. Len(s) : s[i] = (s \o t)[i]
    BY <2>1
  <2> QED
    BY <1>2, <2>2 DEF s, t
<1>4. ASSUME NEW id \in DOMAIN d.vehs
      PROVE  id \in DOMAIN f.vehs /\ Kept(d.vehs[id], f.vehs[id])
  <2>1. id \in DOMAIN f.vehs /\ f.vehs[id] = MergedNode(d.vehs[id], NodeOf(e, id))
    BY <1>2
  <2>2. d.vehs[id] \in Nodes /\ NodeOf(e, id) \in Nodes /\ NodeOf(d, id) = d.vehs[id]
    <3>1. DOMAIN d.vehs \subseteq VehIds
      BY DocFields
    <3> QED
      BY <3>1, DocFields, NodeType DEF NodeOf
  <2>3. /\ d.vehs[id].entered = Unset \/ NodeOf(e, id).entered = Unset
        /\ d.vehs[id].left = Unset \/ NodeOf(e, id).left = Unset
    BY <2>2, CompatibleNode
  <2> DEFINE a == d.vehs[id]
             c == NodeOf(e, id)
  <2>4. a \in Nodes /\ c \in Nodes /\ (a.entered = Unset \/ c.entered = Unset)
        /\ (a.left = Unset \/ c.left = Unset)
    BY <2>2, <2>3
  <2> HIDE DEF a, c
  <2>5. Kept(a, MergedNode(a, c))
    BY <2>4 DEF Kept, MergedNode, Updated, Nodes
  <2> QED
    BY <2>1, <2>5 DEF a, c
<1>5. History!DocGrows(d, f)
  BY <1>1, <1>3, <1>4, GrowsIff
<1> QED
  BY <1>5 DEF f

(* The final files, and the whole at each mark, are part of the next ones.   *)
LEMMA WholeGrows ==
  ASSUME NEW n, NEW files \in Files, NEW list \in Seq(Snaps), LifeOf(n, files, list)
  PROVE  \A k \in 0 .. Len(list) : History!DocGrows(files.doc, WholeOf(files, list, k))
<1> DEFINE N == {k \in Nat : k <= Len(list) =>
                   History!DocGrows(files.doc, WholeOf(files, list, k))}
<1>0. files.doc \in Docs
  BY FileFields
<1>1. 0 \in N
  BY <1>0, WholeFacts, GrowsReflexive
<1>2. ASSUME NEW k \in N PROVE k + 1 \in N
  <2> SUFFICES ASSUME k + 1 <= Len(list)
               PROVE  History!DocGrows(files.doc, WholeOf(files, list, k + 1))
    OBVIOUS
  <2>1. History!DocGrows(files.doc, WholeOf(files, list, k)) /\ k \in 0 .. Len(list) - 1
        /\ k \in 0 .. Len(list) /\ k + 1 \in DOMAIN list /\ k + 1 \in 0 .. Len(list)
        /\ (k + 1) - 1 = k
    OBVIOUS
  <2> HIDE DEF N
  <2>2. WholeOf(files, list, k + 1) = Add(WholeOf(files, list, k), list[k + 1].doc)
    BY <2>1, WholeFacts
  <2>3. WholeOf(files, list, k) \in Docs /\ WholeOf(files, list, k + 1) \in Docs
    BY <2>1, WholeFacts
  <2>4. list[k + 1].doc \in Docs
    BY <2>1, SnapFields
  <2>5. Compatible(WholeOf(files, list, k), list[k + 1].doc)
    BY <2>1 DEF LifeOf
  <2> DEFINE a == WholeOf(files, list, k)
             b == WholeOf(files, list, k + 1)
             e == list[k + 1].doc
  <2>6. a \in Docs /\ b \in Docs /\ e \in Docs /\ Compatible(a, e) /\ b = Add(a, e)
        /\ History!DocGrows(files.doc, a)
    BY <2>1, <2>2, <2>3, <2>4, <2>5
  <2> HIDE DEF a, b, e
  <2>7. History!DocGrows(a, b)
    BY <2>6, AddGrows
  <2>8. History!DocGrows(files.doc, b)
    BY <1>0, <2>6, <2>7, GrowsTransitive
  <2> QED
    BY <2>8 DEF b
<1> HIDE DEF N
<1>3. N \in SUBSET Nat
  BY DEF N
<1>4. N = Nat
  BY <1>1, <1>2, <1>3, EveryNatural
<1> QED
  BY <1>4 DEF N

(* The rows of the files are kept by every commit.                         *)
LEMMA RowsGrow ==
  ASSUME NEW files \in Files, NEW list \in Seq(Snaps)
  PROVE  \A k \in 0 .. Len(list) : IsPrefix(files.rows, Commit(files, SubSeq(list, 1, k)).rows)
<1> DEFINE C(k) == Commit(files, SubSeq(list, 1, k))
           N == {k \in Nat : k <= Len(list) => IsPrefix(files.rows, C(k).rows)}
<1>0. files.rows \in Seq(Instants) /\ \A k \in 0 .. Len(list) : C(k).rows \in Seq(Instants)
  BY CommitPrefixType, FileFields
<1>1. 0 \in N
  <2>1. C(0) = files
    <3>1. SubSeq(list, 1, 0) = <<>>
      BY SubSeqEmpty
    <3> QED
      BY <3>1, CommitNone
  <2> HIDE DEF C
  <2> QED
    BY <1>0, <2>1, PrefixFacts
<1>2. ASSUME NEW k \in N PROVE k + 1 \in N
  <2> SUFFICES ASSUME k + 1 <= Len(list)
               PROVE  IsPrefix(files.rows, C(k + 1).rows)
    OBVIOUS
  <2>1. /\ IsPrefix(files.rows, C(k).rows) /\ k \in 0 .. Len(list) /\ k + 1 \in 0 .. Len(list)
        /\ k + 1 \in DOMAIN list /\ k \in Nat /\ k < Len(list)
    OBVIOUS
  <2> HIDE DEF N
  <2>2. C(k + 1) = Validated(C(k), list[k + 1])
    BY <2>1, CommitOneMore
  <2> HIDE DEF C
  <2>3. C(k).rows \in Seq(Instants) /\ list[k + 1].rows \in Seq(Instants)
    BY <1>0, <2>1, SnapFields
  <2> DEFINE a == C(k)
             b == C(k + 1)
             x == list[k + 1]
             s == files.rows
             t == a.rows
             u == b.rows
             v == x.rows
  <2>4. u \in {t, t \o v}
    <3>1. b = Validated(a, x)
      BY <2>2
    <3> HIDE DEF a, b, x
    <3> QED
      BY <3>1 DEF Validated, Converged
  <2>5. /\ s \in Seq(Instants) /\ t \in Seq(Instants) /\ u \in Seq(Instants) /\ v \in Seq(Instants)
        /\ IsPrefix(s, t)
    BY <1>0, <2>1, <2>3
  <2> HIDE DEF s, t, u, v
  <2>6. IsPrefix(t, u)
    BY <2>4, <2>5, PrefixFacts
  <2>7. IsPrefix(s, u)
    BY <2>5, <2>6, PrefixFacts
  <2> QED
    BY <2>7 DEF s, u, b
<1> HIDE DEF N
<1>3. N \in SUBSET Nat
  BY DEF N
<1>4. N = Nat
  BY <1>1, <1>2, <1>3, EveryNatural
<1> QED
  BY <1>4 DEF N

(* A commit drops the marks and changes nothing to the present.              *)
LEMMA CommittedWhole ==
  ASSUME NEW n, NEW files \in Files, NEW list \in Seq(Snaps), LifeOf(n, files, list)
  PROVE  LET f == Commit(files, list)
         IN  /\ f \in Files /\ PresentOf(n, f, <<>>) = PresentOf(n, files, list)
             /\ LifeOf(n, f, <<>>) /\ MarksOf(f, <<>>) = <<>>
             /\ History!DocGrows(files.doc, f.doc) /\ IsPrefix(files.rows, f.rows)
<1> DEFINE f == Commit(files, list)
           e == <<>>
<1>1. f \in Files
  BY CommitType
<1>2. f.doc = WholeOf(files, list, Len(list)) /\ Len(list) \in 0 .. Len(list)
  BY WholeFacts
<1>3. IsPrefix(files.rows, f.rows)
  <2>1. SubSeq(list, 1, Len(list)) = list
    BY SubSeqFull
  <2> QED
    BY <1>2, <2>1, RowsGrow
<1>4. History!DocGrows(files.doc, f.doc)
  BY <1>2, WholeGrows
<1> HIDE DEF f
<1>5. e \in Seq(Snaps) /\ Len(e) = 0 /\ DOMAIN e = {}
  BY NoneSaved
<1>6. WholeOf(f, e, Len(e)) = f.doc
  <2> HIDE DEF e
  <2> QED
    BY <1>1, <1>5, WholeFacts
<1>6r. RowsOf(f, e, Len(e)) = RowsOf(files, list, Len(list))
  <2>1. f.rows = RowsOf(files, list, Len(list))
    BY RowsFacts DEF f
  <2> HIDE DEF e
  <2> QED
    BY <1>1, <1>5, <2>1, RowsFacts
<1>7. PresentOf(n, f, e) = PresentOf(n, files, list)
  BY <1>2, <1>6, <1>6r DEF PresentOf, WholeFiles
<1>8. LifeOf(n, f, e)
  BY <1>2, <1>5, <1>6 DEF LifeOf
<1>9. MarksOf(f, e) = e
  BY <1>5 DEF MarksOf
<1> QED
  BY <1>1, <1>3, <1>4, <1>7, <1>8, <1>9 DEF f

(* The parts of a network that is restored.                                *)
LEMMA RestoredFields ==
  ASSUME NEW n \in Nets, NEW s \in Backups
  PROVE  LET r == Restored(n, s)
         IN  /\ r.inst = s.inst /\ r.lastId = s.lastId /\ r.ready = s.ready
             /\ r.vehs = {Copied(v) : v \in s.vehs}
             /\ r.waiting = [i \in DOMAIN s.waiting |-> Copied(s.waiting[i])]
BY DEF Restored, Nets

(* The restored network is in the state that was saved, its vehicles being    *)
(* new objects with the ids of the old ones.                                 *)
LEMMA RestoredState ==
  ASSUME copies \in 0 .. MaxRollbacks, NEW n \in Nets, NEW s \in Backups
  PROVE  /\ State(Restored(n, s)) = State(s)
         /\ \A d \in Docs : Life(s, d) => Life(Restored(n, s), d)
<1> DEFINE r == Restored(n, s)
<1>1. /\ r.inst = s.inst /\ r.lastId = s.lastId /\ r.ready = s.ready
      /\ r.vehs = {Copied(v) : v \in s.vehs}
      /\ r.waiting = [i \in DOMAIN s.waiting |-> Copied(s.waiting[i])]
  BY RestoredFields
<1> HIDE DEF r
<1>2. s.vehs \subseteq Objects /\ s.waiting \in Seq(Objects)
  BY BackupFields
<1>3. \A v \in Objects : Copied(v).id = v.id
  BY CopiedFacts
<1>4. \A i \in DOMAIN s.waiting : s.waiting[i] \in Objects
  BY <1>2
<1>5. Ids(r.vehs) = Ids(s.vehs)
  BY <1>1, <1>2, <1>3 DEF Ids
<1>6. [i \in DOMAIN r.waiting |-> r.waiting[i].id] = [i \in DOMAIN s.waiting |-> s.waiting[i].id]
  BY <1>1, <1>3, <1>4
<1>7. State(r) = State(s)
  BY <1>1, <1>5, <1>6 DEF State
<1>8. \A v \in ToSet(r.waiting) : \E u \in ToSet(s.waiting) : v.id = u.id
  <2>1. ASSUME NEW i \in DOMAIN r.waiting
        PROVE  i \in DOMAIN s.waiting /\ r.waiting[i].id = s.waiting[i].id
    BY <1>1, <1>3, <1>4
  <2> QED
    BY <2>1 DEF ToSet
<1>9. \A v \in r.vehs : \E u \in s.vehs : v.id = u.id
  BY <1>1, <1>2, <1>3
<1>10. \A d \in Docs : Life(s, d) => Life(r, d)
  BY <1>1, <1>8, <1>9, ZenonT(30) DEF Life, Owned
<1> QED
  BY <1>7, <1>10 DEF r

(* Nothing that a rollback removes by id was written before the mark.        *)
LEMMA RemovesNothing ==
  ASSUME NEW d \in Docs, NEW s \in Backups, Life(s, d)
  PROVE  RemoveVehicules(d, s.lastId) = d
<1> DEFINE r == RemoveVehicules(d, s.lastId)
<1>1. s.lastId \in Int
  BY BackupFields
<1>2. r \in Docs
  BY <1>1, RemoveType
<1>3. {j \in DOMAIN d.vehs : j < s.lastId} = DOMAIN d.vehs
  BY DEF Life
<1>4. r = [d EXCEPT !.vehs = [i \in {j \in DOMAIN d.vehs : j < s.lastId} |-> d.vehs[i]]]
  BY DEF RemoveVehicules
<1>5. r.insts = d.insts /\ r.vehs = [i \in DOMAIN d.vehs |-> d.vehs[i]]
  BY <1>3, <1>4 DEF Docs
<1> HIDE DEF r
<1>6. r = d
  BY <1>2, <1>5, DocEqual
<1> QED
  BY <1>6 DEF r

(* A rollback returns to the mark.                                           *)
LEMMA RolledBackWhole ==
  ASSUME copies \in 0 .. MaxRollbacks, NEW n \in Nets, NEW files \in Files,
         NEW list \in Seq(Snaps), LifeOf(n, files, list), NEW i \in DOMAIN list
  PROVE  LET older == Commit(files, SubSeq(list, 1, i - 1))
             saved == list[i].saved
             f == [older EXCEPT !.doc = RemoveVehicules(@, saved.lastId)]
             l == <<WithTempFiles(saved, 0)>>
             r == Restored(n, saved)
         IN  /\ PresentOf(r, f, l) = MarksOf(files, list)[i]
             /\ MarksOf(f, l) = <<MarksOf(files, list)[i]>>
             /\ LifeOf(r, f, l)
             /\ History!DocGrows(files.doc, f.doc) /\ IsPrefix(files.rows, f.rows)
<1> DEFINE older == Commit(files, SubSeq(list, 1, i - 1))
           saved == list[i].saved
           f == [older EXCEPT !.doc = RemoveVehicules(@, saved.lastId)]
           l == <<WithTempFiles(saved, 0)>>
           r == Restored(n, saved)
           d == WholeOf(files, list, i - 1)
           w == WholeFiles(files, list, i - 1)
<1>1. i - 1 \in 0 .. Len(list) /\ saved \in Backups
  BY SnapFields
<1>2. older \in Files /\ older.doc = d /\ d \in Docs
  BY <1>1, CommitPrefixType, WholeFacts DEF WholeOf
<1>2r. older.rows \in Seq(Instants) /\ w = [doc |-> d, rows |-> older.rows]
  BY <1>2, FileFields DEF WholeFiles, RowsOf
<1>3. Life(saved, d)
  BY DEF LifeOf
<1>4. History!DocGrows(files.doc, d) /\ IsPrefix(files.rows, older.rows)
  <2>1. History!DocGrows(files.doc, d)
    BY <1>1, WholeGrows
  <2>2. IsPrefix(files.rows, older.rows)
    BY <1>1, RowsGrow
  <2> QED
    BY <2>1, <2>2
<1>m. MarksOf(files, list)[i] = [network |-> State(saved), output |-> w]
  BY DEF MarksOf
<1> HIDE DEF saved, d, w
<1>5. f = older
  <2> HIDE DEF older
  <2>1. RemoveVehicules(d, saved.lastId) = d
    BY <1>1, <1>2, <1>3, RemovesNothing
  <2>2. f = [older EXCEPT !.doc = d]
    BY <1>2, <2>1
  <2> QED
    BY <1>2, <2>2 DEF Files
<1> HIDE DEF older, f
<1>6. State(r) = State(saved) /\ Life(r, d)
  BY <1>1, <1>2, <1>3, RestoredState
<1> DEFINE s == WithTempFiles(saved, 0)
<1>7. s \in Snaps /\ s.saved = saved /\ s.doc = EmptyDoc /\ s.rows = <<>>
  BY <1>1, EmptyDocType DEF WithTempFiles, Snaps
<1> HIDE DEF s, r
<1>8. /\ l \in Seq(Snaps) /\ Len(l) = 1 /\ DOMAIN l = {1} /\ l[1] = s
  BY <1>7 DEF s
<1> HIDE DEF l
<1>9. WholeOf(f, l, 0) = d /\ WholeOf(f, l, 1) = d
  <2>1. WholeOf(f, l, 0) = d
    BY <1>2, <1>5, <1>8, WholeFacts
  <2>2. WholeOf(f, l, 0 + 1) = Add(WholeOf(f, l, 0), l[0 + 1].doc)
    <3>1. f \in Files /\ 0 \in 0 .. Len(l) - 1
      BY <1>2, <1>5, <1>8
    <3> QED
      BY <1>8, <3>1, WholeFacts
  <2>3. Add(d, EmptyDoc) = d
    BY <1>2, AddEmpty
  <2> QED
    BY <1>7, <1>8, <2>1, <2>2, <2>3
<1>9r. RowsOf(f, l, 0) = older.rows /\ RowsOf(f, l, 1) = older.rows
  <2>1. RowsOf(f, l, 0) = older.rows
    BY <1>2, <1>5, <1>8, RowsFacts
  <2>2. RowsOf(f, l, 0 + 1) = Converged(RowsOf(f, l, 0), l[0 + 1])
    <3>1. f \in Files /\ 0 \in 0 .. Len(l) - 1
      BY <1>2, <1>5, <1>8
    <3> QED
      BY <1>8, <3>1, RowsFacts
  <2>3. Converged(older.rows, s) = older.rows
    BY <1>2r, <1>7, ConvergedNone
  <2> QED
    BY <1>8, <2>1, <2>2, <2>3
<1>w. WholeFiles(f, l, 0) = w /\ WholeFiles(f, l, 1) = w
  BY <1>2r, <1>9, <1>9r DEF WholeFiles
<1>10. PresentOf(r, f, l) = MarksOf(files, list)[i]
  BY <1>6, <1>8, <1>w, <1>m DEF PresentOf
<1>11. MarksOf(f, l) = <<MarksOf(files, list)[i]>>
  <2> DEFINE m == MarksOf(files, list)[i]
  <2>1. m = [network |-> State(saved), output |-> w]
    BY <1>m
  <2> HIDE DEF m
  <2>2. MarksOf(f, l) = [j \in {1} |-> m]
    BY <1>7, <1>8, <1>w, <2>1 DEF MarksOf
  <2>3. [j \in {1} |-> m] = <<m>>
    OBVIOUS
  <2> QED
    BY <2>2, <2>3 DEF m
<1>12. LifeOf(r, f, l)
  <2>1. Compatible(d, EmptyDoc)
    BY DEF Compatible, EmptyDoc
  <2> QED
    BY <1>3, <1>6, <1>7, <1>8, <1>9, <2>1 DEF LifeOf
<1>13. History!DocGrows(files.doc, f.doc) /\ IsPrefix(files.rows, f.rows)
  BY <1>2, <1>4, <1>5
<1> QED
  BY <1>10, <1>11, <1>12, <1>13 DEF r, f, l, older, saved, s

(***************************************************************************)
(* Every step of the assignment is one of the timeline.                    *)
(***************************************************************************)
Present == PresentOf(net, out, snapshots)
Marks   == MarksOf(out, snapshots)

TimelineStep ==
  \/ History!Grows(Present.output, Present'.output) /\ Marks' = Marks
  \/ /\ net'.lastOut = net.lastOut
     /\ \/ Marks' = Append(Marks, Present) /\ Present' = Present
        \/ Marks' \in {<<>>, <<Present>>} /\ Present' = Present
        \/ \E i \in DOMAIN Marks : Present' = Marks[i] /\ Marks' = <<Marks[i]>>
        \/ Present' = Present /\ Marks' = Marks

FilesStep == History!DocGrows(out.doc, out'.doc) /\ IsPrefix(out.rows, out'.rows)

Told == TimelineStep /\ FilesStep /\ LifeInv'

(* The present of the abstract timeline in the next state.                 *)
LEMMA PresentNext ==
  /\ Present' = [network |-> State(net'), output |-> WholeFiles(out', snapshots', Len(snapshots'))]
  /\ Present' = PresentOf(net', out', snapshots') /\ Marks' = MarksOf(out', snapshots')
  /\ Present = [network |-> State(net), output |-> WholeFiles(out, snapshots, Len(snapshots))]
  /\ LifeInv' = LifeOf(net', out', snapshots')
BY DEF Present, PresentOf, Marks, LifeInv

(* What the invariant says of the world.                                   *)
LEMMA WorldFacts ==
  ASSUME WorldInv
  PROVE  /\ Sound(net) /\ net \in Nets /\ Numbered(net) /\ copies \in 0 .. MaxRollbacks
         /\ out \in Files /\ snapshots \in Seq(Snaps)
BY DEF WorldInv, Sound

(* Files left alone have grown.                                            *)
LEMMA FilesSame ==
  ASSUME out \in Files, out' = out
  PROVE  FilesStep
<1>1. out.doc \in Docs /\ out.rows \in Seq(Instants)
  BY FileFields
<1>2. History!DocGrows(out.doc, out.doc) /\ IsPrefix(out.rows, out.rows)
  BY <1>1, GrowsReflexive, PrefixFacts
<1> QED
  BY <1>2 DEF FilesStep

(* The timeline has the same prefixes.                                     *)
LEMMA SamePrefix == ASSUME NEW s, NEW t PROVE History!IsPrefix(s, t) <=> IsPrefix(s, t)
BY DEF IsPrefix, History!IsPrefix

(* What is written in the open document.                                     *)
LEMMA WrittenTold ==
  ASSUME WorldInv, LifeInv, NEW d \in Docs, NEW rows \in Seq(Instants), Written(d, rows),
         History!DocGrows(Add(Base(out, snapshots), Open(out, snapshots)),
                       Add(Base(out, snapshots), d)),
         Compatible(Base(out, snapshots), d), Life(net', Add(Base(out, snapshots), d))
  PROVE  Told
<1>1. out \in Files /\ snapshots \in Seq(Snaps) /\ LifeOf(net, out, snapshots)
  BY WorldFacts DEF LifeInv
<1>2. /\ WholeOf(out', snapshots', Len(snapshots')) = Add(Base(out, snapshots), d)
      /\ MarksOf(out', snapshots') = MarksOf(out, snapshots)
      /\ LifeOf(net', out', snapshots')
  BY <1>1, WrittenWhole
<1>3. WholeOf(out, snapshots, Len(snapshots)) = Add(Base(out, snapshots), Open(out, snapshots))
  BY <1>1, OpenWhole
<1>4. TimelineStep
  <2>1. IsPrefix(RowsOf(out, snapshots, Len(snapshots)),
                 RowsOf(out', snapshots', Len(snapshots')))
    BY <1>1, WrittenRows
  <2>2. History!Grows(Present.output, Present'.output)
    BY <1>2, <1>3, <2>1, PresentNext, SamePrefix DEF WholeFiles, History!Grows
  <2> QED
    BY <1>2, <2>2, PresentNext DEF TimelineStep, Marks
<1>5. FilesStep
  <2>1. /\ snapshots = <<>> => out'.doc = d /\ out'.rows = out.rows \o rows
        /\ snapshots # <<>> => out' = out
    BY <1>1, WrittenFields
  <2>2. CASE snapshots = <<>>
    <3>1. Base(out, snapshots) = EmptyDoc /\ Open(out, snapshots) = out.doc
      BY <2>2 DEF Base, Open
    <3>2. Add(EmptyDoc, out.doc) = out.doc /\ Add(EmptyDoc, d) = d
      BY <1>1, FileFields, AddEmpty
    <3>3. History!DocGrows(out.doc, out'.doc)
      BY <2>1, <2>2, <3>1, <3>2
    <3>4. IsPrefix(out.rows, out.rows \o rows)
      BY <1>1, FileFields, PrefixFacts
    <3> QED
      BY <2>1, <2>2, <3>3, <3>4 DEF FilesStep
  <2>3. CASE snapshots # <<>>
    BY <1>1, <2>1, <2>3, FilesSame
  <2> QED
    BY <2>2, <2>3
<1> QED
  BY <1>2, <1>4, <1>5, PresentNext DEF Told

(* A time step is a step of the timeline.                                  *)
LEMMA StepTold ==
  ASSUME WorldInv, LifeInv, TimeStep
  PROVE  Told
<1> DEFINE b == Base(out, snapshots)
           d == CurrentDoc
           s == StartOf(net, d)
<1>1. /\ Sound(net) /\ copies \in 0 .. MaxRollbacks /\ out \in Files /\ snapshots \in Seq(Snaps)
      /\ LifeOf(net, out, snapshots)
  BY WorldFacts DEF LifeInv
<1>2. PICK c, e, w : StepMade(c, e, w)
  BY StepParts
<1>3. net.inst < LastStep
  BY DEF TimeStep
<1>4. d = Open(out, snapshots)
  BY <1>1, CurrentDocType DEF Open
<1>5. /\ b \in Docs /\ d \in Docs /\ Compatible(b, d) /\ Life(net, Add(b, d))
  <2>1. Life(net, WholeOf(out, snapshots, Len(snapshots)))
    BY <1>1 DEF LifeOf
  <2> QED
    BY <1>1, <1>4, <2>1, OpenWhole
<1>6. /\ c \in Created(s) /\ e \in Inserted(c) /\ w \in Departed(e)
      /\ net' = w.net /\ Written(w.doc, <<net.inst + 1>>)
  BY <1>2 DEF StepMade
<1> HIDE DEF b, d
<1>7. Fit(b, s) /\ History!DocGrows(Add(b, d), Add(b, s.doc))
  BY <1>1, <1>3, <1>5, StartGrown
<1> HIDE DEF s
<1>8. Grown(b, s, w)
  <2>1. Grown(b, s, c) /\ Fit(b, c)
    BY <1>1, <1>5, <1>6, <1>7, CreatedGrown DEF Grown
  <2>2. Grown(b, c, e) /\ Fit(b, e)
    BY <1>5, <1>6, <2>1, InsertedGrown DEF Grown
  <2>3. Grown(b, e, w)
    BY <1>5, <1>6, <2>2, DepartedGrown
  <2>4. Grown(b, s, e)
    BY <1>5, <1>7, <2>1, <2>2, GrownThen
  <2> QED
    BY <1>5, <1>7, <2>3, <2>4, GrownThen
<1>9. /\ w.doc \in Docs /\ Compatible(b, w.doc) /\ Life(net', Add(b, w.doc))
      /\ History!DocGrows(Add(b, d), Add(b, w.doc))
  <2>1. Fit(b, w) /\ History!DocGrows(Add(b, s.doc), Add(b, w.doc))
    BY <1>8 DEF Grown
  <2>2. Add(b, d) \in Docs /\ Add(b, s.doc) \in Docs /\ Add(b, w.doc) \in Docs
    BY <1>5, <1>7, <2>1, AddType DEF Fit, Valid
  <2>3. History!DocGrows(Add(b, d), Add(b, w.doc))
    BY <1>7, <2>1, <2>2, GrowsTransitive
  <2> QED
    BY <1>6, <2>1, <2>3 DEF Fit, Valid
<1>10. <<net.inst + 1>> \in Seq(Instants)
  <2>1. net.inst + 1 \in Instants
    BY <1>1, <1>3, <1>5, StartValid
  <2> QED
    BY <2>1
<1> DEFINE x == w.doc
           rows == <<net.inst + 1>>
<1>11. /\ x \in Docs /\ rows \in Seq(Instants) /\ Written(x, rows)
       /\ Compatible(b, x) /\ Life(net', Add(b, x)) /\ History!DocGrows(Add(b, d), Add(b, x))
  BY <1>6, <1>9, <1>10
<1> HIDE DEF x, rows
<1> QED
  BY <1>4, <1>11, WrittenTold DEF b

(* The vehicles still there had not left.                                    *)
LEMMA MarkedGrows ==
  ASSUME NEW n, Sound(n), NEW b \in Docs, NEW d \in Docs, NEW r,
         Marked(d, r, Ids(n.vehs)), Life(n, Add(b, d)), Compatible(b, d)
  PROVE  /\ r \in Docs /\ Compatible(b, r) /\ History!DocGrows(Add(b, d), Add(b, r))
         /\ \A id \in DOMAIN Add(b, r).vehs : id < n.lastId
<1> DEFINE S == Ids(n.vehs)
<1>1. /\ r \in Docs /\ r.insts = d.insts /\ DOMAIN r.vehs = DOMAIN d.vehs \cup S
      /\ \A id \in DOMAIN r.vehs :
           r.vehs[id] = IF id \in S THEN [NodeOf(d, id) EXCEPT !.left = Never] ELSE d.vehs[id]
  BY DEF Marked
<1>2. \A id \in S : id \in VehIds /\ id < n.lastId /\ NodeOf(Add(b, d), id).left = Unset
  <2>1. \A v \in n.vehs : v.id \in VehIds /\ v.id < n.lastId /\ v \in Owned(n)
    BY SoundIds DEF Owned
  <2> QED
    BY <2>1 DEF Ids, Life
<1> HIDE DEF S
<1>3. Never \in Nat /\ Never # Unset /\ \A id \in S : NodeOf(d, id) \in Nodes
  BY <1>2, NodeType, SnapshotAssumption DEF Never, Unset
<1>4. \A id \in S : /\ NodeOf(b, id).left = Unset /\ NodeOf(d, id).left = Unset
                    /\ NodeOf(r, id).entered = NodeOf(d, id).entered
                    /\ NodeOf(r, id).left = Never
                    /\ NodeOf(r, id).created = NodeOf(d, id).created
  <2> TAKE id \in S
  <2>1. NodeOf(b, id).left = Unset /\ NodeOf(d, id).left = Unset
    BY <1>2, NodeOfAdd
  <2>2. NodeOf(r, id) = [NodeOf(d, id) EXCEPT !.left = Never]
    BY <1>1 DEF NodeOf
  <2>3. NodeOf(d, id) \in Nodes
    BY <1>3
  <2> QED
    BY <2>1, <2>2, <2>3 DEF Nodes
<1>5. \A id : id \notin S => NodeOf(r, id) = NodeOf(d, id)
  BY <1>1 DEF NodeOf
<1>6. Compatible(b, r)
  <2>1. ASSUME NEW id \in DOMAIN r.vehs
        PROVE  /\ NodeOf(b, id).entered = Unset \/ r.vehs[id].entered = Unset
               /\ NodeOf(b, id).left = Unset \/ r.vehs[id].left = Unset
    <3>1. r.vehs[id] = NodeOf(r, id)
      BY DEF NodeOf
    <3>2. /\ NodeOf(b, id).entered = Unset \/ NodeOf(d, id).entered = Unset
          /\ NodeOf(b, id).left = Unset \/ NodeOf(d, id).left = Unset
      BY CompatibleNode
    <3> QED
      BY <1>4, <1>5, <3>1, <3>2
  <2> QED
    BY <2>1 DEF Compatible
<1> DEFINE D == Add(b, d)
           R == Add(b, r)
<1>7. D \in Docs /\ R \in Docs
  BY <1>1, AddType
<1>8. /\ D.insts = b.insts \o d.insts /\ DOMAIN D.vehs = DOMAIN b.vehs \cup DOMAIN d.vehs
      /\ R.insts = b.insts \o r.insts /\ DOMAIN R.vehs = DOMAIN b.vehs \cup DOMAIN r.vehs
  BY <1>1, AddFields
<1>9. /\ \A id : NodeOf(D, id) = IF id \in DOMAIN b.vehs THEN MergedNode(b.vehs[id], NodeOf(d, id))
                                                    ELSE NodeOf(d, id)
      /\ \A id : NodeOf(R, id) = IF id \in DOMAIN b.vehs THEN MergedNode(b.vehs[id], NodeOf(r, id))
                                                    ELSE NodeOf(r, id)
  <2>1. \A id : NodeOf(Add(b, d), id) = IF id \in DOMAIN b.vehs THEN MergedNode(b.vehs[id], NodeOf(d, id))
                                                    ELSE NodeOf(d, id)
    BY NodeOfAdd
  <2>2. \A id : NodeOf(Add(b, r), id) = IF id \in DOMAIN b.vehs THEN MergedNode(b.vehs[id], NodeOf(r, id))
                                                    ELSE NodeOf(r, id)
    BY <1>1, NodeOfAdd
  <2> QED
    BY <2>1, <2>2
<1>10. Life(n, D)
  OBVIOUS
<1> HIDE DEF D, R
<1>11. ASSUME NEW id \in DOMAIN D.vehs PROVE id \in DOMAIN R.vehs /\ Kept(D.vehs[id], R.vehs[id])
  <2>1. /\ id \in DOMAIN R.vehs /\ D.vehs[id] = NodeOf(D, id) /\ R.vehs[id] = NodeOf(R, id)
    BY <1>1, <1>8 DEF NodeOf
  <2>2. CASE id \notin S
    BY <1>5, <1>9, <2>1, <2>2 DEF Kept
  <2>3. CASE id \in S
    <3>1. /\ id \in DOMAIN b.vehs => b.vehs[id] \in Nodes /\ b.vehs[id] = NodeOf(b, id)
      BY DocFields DEF NodeOf
    <3>2. NodeOf(r, id) = [NodeOf(d, id) EXCEPT !.left = Never]
      BY <1>1, <2>3 DEF NodeOf
    <3> DEFINE a == NodeOf(d, id)
               c == NodeOf(r, id)
    <3>3. /\ a \in Nodes /\ c = [a EXCEPT !.left = Never] /\ a.left = Unset
          /\ NodeOf(b, id).left = Unset
      BY <1>3, <1>4, <2>3, <3>2
    <3>4. /\ NodeOf(D, id) = IF id \in DOMAIN b.vehs THEN MergedNode(b.vehs[id], a) ELSE a
          /\ NodeOf(R, id) = IF id \in DOMAIN b.vehs THEN MergedNode(b.vehs[id], c) ELSE c
      BY <1>9
    <3> HIDE DEF a, c
    <3>5. CASE id \in DOMAIN b.vehs
      <4> DEFINE m == b.vehs[id]
      <4>1. m \in Nodes /\ m.left = Unset
        BY <3>1, <3>3, <3>5
      <4> HIDE DEF m
      <4>2. Kept(MergedNode(m, a), MergedNode(m, c))
        BY <1>3, <3>3, <4>1 DEF Kept, MergedNode, Updated, Nodes
      <4> QED
        BY <2>1, <3>4, <3>5, <4>2 DEF m
    <3>6. CASE id \notin DOMAIN b.vehs
      <4>1. Kept(a, c)
        BY <1>3, <3>3 DEF Kept, Nodes
      <4> QED
        BY <2>1, <3>4, <3>6, <4>1
    <3> QED
      BY <3>5, <3>6
  <2> QED
    BY <2>2, <2>3
<1>12. History!DocGrows(D, R)
  <2>1. D.insts = R.insts /\ D.insts \in Seq(Instants)
    BY <1>1, <1>7, <1>8, DocFields
  <2>2. Len(D.insts) <= Len(R.insts) /\ \A i \in 1 .. Len(D.insts) : D.insts[i] = R.insts[i]
    BY <2>1
  <2> QED
    BY <1>7, <1>11, <2>2, GrowsIff
<1>13. \A id \in DOMAIN R.vehs : id < n.lastId
  BY <1>1, <1>2, <1>8, <1>10 DEF Life
<1> QED
  BY <1>1, <1>6, <1>12, <1>13 DEF D, R

(* The end of the simulation is a step of the timeline.                    *)
LEMMA FinishTold ==
  ASSUME WorldInv, LifeInv, FinSimuTrafic
  PROVE  Told
<1> DEFINE b == Base(out, snapshots)
           d == CurrentDoc
           r == NeverLeft(d, net.vehs)
           rows == <<>>
<1>1. /\ Sound(net) /\ out \in Files /\ snapshots \in Seq(Snaps) /\ LifeOf(net, out, snapshots)
  BY WorldFacts DEF LifeInv
<1>2. /\ Written(r, rows) /\ Marked(d, r, Ids(net.vehs))
      /\ net' = Network(net.inst, net.lastId, {}, None, <<>>, net.lastOut, net.fleet)
  BY FinishWrites
<1>4. d = Open(out, snapshots)
  BY <1>1, CurrentDocType DEF Open
<1>5. /\ b \in Docs /\ d \in Docs /\ Compatible(b, d) /\ Life(net, Add(b, d))
  <2>1. Life(net, WholeOf(out, snapshots, Len(snapshots)))
    BY <1>1 DEF LifeOf
  <2> QED
    BY <1>1, <1>4, <2>1, OpenWhole
<1>6. rows \in Seq(Instants)
  OBVIOUS
<1> HIDE DEF b, d, r, rows
<1>7. /\ r \in Docs /\ Compatible(b, r) /\ History!DocGrows(Add(b, d), Add(b, r))
      /\ \A id \in DOMAIN Add(b, r).vehs : id < net.lastId
  BY <1>1, <1>2, <1>5, MarkedGrows
<1>8. Life(net', Add(b, r))
  <2>1. net'.lastId = net.lastId /\ net'.vehs = {} /\ net'.waiting = <<>> /\ net'.ready = None
    BY <1>2 DEF Network
  <2>2. Owned(net') = {} /\ ToSet(net'.waiting) = {}
    BY <2>1 DEF Owned, ToSet
  <2> QED
    BY <1>7, <2>1, <2>2 DEF Life
<1> QED
  BY <1>2, <1>4, <1>6, <1>7, <1>8, WrittenTold DEF b

(* A snapshot is a mark of the timeline.                                   *)
LEMMA TakeTold ==
  ASSUME WorldInv, LifeInv, TakeSimulationSnapshot
  PROVE  Told
<1>1. /\ Sound(net) /\ out \in Files /\ snapshots \in Seq(Snaps) /\ LifeOf(net, out, snapshots)
  BY WorldFacts DEF LifeInv
<1>2. snapshots' = Taken(net, snapshots) /\ net' = net /\ out' = out
  BY DEF TakeSimulationSnapshot
<1>3. /\ MarksOf(out, Taken(net, snapshots)) =
           Append(MarksOf(out, snapshots), PresentOf(net, out, snapshots))
      /\ PresentOf(net, out, Taken(net, snapshots)) = PresentOf(net, out, snapshots)
      /\ LifeOf(net, out, Taken(net, snapshots))
  BY <1>1, TakenWhole
<1>4. TimelineStep
  BY <1>2, <1>3, PresentNext DEF TimelineStep, Marks, Present
<1>5. FilesStep
  BY <1>1, <1>2, FilesSame
<1> QED
  BY <1>2, <1>3, <1>4, <1>5, PresentNext DEF Told

(* A commit forgets marks of the timeline.                                 *)
LEMMA CommitTold ==
  ASSUME WorldInv, LifeInv, out' = Commit(out, snapshots), net' = net,
         snapshots' = <<>> \/ snapshots' = Taken(net, <<>>)
  PROVE  Told
<1> DEFINE f == Commit(out, snapshots)
           e == <<>>
<1>1. /\ Sound(net) /\ out \in Files /\ snapshots \in Seq(Snaps) /\ LifeOf(net, out, snapshots)
  BY WorldFacts DEF LifeInv
<1>2. /\ f \in Files /\ PresentOf(net, f, e) = Present
      /\ LifeOf(net, f, e) /\ MarksOf(f, e) = <<>>
      /\ History!DocGrows(out.doc, f.doc) /\ IsPrefix(out.rows, f.rows)
  <2>1. LET g == Commit(out, snapshots)
        IN  /\ g \in Files /\ PresentOf(net, g, <<>>) = PresentOf(net, out, snapshots)
            /\ LifeOf(net, g, <<>>) /\ MarksOf(g, <<>>) = <<>>
            /\ History!DocGrows(out.doc, g.doc) /\ IsPrefix(out.rows, g.rows)
    BY <1>1, CommittedWhole
  <2> QED
    BY <2>1 DEF Present
<1>3. e \in Seq(Snaps) /\ out' = f /\ (snapshots' = e \/ snapshots' = Taken(net, e))
  BY NoneSaved
<1> HIDE DEF f, e
<1>4. /\ MarksOf(f, Taken(net, e)) = Append(MarksOf(f, e), PresentOf(net, f, e))
      /\ PresentOf(net, f, Taken(net, e)) = PresentOf(net, f, e)
      /\ LifeOf(net, f, Taken(net, e))
  BY <1>1, <1>2, <1>3, TakenWhole
<1>5. Present' = Present /\ Marks' \in {<<>>, <<Present>>} /\ LifeInv'
  <2>1. Append(<<>>, Present) = <<Present>>
    OBVIOUS
  <2> QED
    BY <1>2, <1>3, <1>4, <2>1, PresentNext
<1>6. FilesStep
  BY <1>2, <1>3 DEF FilesStep
<1> QED
  BY <1>5, <1>6 DEF Told, TimelineStep

(* What a rollback leaves as it is.                                        *)
LEMMA RestoredKeeps ==
  ASSUME NEW n \in Nets, NEW s PROVE Restored(n, s).lastOut = n.lastOut
BY DEF Restored, Nets

(* A rollback returns to a mark of the timeline.                           *)
LEMMA RollbackTold ==
  ASSUME WorldInv, LifeInv, NEW i \in DOMAIN snapshots, SimulationRollback(i)
  PROVE  Told
<1> DEFINE older == Commit(out, SubSeq(snapshots, 1, i - 1))
           saved == snapshots[i].saved
           f == [older EXCEPT !.doc = RemoveVehicules(@, saved.lastId)]
           l == <<WithTempFiles(saved, 0)>>
           r == Restored(net, saved)
<1>1. /\ net \in Nets /\ copies \in 0 .. MaxRollbacks /\ out \in Files
      /\ snapshots \in Seq(Snaps) /\ LifeOf(net, out, snapshots)
  BY WorldFacts DEF LifeInv
<1>2. net' = r /\ out' = f /\ snapshots' = l
  BY DEF SimulationRollback
<1>2r. net'.lastOut = net.lastOut
  BY <1>1, <1>2, RestoredKeeps
<1>3. /\ PresentOf(r, f, l) = Marks[i] /\ MarksOf(f, l) = <<Marks[i]>> /\ LifeOf(r, f, l)
      /\ History!DocGrows(out.doc, f.doc) /\ IsPrefix(out.rows, f.rows)
  BY <1>1, RolledBackWhole DEF Marks
<1> HIDE DEF f, l, r
<1>4. i \in DOMAIN Marks
  BY DEF Marks, MarksOf
<1>5. Present' = Marks[i] /\ Marks' = <<Marks[i]>> /\ LifeInv'
  BY <1>2, <1>3, PresentNext
<1>6. FilesStep
  BY <1>2, <1>3 DEF FilesStep
<1> QED
  BY <1>2r, <1>4, <1>5, <1>6 DEF Told, TimelineStep

(* A step that leaves the world alone is a stutter of the timeline.        *)
LEMMA SameTold ==
  ASSUME out \in Files, LifeInv, UNCHANGED <<net, out, snapshots>>
  PROVE  Told
<1>1. Present' = Present /\ Marks' = Marks /\ LifeInv'
  BY PresentNext DEF LifeInv, Present, PresentOf, Marks
<1>2. FilesStep
  BY FilesSame
<1> QED
  BY <1>1, <1>2 DEF Told, TimelineStep

(* A call of the assignment is a step of the timeline.                     *)
LEMMA RunTold ==
  ASSUME IInv, LifeInv, pc # "done", ~master, Run
  PROVE  Told
<1>1. WorldInv /\ out \in Files /\ snapshots \in Seq(Snaps)
  BY InvWorld DEF WorldInv
<1>2. nIteration > 0 => 1 \in DOMAIN snapshots
  BY <1>1 DEF IInv, OneSnapshot
<1>3. CASE UNCHANGED world
  BY <1>1, <1>3, SameTold DEF world
<1>4. CASE TakeSimulationSnapshot
  BY <1>1, <1>4, TakeTold
<1>5. CASE Equilibrium
  <2>1. /\ out' = Commit(out, snapshots) /\ net' = net
        /\ snapshots' = <<>> \/ snapshots' = Taken(net, <<>>)
    BY <1>5 DEF Equilibrium
  <2> QED
    BY <1>1, <2>1, CommitTold
<1>6. CASE NextIteration
  <2>1. SimulationRollback(1) /\ nIteration > 0
    BY <1>6, AssignmentAssumption DEF NextIteration
  <2> QED
    BY <1>1, <1>2, <2>1, RollbackTold
<1>7. UNCHANGED world \/ TakeSimulationSnapshot \/ Equilibrium \/ NextIteration
  BY DEF Run, AlreadyRun, FirstIteration
<1> QED
  BY <1>3, <1>4, <1>5, <1>6, <1>7

(* Every step is a step or a stutter of the timeline.                      *)
LEMMA NextTold == IInv /\ LifeInv /\ [Next]_vars => Told
<1> SUFFICES ASSUME IInv, LifeInv, [Next]_vars PROVE Told
  OBVIOUS
<1>1. (master => pc = "start") /\ out \in Files
  BY DEF IInv, Driven, Values
<1>2. ASSUME InitialRun PROVE Told
  BY <1>1, <1>2, RunTold DEF InitialRun, At
<1>3. ASSUME StartOfStep PROVE Told
  <2>1. pc = "start" /\ ~master /\ (Run \/ UNCHANGED world)
    BY <1>3 DEF StartOfStep, At
  <2> QED
    BY <1>1, <2>1, RunTold, SameTold DEF world
<1>4. ASSUME Step PROVE Told
  <2>1. pc # "done" /\ TimeStep
    BY <1>4 DEF Step, At
  <2> QED
    BY <2>1, InvWorld, StepTold
<1>5. ASSUME EndOfStep PROVE Told
  BY <1>1, <1>5, RunTold DEF EndOfStep, At
<1>6. ASSUME Return PROVE Told
  BY <1>1, <1>6, SameTold DEF Return, world
<1>7. ASSUME Finish PROVE Told
  <2>1. pc # "done" /\ FinSimuTrafic
    BY <1>7 DEF Finish, At
  <2> QED
    BY <2>1, InvWorld, FinishTold
<1>8. ASSUME Client PROVE Told
  <2>1. WorldInv
    BY <1>8, InvWorld DEF Client, At
  <2>2. CASE TakeSimulationSnapshot
    BY <2>1, <2>2, TakeTold
  <2>3. CASE SimulationCommit
    BY <2>1, <2>3, CommitTold DEF SimulationCommit
  <2>4. CASE \E i \in DOMAIN snapshots : SimulationRollback(i)
    BY <2>1, <2>4, RollbackTold
  <2> QED
    BY <1>8, <2>2, <2>3, <2>4 DEF Client
<1>9. ASSUME UNCHANGED vars PROVE Told
  BY <1>1, <1>9, SameTold DEF vars, world
<1> QED
  BY <1>2, <1>3, <1>4, <1>5, <1>6, <1>7, <1>8, <1>9 DEF Next

(* The lives of the vehicles agree with the output at first.               *)
LEMMA InitLife == Init => LifeInv
<1> SUFFICES ASSUME Init PROVE LifeInv
  OBVIOUS
<1>1. /\ net = EmptyNet /\ out = [doc |-> EmptyDoc, rows |-> <<>>] /\ snapshots = <<>>
  BY DEF Init, SnapshotInit
<1>2. out \in Files /\ snapshots \in Seq(Snaps)
  BY InitInv DEF IInv, Values
<1>3. WholeOf(out, snapshots, 0) = EmptyDoc
  BY <1>1, <1>2, WholeFacts
<1>4. Life(net, EmptyDoc)
  BY <1>1 DEF Life, EmptyNet, EmptyDoc, Owned, ToSet
<1> QED
  BY <1>1, <1>3, <1>4 DEF LifeInv, LifeOf

(* They agree in every run.                                                *)
LEMMA LifeInvariance == Spec => [](IInv /\ LifeInv)
<1>1. Init => IInv /\ LifeInv
  BY InitInv, InitLife
<1>2. IInv /\ LifeInv /\ [Next]_vars => (IInv /\ LifeInv)'
  BY StepInv, NextTold DEF Told
<1> QED
  BY <1>1, <1>2, PTL DEF Spec

(* A snapshot is a mark on the one timeline of the simulation: taking one,    *)
(* committing and simulating never change what is already there, and a        *)
(* rollback brings back what the mark holds, whatever was simulated since and *)
(* whichever snapshots were committed on the way: the network without its     *)
(* objects, and the documents and rows that the final files would hold if     *)
(* everything open were committed (rows that converge does not find are lost  *)
(* to them when they are written).  Not all of the network is in a mark: the   *)
(* instant of the last insertion (m_dbLastInstCreation) is left as the time    *)
(* since has made it, by a rollback and by nothing else but the simulation.   *)
THEOREM SnapshotsAreMarks == Spec => ImplementsTimeline
<1>1. Init => [i \in DOMAIN snapshots |->
                 [network |-> State(snapshots[i].saved), output |-> Whole(i - 1)]] = <<>>
  BY DEF Init, SnapshotInit
<1>2. IInv /\ LifeInv /\ [Next]_vars => [History!Next]_(History!timeline)
  <2> SUFFICES ASSUME TimelineStep, IInv, IInv' PROVE [History!Next]_(History!timeline)
    BY NextTold, StepInv DEF Told
  <2> DEFINE p == [network |-> State(net), output |-> Whole(Len(snapshots))]
             m == [i \in DOMAIN snapshots |->
                     [network |-> State(snapshots[i].saved), output |-> Whole(i - 1)]]
  <2>1. p = Present /\ m = Marks
    <3>1. out \in Files /\ snapshots \in Seq(Snaps)
      BY DEF IInv, Values
    <3>2. \A n \in 0 .. Len(snapshots) : Whole(n) = WholeFiles(out, snapshots, n)
      BY <3>1, WholeIs DEF Whole
    <3>3. /\ Len(snapshots) \in 0 .. Len(snapshots)
          /\ \A i \in DOMAIN snapshots : i - 1 \in 0 .. Len(snapshots)
      BY <3>1
    <3> QED
      BY <3>2, <3>3 DEF Present, PresentOf, Marks, MarksOf
  <2>2. p' = Present' /\ m' = Marks'
    <3> DEFINE f == out'
               l == snapshots'
    <3>1. f \in Files /\ l \in Seq(Snaps)
      BY DEF IInv, Values
    <3>2. /\ p' = [network |-> State(net'), output |-> Commit(f, SubSeq(l, 1, Len(l)))]
          /\ m' = [i \in DOMAIN l |-> [network |-> State(l[i].saved),
                                       output |-> Commit(f, SubSeq(l, 1, i - 1))]]
      BY DEF Whole
    <3>3. Present' = PresentOf(net', f, l) /\ Marks' = MarksOf(f, l)
      BY PresentNext
    <3> HIDE DEF f, l
    <3>4. \A n \in 0 .. Len(l) : Commit(f, SubSeq(l, 1, n)) = WholeFiles(f, l, n)
      BY <3>1, WholeIs
    <3>5. /\ Len(l) \in 0 .. Len(l)
          /\ \A i \in DOMAIN l : i - 1 \in 0 .. Len(l)
      BY <3>1
    <3> QED
      BY <3>2, <3>3, <3>4, <3>5 DEF PresentOf, MarksOf
  <2>3. \/ History!Grows(p.output, p'.output) /\ m' = m
        \/ /\ net'.lastOut = net.lastOut
           /\ \/ m' = Append(m, p) /\ p' = p
              \/ m' \in {<<>>, <<p>>} /\ p' = p
              \/ \E i \in DOMAIN m : p' = m[i] /\ m' = <<m[i]>>
              \/ p' = p /\ m' = m
    <3> HIDE DEF p, m
    <3> QED
      BY <2>1, <2>2 DEF TimelineStep
  <2> QED
    BY <2>3 DEF History!Next, History!Advance, History!Mark, History!Settle, History!Return,
                History!timeline
<1>3. Spec => [](IInv /\ LifeInv)
  BY LifeInvariance
<1> QED
  BY <1>1, <1>2, <1>3, PTL DEF Spec, ImplementsTimeline, History!Spec

(* What is in the final files stays there, whatever is rolled back: a restore *)
(* removes vehicle nodes from them by id, and ids are used again.            *)
THEOREM FinalFilesOnlyGrow == Spec => FilesOnlyGrow
<1>1. IInv /\ LifeInv /\ [Next]_vars =>
        [History!Grows(out, out')]_vars
  BY NextTold, SamePrefix DEF Told, FilesStep, History!Grows
<1>2. Spec => [](IInv /\ LifeInv)
  BY LifeInvariance
<1> QED
  BY <1>1, <1>2, PTL DEF Spec, FilesOnlyGrow

(***************************************************************************)
(* The final files at the end: every step once, in order, and every vehicle *)
(* with the instant of its creation.  OutputComplete is not inductive: it   *)
(* rests on what the files and the open snapshot hold at each step, and on  *)
(* the period that each call of Run is made in.                             *)
(***************************************************************************)
Since(a, b) == [i \in 1 .. b - a |-> a + i]

(* Two multiples of a number are at least the number apart.                *)
LEMMA Times == ASSUME NEW k \in Int, NEW m \in Int, NEW p \in Nat \ {0}, p * k < p * m
  PROVE p * k + p <= p * m
<1>1. k < m
  <2>1. m <= k => p * m <= p * k
    OBVIOUS
  <2> QED
    BY <2>1
<1>2. PICK j \in Nat : m = k + 1 + j
  <2>1. m - k - 1 \in Nat /\ m = k + 1 + (m - k - 1)
    BY <1>1
  <2> QED
    BY <2>1
<1>3. p * m = p * k + p + p * j
  BY <1>2
<1>4. p * j >= 0
  OBVIOUS
<1> QED
  BY <1>3, <1>4
(* A multiple of a number is a product.                                    *)
LEMMA Quotient == ASSUME NEW a \in Nat, NEW p \in Nat \ {0}, a % p = 0
  PROVE \E k \in Int : a = p * k
<1>1. a = p * (a \div p) + (a % p)
  OBVIOUS
<1> QED
  BY <1>1

(* A multiple of the period comes at least a period after the one before.  *)
LEMMA Boundary == ASSUME NEW a \in Nat, NEW b \in Nat, NEW p \in Nat \ {0}, a % p = 0, b % p = 0, a < b
  PROVE  a + p <= b
<1>1. PICK k \in Int : a = p * k
  BY Quotient
<1>2. PICK m \in Int : b = p * m
  BY Quotient
<1> QED
  BY <1>1, <1>2, Times
(* The multiple before a multiple.                                         *)
LEMMA LessPeriod ==
  ASSUME NEW a \in Nat, NEW p \in Nat \ {0}, a % p = 0, p <= a
  PROVE  (a - p) % p = 0
<1>1. PICK k \in Int : a = p * k
  BY Quotient
<1> DEFINE b == a - p
           q == b \div p
           r == b % p
<1>2. b \in Nat
  OBVIOUS
<1> HIDE DEF b
<1>3. b = p * q + r /\ r \in 0 .. p - 1 /\ q \in Int
  BY <1>2
<1> HIDE DEF q, r
<1> DEFINE m == k - 1 - q
<1>4. b = p * k - p
  BY <1>1 DEF b
<1>5. p * m = p * k - p - p * q
  BY <1>3
<1>6. r = p * m /\ m \in Int
  BY <1>3, <1>4, <1>5
<1> HIDE DEF m
<1>7. p * 0 = 0
  OBVIOUS
<1>8. p * 0 < p * m => p * 0 + p <= p * m
  BY <1>6, Times
<1>9. r = 0
  BY <1>3, <1>6, <1>7, <1>8
<1> QED
  BY <1>9 DEF r, b

(* No step was made since.                                                 *)
LEMMA SinceNone == ASSUME NEW a \in Nat PROVE Since(a, a) = <<>>
BY DEF Since
(* One more step.                                                          *)
LEMMA SinceMore == ASSUME NEW a \in Nat, NEW b \in Nat, a <= b
  PROVE Since(a, b) \in Seq(Nat) /\ Append(Since(a, b), b + 1) = Since(a, b + 1)
<1>1. b - a \in Nat /\ b - a + 1 = (b + 1) - a
  OBVIOUS
<1>2. Since(a, b) \in Seq(Nat) /\ Len(Since(a, b)) = b - a
  BY <1>1 DEF Since
<1> QED
  BY <1>1, <1>2 DEF Since
(* The steps made up to a snapshot, then since.                            *)
LEMMA SinceJoined ==
  ASSUME NEW a \in Nat, NEW b \in Nat, a <= b
  PROVE  Since(0, a) \o Since(a, b) = Since(0, b)
<1> DEFINE x == Since(0, a)
           y == Since(a, b)
           z == Since(0, b)
           s == x \o y
<1>1. /\ x \in Seq(Nat) /\ Len(x) = a /\ \A i \in 1 .. a : x[i] = i
      /\ y \in Seq(Nat) /\ Len(y) = b - a /\ \A i \in 1 .. b - a : y[i] = a + i
      /\ z \in Seq(Nat) /\ Len(z) = b /\ \A i \in 1 .. b : z[i] = i
  BY DEF Since
<1> HIDE DEF x, y, z
<1>2. /\ s \in Seq(Nat) /\ Len(s) = b
      /\ \A i \in 1 .. b : s[i] = IF i <= a THEN x[i] ELSE y[i - a]
  <2>1. Len(x) + Len(y) = b
    BY <1>1
  <2>2. /\ s \in Seq(Nat) /\ Len(s) = Len(x) + Len(y)
        /\ \A i \in 1 .. Len(x) + Len(y) : s[i] = IF i <= Len(x) THEN x[i] ELSE y[i - Len(x)]
    BY <1>1, ConcatProperties, SMTT(30)
  <2> HIDE DEF s
  <2> QED
    BY <1>1, <2>1, <2>2
<1> HIDE DEF s
<1>3. \A i \in 1 .. b : s[i] = z[i]
  <2> TAKE i \in 1 .. b
  <2>1. CASE i <= a
    BY <1>1, <1>2, <2>1
  <2>2. CASE i > a
    <3>1. i - a \in 1 .. b - a /\ a + (i - a) = i
      BY <2>2
    <3>2. y[i - a] = a + (i - a)
      BY <1>1, <3>1
    <3> QED
      BY <1>1, <1>2, <2>2, <3>1, <3>2
  <2> QED
    BY <2>1, <2>2
<1>4. s = z
  BY <1>1, <1>2, <1>3, SeqEqual
<1> QED
  BY <1>4 DEF s, x, y, z

(* Each vehicle created since a snapshot has a node with its instant.        *)
Filed(d, from, to) ==
  /\ \A id \in from .. to - 1 : id \in DOMAIN d.vehs
  /\ \A id \in DOMAIN d.vehs : id >= from => d.vehs[id].created # Unset

(* A creation is written with its instant.                                 *)
LEMMA FiledCreation ==
  ASSUME NEW d \in Docs, NEW from \in Int, NEW to \in VehIds, Filed(d, from, to),
         NEW t \in 1 .. Never
  PROVE  LET e == AddVehicule(d, to, t)
         IN  Filed(e, from, to + 1) /\ e.insts = d.insts
<1> DEFINE node == Node(t)
           e == WithNode(d, to, node)
<1>1. node \in Nodes /\ node.created # Unset
  <2>1. t \in 0 .. Never /\ t # 0
    BY SnapshotAssumption DEF Never
  <2> QED
    BY <2>1, NodeType DEF Node, Unset
<1> HIDE DEF node
<1>2. /\ e.insts = d.insts
      /\ e.vehs = [i \in DOMAIN d.vehs \cup {to} |-> IF i = to THEN node ELSE d.vehs[i]]
  BY <1>1, WithNodeType
<1>3. to \in Int
  BY SnapshotAssumption DEF VehIds
<1> HIDE DEF e
<1>4. Filed(e, from, to + 1)
  <2>1. \A id \in from .. to : id \in from .. to - 1 \/ id = to
    BY <1>3
  <2>2. (to + 1) - 1 = to
    BY <1>3
  <2>3. \A id \in from .. to : id \in DOMAIN e.vehs
    BY <1>2, <2>1 DEF Filed
  <2>4. ASSUME NEW id \in DOMAIN e.vehs, id >= from
        PROVE  e.vehs[id].created # Unset
    BY <1>1, <1>2, <2>4 DEF Filed
  <2> QED
    BY <2>2, <2>3, <2>4 DEF Filed
<1> QED
  BY <1>2, <1>4 DEF AddVehicule, e, node

(* The entry or the exit of a vehicle keeps the instant of its creation.     *)
LEMMA FiledUpdate ==
  ASSUME NEW d \in Docs, NEW from \in Int, NEW to \in Int, Filed(d, from, to),
         NEW id \in VehIds, id < to, NEW t \in 0 .. Never
  PROVE  /\ Filed(UpdateInstEntreeVehicule(d, id, t), from, to)
         /\ Filed(UpdateInstSortieVehicule(d, id, t), from, to)
         /\ UpdateInstEntreeVehicule(d, id, t).insts = d.insts
         /\ UpdateInstSortieVehicule(d, id, t).insts = d.insts
<1>1. NodeOf(d, id) \in Nodes /\ id \in Int
  BY NodeType, SnapshotAssumption DEF VehIds
<1>2. id >= from => NodeOf(d, id).created # Unset
  BY <1>1 DEF Filed, NodeOf
<1>3. ASSUME NEW node \in Nodes, node.created = NodeOf(d, id).created
      PROVE  Filed(WithNode(d, id, node), from, to) /\ WithNode(d, id, node).insts = d.insts
  <2> DEFINE e == WithNode(d, id, node)
  <2>1. /\ e.insts = d.insts
        /\ e.vehs = [i \in DOMAIN d.vehs \cup {id} |-> IF i = id THEN node ELSE d.vehs[i]]
    BY WithNodeType
  <2> HIDE DEF e
  <2>2. Filed(e, from, to)
    BY <1>2, <1>3, <2>1 DEF Filed
  <2> QED
    BY <2>1, <2>2 DEF e
<1> DEFINE a == [NodeOf(d, id) EXCEPT !.entered = t]
           b == [NodeOf(d, id) EXCEPT !.left = t]
<1>4. /\ a \in Nodes /\ a.created = NodeOf(d, id).created
      /\ b \in Nodes /\ b.created = NodeOf(d, id).created
  BY <1>1 DEF Nodes
<1> HIDE DEF a, b
<1>5. /\ Filed(WithNode(d, id, a), from, to) /\ WithNode(d, id, a).insts = d.insts
      /\ Filed(WithNode(d, id, b), from, to) /\ WithNode(d, id, b).insts = d.insts
  BY <1>3, <1>4
<1> QED
  BY <1>5 DEF UpdateInstEntreeVehicule, UpdateInstSortieVehicule, a, b

(* The parts of a step file what they do.                                    *)
Recorded(from, w) == /\ Valid(w) /\ w.net.inst \in Instants
                     /\ Filed(w.doc, from, w.net.lastId)

FiledFrom(from, w, x) == /\ Recorded(from, x) /\ x.net.inst = w.net.inst
                      /\ x.doc.insts = w.doc.insts

(* What is known where something is filed.                                   *)
LEMMA RecordedFacts ==
  ASSUME NEW from \in Int, NEW w, Recorded(from, w)
  PROVE  /\ Sound(w.net) /\ w.net \in Nets /\ w.doc \in Docs
         /\ w.net.inst \in 1 .. Never /\ w.net.inst \in 0 .. Never /\ w.net.lastId \in Int
<1>1. Sound(w.net) /\ w.doc \in Docs /\ w.net \in Nets
  BY DEF Recorded, Valid, Sound
<1>2. w.net.inst \in 1 .. Never /\ w.net.inst \in 0 .. Never
  BY SnapshotAssumption DEF Recorded, Instants, Never
<1> QED
  BY <1>1, <1>2, NetFields

(* A creation is filed.                                                      *)
LEMMA CreatedFiled ==
  ASSUME copies \in 0 .. MaxRollbacks, NEW from \in Int, NEW w, Recorded(from, w),
         NEW c \in Created(w)
  PROVE  FiledFrom(from, w, c)
<1> DEFINE n == w.net
           d == w.doc
<1>1. /\ Sound(n) /\ n \in Nets /\ d \in Docs /\ n.inst \in 1 .. Never /\ Valid(w)
      /\ n.lastId \in Int /\ Filed(d, from, n.lastId)
  BY RecordedFacts DEF Recorded
<1>2. Valid(c) /\ c.net.inst = n.inst
  BY <1>1, CreatedValid
<1>3. CASE c = w
  BY <1>3 DEF FiledFrom
<1>4. CASE n.lastId # MaxVehicles /\ c \in {GenerateVehicle(w), ActivateBus(w)}
  <2>1. n.lastId \in VehIds
    BY <1>1, <1>4, SoundIds
  <2>2. c.doc = AddVehicule(d, n.lastId, n.inst) /\ c.net.lastId = n.lastId + 1
    BY <1>1, <1>4, Writings, CreatedNets
  <2> HIDE DEF n, d
  <2>3. LET e == AddVehicule(d, n.lastId, n.inst)
        IN  Filed(e, from, n.lastId + 1) /\ e.insts = d.insts
    BY <1>1, <2>1, FiledCreation
  <2> QED
    BY <1>2, <2>2, <2>3 DEF FiledFrom, Recorded, n, d
<1> QED
  BY <1>3, <1>4 DEF Created

(* The entry of the ready vehicle is filed.                                  *)
LEMMA EnteredFiled ==
  ASSUME NEW from \in Int, NEW w, Recorded(from, w), w.net.ready # None
  PROVE  FiledFrom(from, w, ReadyEntered(w))
<1> DEFINE n == w.net
           d == w.doc
           x == ReadyEntered(w)
<1>1. /\ Sound(n) /\ n \in Nets /\ d \in Docs /\ n.inst \in 0 .. Never /\ Valid(w)
      /\ n.lastId \in Int /\ Filed(d, from, n.lastId)
  BY RecordedFacts DEF Recorded
<1>2. Valid(x) /\ x.net.inst = n.inst
  BY <1>1, EnteredValid
<1>3. n.ready \in VehIds /\ n.ready < n.lastId
  BY <1>1, SoundIds DEF Owned
<1>4. x.doc = UpdateInstEntreeVehicule(d, n.ready, n.inst) /\ x.net.lastId = n.lastId
  BY <1>1, Writings, MovedNets
<1> HIDE DEF n, d, x
<1>5. /\ Filed(UpdateInstEntreeVehicule(d, n.ready, n.inst), from, n.lastId)
      /\ UpdateInstEntreeVehicule(d, n.ready, n.inst).insts = d.insts
  BY <1>1, <1>3, FiledUpdate
<1> QED
  BY <1>2, <1>4, <1>5 DEF FiledFrom, Recorded, n, d, x

(* The entry of the first of the queue is filed.                             *)
LEMMA FirstFiled ==
  ASSUME NEW from \in Int, NEW w, Recorded(from, w), w.net.ready = None, w.net.waiting # <<>>
  PROVE  FiledFrom(from, w, FirstInserted(w))
<1> DEFINE n == w.net
           d == w.doc
           v == Head(n.waiting)
           x == FirstInserted(w)
<1>1. /\ Sound(n) /\ n \in Nets /\ d \in Docs /\ n.inst \in 0 .. Never /\ Valid(w)
      /\ n.lastId \in Int /\ Filed(d, from, n.lastId) /\ n.waiting # <<>>
  BY RecordedFacts DEF Recorded
<1>2. Valid(x) /\ x.net.inst = n.inst
  BY <1>1, FirstValid
<1>3. v.id \in VehIds /\ v.id < n.lastId
  BY <1>1, SoundIds DEF Owned
<1>4. x.doc = UpdateInstEntreeVehicule(d, v.id, n.inst) /\ x.net.lastId = n.lastId
  BY <1>1, Writings, MovedNets
<1> HIDE DEF n, d, v, x
<1>5. /\ Filed(UpdateInstEntreeVehicule(d, v.id, n.inst), from, n.lastId)
      /\ UpdateInstEntreeVehicule(d, v.id, n.inst).insts = d.insts
  BY <1>1, <1>3, FiledUpdate
<1> QED
  BY <1>2, <1>4, <1>5 DEF FiledFrom, Recorded, n, d, x

(* The entries of a step are filed.                                          *)
LEMMA InsertedFiled ==
  ASSUME NEW from \in Int, NEW w, Recorded(from, w), NEW e \in Inserted(w)
  PROVE  FiledFrom(from, w, e)
<1>1. CASE e = w
  BY <1>1 DEF FiledFrom
<1>2. ASSUME w.net.ready # None
      PROVE  FiledFrom(from, w, ReadyEntered(w)) /\ ReadyEntered(w).net.ready = None
  BY <1>2, EnteredFiled, MovedNets, RecordedFacts
<1>3. CASE w.net.ready # None /\ e = ReadyEntered(w)
  BY <1>2, <1>3
<1>4. CASE w.net.ready = None /\ w.net.waiting # <<>> /\ e = FirstInserted(w)
  BY <1>4, FirstFiled
<1>5. CASE /\ w.net.ready # None /\ ReadyEntered(w).net.waiting # <<>>
           /\ e = FirstInserted(ReadyEntered(w))
  <2> DEFINE x == ReadyEntered(w)
  <2>1. FiledFrom(from, w, x) /\ x.net.ready = None /\ x.net.waiting # <<>> /\ e = FirstInserted(x)
    BY <1>2, <1>5
  <2> HIDE DEF x
  <2>2. FiledFrom(from, x, e)
    BY <2>1, FirstFiled DEF FiledFrom
  <2> QED
    BY <2>1, <2>2 DEF FiledFrom
<1> QED
  BY <1>1, <1>3, <1>4, <1>5, InsertedCases

(* The exits of a step are filed.                                            *)
LEMMA DepartedFiled ==
  ASSUME NEW from \in Int, NEW w, Recorded(from, w), NEW x \in Departed(w)
  PROVE  FiledFrom(from, w, x)
<1>1. CASE x = w
  BY <1>1 DEF FiledFrom
<1>2. ASSUME NEW v \in w.net.vehs, v.id # w.net.ready, x = Left(w, v)
      PROVE  FiledFrom(from, w, x)
  <2> DEFINE n == w.net
             d == w.doc
  <2>1. /\ Sound(n) /\ n \in Nets /\ d \in Docs /\ n.inst \in 0 .. Never /\ Valid(w)
        /\ n.lastId \in Int /\ Filed(d, from, n.lastId)
    BY RecordedFacts DEF Recorded
  <2>2. Valid(x) /\ x.net.inst = n.inst
    BY <1>2, <2>1, LeftValid
  <2>3. v.id \in VehIds /\ v.id < n.lastId
    BY <2>1, SoundIds DEF Owned
  <2>4. x.doc = UpdateInstSortieVehicule(d, v.id, n.inst) /\ x.net.lastId = n.lastId
    BY <1>2, <2>1, Writings, MovedNets
  <2> HIDE DEF n, d
  <2>5. /\ Filed(UpdateInstSortieVehicule(d, v.id, n.inst), from, n.lastId)
        /\ UpdateInstSortieVehicule(d, v.id, n.inst).insts = d.insts
    BY <2>1, <2>3, FiledUpdate
  <2> QED
    BY <2>2, <2>4, <2>5 DEF FiledFrom, Recorded, n, d
<1> QED
  BY <1>1, <1>2 DEF Departed

(* Identifiers are natural numbers.                                          *)
LEMMA NatIds == VehIds \subseteq Nat
BY SnapshotAssumption DEF VehIds

(***************************************************************************)
(* What the files hold.  A driver has no snapshot open, and the final files *)
(* hold every step up to now; or it has one, and they hold the steps up to  *)
(* it while its temporary files, those without a number, hold the others.   *)
(***************************************************************************)
Closed(files, n) == /\ files.doc.insts = Since(0, n.inst) /\ files.rows = Since(0, n.inst)
                    /\ Filed(files.doc, 0, n.lastId)

Opened(files, s, n) ==
  /\ s.file = 0 /\ Closed(files, s.saved) /\ s.saved.inst <= n.inst
  /\ s.doc.insts = Since(s.saved.inst, n.inst) /\ s.rows = Since(s.saved.inst, n.inst)
  /\ Filed(s.doc, s.saved.lastId, n.lastId)

Complete(files, list, n) == \/ list = <<>> /\ Closed(files, n)
                            \/ Len(list) = 1 /\ Opened(files, list[1], n)

(* A step, seen from the document and the rows that it writes.               *)
LEMMA StepFiled ==
  ASSUME WorldInv, TimeStep, NEW from \in Int, Filed(CurrentDoc, from, net.lastId)
  PROVE  \E w : /\ w.doc \in Docs /\ Written(w.doc, <<net.inst + 1>>) /\ net' = w.net
                /\ net.inst + 1 \in Instants /\ net'.inst = net.inst + 1
                /\ w.doc.insts = Append(CurrentDoc.insts, net.inst + 1)
                /\ Filed(w.doc, from, net'.lastId)
<1>1. PICK c, e, w : StepMade(c, e, w)
  BY StepParts
<1>2. /\ Sound(net) /\ copies \in 0 .. MaxRollbacks /\ out \in Files /\ snapshots \in Seq(Snaps)
  BY DEF WorldInv
<1>3. net.inst < LastStep
  BY DEF TimeStep
<1> DEFINE d == CurrentDoc
           a == StartOf(net, d)
<1>4. d \in Docs
  BY <1>2, CurrentDocType
<1>5. /\ Valid(a) /\ a.doc = AddInstant(d, net.inst + 1) /\ a.net.inst = net.inst + 1
      /\ a.net.lastId = net.lastId /\ net.inst + 1 \in Instants
  BY <1>2, <1>3, <1>4, StartValid
<1>6. /\ c \in Created(a) /\ e \in Inserted(c) /\ w \in Departed(e)
      /\ net' = w.net /\ Written(w.doc, <<net.inst + 1>>)
  BY <1>1 DEF StepMade
<1>7. Filed(d, from, net.lastId)
  OBVIOUS
<1> HIDE DEF a, d
<1>8. a.doc.insts = Append(d.insts, net.inst + 1) /\ a.doc.vehs = d.vehs
  BY <1>4, <1>5 DEF AddInstant, Docs
<1>9. Recorded(from, a)
  BY <1>5, <1>7, <1>8 DEF Recorded, Filed
<1>10. FiledFrom(from, a, c)
  BY <1>2, <1>6, <1>9, CreatedFiled
<1>11. FiledFrom(from, c, e)
  BY <1>6, <1>10, InsertedFiled DEF FiledFrom
<1>12. FiledFrom(from, e, w)
  BY <1>6, <1>11, DepartedFiled DEF FiledFrom
<1>13. /\ w.doc \in Docs /\ w.net.inst = net.inst + 1 /\ w.doc.insts = a.doc.insts
       /\ Filed(w.doc, from, w.net.lastId)
  BY <1>5, <1>10, <1>11, <1>12 DEF FiledFrom, Recorded, Valid
<1> QED
  BY <1>5, <1>6, <1>8, <1>13 DEF d

(* One more element, appended as CSV rows are.                               *)
LEMMA SinceRow ==
  ASSUME NEW a \in Nat, NEW b \in Nat, a <= b
  PROVE  Since(a, b) \o <<b + 1>> = Since(a, b + 1)
<1> DEFINE s == Since(a, b)
<1>1. s \in Seq(Nat) /\ Append(s, b + 1) = Since(a, b + 1)
  BY SinceMore
<1>0. b + 1 \in Nat
  OBVIOUS
<1> HIDE DEF s
<1>2. s \o <<b + 1>> = Append(s, b + 1)
  BY <1>0, <1>1, AppendIsConcat
<1> QED
  BY <1>1, <1>2 DEF s

(* A step goes to the files in use.                                          *)
LEMMA StepComplete ==
  ASSUME WorldInv, TimeStep, Complete(out, snapshots, net)
  PROVE  /\ Complete(out', snapshots', net') /\ net'.inst = net.inst + 1
         /\ snapshots # <<>> => snapshots'[1].saved = snapshots[1].saved
<1>1. /\ Sound(net) /\ net \in Nets /\ out \in Files /\ snapshots \in Seq(Snaps)
      /\ net.inst \in Nat /\ net.inst + 1 \in Nat
  BY NetFields, SnapshotAssumption DEF WorldInv, Sound
<1>2. CASE snapshots = <<>>
  <2>1. CurrentDoc = out.doc /\ Closed(out, net)
    BY <1>2 DEF CurrentDoc, Complete
  <2>2. PICK w : /\ w.doc \in Docs /\ Written(w.doc, <<net.inst + 1>>) /\ net' = w.net
                 /\ net.inst + 1 \in Instants /\ net'.inst = net.inst + 1
                 /\ w.doc.insts = Append(CurrentDoc.insts, net.inst + 1)
                 /\ Filed(w.doc, 0, net'.lastId)
    BY <2>1, StepFiled DEF Closed
  <2>3. out' = [doc |-> w.doc, rows |-> out.rows \o <<net.inst + 1>>] /\ snapshots' = snapshots
    BY <1>2, <2>2 DEF Written
  <2>4. /\ Append(Since(0, net.inst), net.inst + 1) = Since(0, net.inst + 1)
        /\ Since(0, net.inst) \o <<net.inst + 1>> = Since(0, net.inst + 1)
    BY <1>1, SinceMore, SinceRow
  <2>5. Closed(out', net')
    BY <2>1, <2>2, <2>3, <2>4 DEF Closed
  <2> QED
    BY <1>2, <2>2, <2>3, <2>5 DEF Complete
<1>3. CASE Len(snapshots) = 1 /\ Opened(out, snapshots[1], net)
  <2> DEFINE s == snapshots[1]
             rows == <<net.inst + 1>>
  <2>1. snapshots # <<>> /\ 1 \in DOMAIN snapshots
    BY <1>1, <1>3
  <2>2. s \in Snaps /\ s.saved \in Backups /\ s.rows \in Seq(Instants)
    BY <1>1, <2>1, SnapFields
  <2>3. CurrentDoc = s.doc
    BY <1>1, <1>3, <2>1, CurrentDocType
  <2>4. s.saved.inst \in Nat /\ s.saved.lastId \in Int
    BY <2>2, BackupFields, SnapshotAssumption
  <2>5. /\ s.file = 0 /\ Closed(out, s.saved) /\ s.saved.inst <= net.inst
        /\ s.doc.insts = Since(s.saved.inst, net.inst) /\ s.rows = Since(s.saved.inst, net.inst)
        /\ Filed(s.doc, s.saved.lastId, net.lastId)
    BY <1>3 DEF Opened
  <2>6. PICK w : /\ w.doc \in Docs /\ Written(w.doc, rows) /\ net' = w.net
                 /\ net.inst + 1 \in Instants /\ net'.inst = net.inst + 1
                 /\ w.doc.insts = Append(CurrentDoc.insts, net.inst + 1)
                 /\ Filed(w.doc, s.saved.lastId, net'.lastId)
    BY <2>3, <2>4, <2>5, StepFiled
  <2> DEFINE t == [s EXCEPT !.doc = w.doc, !.rows = @ \o rows]
  <2>7. out' = out /\ snapshots' = [snapshots EXCEPT ![1].doc = w.doc, ![1].rows = @ \o rows]
    BY <1>3, <2>1, <2>6 DEF Written
  <2> HIDE DEF rows
  <2>8. snapshots' = [snapshots EXCEPT ![1] = t]
    BY <2>1, <2>2, <2>7 DEF Snaps
  <2>9. t.saved = s.saved /\ t.doc = w.doc /\ t.rows = s.rows \o rows /\ t.file = s.file
    BY <2>2 DEF Snaps
  <2> HIDE DEF t, s
  <2>10. Len(snapshots') = 1 /\ snapshots'[1] = t
    BY <1>1, <1>3, <2>1, <2>8
  <2>11. /\ Append(Since(s.saved.inst, net.inst), net.inst + 1) = Since(s.saved.inst, net.inst + 1)
         /\ Since(s.saved.inst, net.inst) \o rows = Since(s.saved.inst, net.inst + 1)
    BY <1>1, <2>4, <2>5, SinceMore, SinceRow DEF rows
  <2>12. s.saved.inst <= net'.inst
    BY <1>1, <2>4, <2>5, <2>6
  <2>13. Opened(out', t, net')
    BY <2>3, <2>5, <2>6, <2>7, <2>9, <2>11, <2>12 DEF Opened
  <2> QED
    BY <2>6, <2>9, <2>10, <2>13 DEF Complete, s
<1> QED
  BY <1>2, <1>3 DEF Complete

(* The files of an iteration follow those of the periods before.             *)
LEMMA CommitComplete ==
  ASSUME NEW files \in Files, NEW list \in Seq(Snaps), NEW n \in Nets, Complete(files, list, n)
  PROVE  Closed(Commit(files, list), n)
<1>1. CASE list = <<>>
  BY <1>1, CommitNone DEF Complete
<1>2. CASE Len(list) = 1 /\ Opened(files, list[1], n)
  <2> DEFINE s == list[1]
  <2>1. 1 \in DOMAIN list
    BY <1>2
  <2>2. s \in Snaps /\ s.saved \in Backups /\ s.doc \in Docs /\ s.rows \in Seq(Instants)
    BY <2>1, SnapFields
  <2>3. Commit(files, list) = Validated(files, s)
    <3>1. SubSeq(list, 1, 1) = list /\ SubSeq(list, 1, 0) = <<>>
      BY <1>2, SubSeqFull, SubSeqEmpty
    <3>2. PICK k \in Nat : k = 0 /\ k + 1 = 1 /\ k < Len(list)
      BY <1>2
    <3>3. Commit(files, SubSeq(list, 1, k + 1)) =
            Validated(Commit(files, SubSeq(list, 1, k)), list[k + 1])
      <4> HIDE DEF s
      <4> QED
        BY <3>2, CommitOneMore
    <3>4. Commit(files, list) = Validated(Commit(files, <<>>), s)
      BY <3>1, <3>2, <3>3
    <3> QED
      BY <3>4, CommitNone
  <2>4. /\ s.saved.inst \in Nat /\ s.saved.lastId \in Int /\ n.inst \in Nat /\ n.lastId \in Int
    BY <2>2, BackupFields, NetFields, SnapshotAssumption
  <2>5. /\ s.file = 0 /\ s.saved.inst <= n.inst
        /\ s.doc.insts = Since(s.saved.inst, n.inst) /\ s.rows = Since(s.saved.inst, n.inst)
        /\ Filed(s.doc, s.saved.lastId, n.lastId)
        /\ files.doc.insts = Since(0, s.saved.inst) /\ files.rows = Since(0, s.saved.inst)
        /\ Filed(files.doc, 0, s.saved.lastId)
    BY <1>2 DEF Opened, Closed
  <2> HIDE DEF s
  <2> DEFINE a == files.doc
             b == s.doc
             d == Add(a, b)
  <2>6. Validated(files, s) = [doc |-> d, rows |-> files.rows \o s.rows]
    BY <2>5 DEF Validated, Converged
  <2>7. Since(0, s.saved.inst) \o Since(s.saved.inst, n.inst) = Since(0, n.inst)
    BY <2>4, <2>5, SinceJoined
  <2>8. a \in Docs /\ b \in Docs
    BY <2>2, FileFields
  <2>9. /\ d.insts = a.insts \o b.insts /\ DOMAIN d.vehs = DOMAIN a.vehs \cup DOMAIN b.vehs
        /\ \A j \in DOMAIN d.vehs : d.vehs[j] =
             IF j \in DOMAIN a.vehs THEN MergedNode(a.vehs[j], NodeOf(b, j)) ELSE b.vehs[j]
    BY <2>8, AddFields
  <2>10. /\ \A j \in DOMAIN a.vehs : a.vehs[j] \in Nodes
         /\ DOMAIN a.vehs \subseteq Nat /\ DOMAIN b.vehs \subseteq Nat
    BY <2>8, DocFields, NatIds
  <2>11. \A x \in Nodes : \A y : MergedNode(x, y).created = x.created
    BY DEF MergedNode, Nodes
  <2>12. Filed(a, 0, s.saved.lastId) /\ Filed(b, s.saved.lastId, n.lastId)
    BY <2>5
  <2> HIDE DEF a, b, d
  <2>13. Filed(d, 0, n.lastId)
    <3>1. ASSUME NEW id \in 0 .. n.lastId - 1 PROVE id \in DOMAIN d.vehs
      <4>1. CASE id < s.saved.lastId
        <5>1. id \in 0 .. s.saved.lastId - 1
          BY <2>4, <4>1
        <5> QED
          BY <2>9, <2>12, <5>1 DEF Filed
      <4>2. CASE id >= s.saved.lastId
        <5>1. id \in s.saved.lastId .. n.lastId - 1
          BY <2>4, <4>2
        <5> QED
          BY <2>9, <2>12, <5>1 DEF Filed
      <4> QED
        BY <2>4, <4>1, <4>2
    <3>2. ASSUME NEW id \in DOMAIN d.vehs PROVE d.vehs[id].created # Unset
      <4>1. CASE id \in DOMAIN a.vehs
        <5>1. a.vehs[id].created # Unset
          BY <2>10, <2>12, <4>1 DEF Filed
        <5> QED
          BY <2>9, <2>10, <2>11, <4>1, <5>1
      <4>2. CASE id \notin DOMAIN a.vehs
        <5>1. id \in DOMAIN b.vehs /\ id \in Nat /\ id \notin 0 .. s.saved.lastId - 1
          BY <2>9, <2>10, <2>12, <4>2 DEF Filed
        <5>2. id >= s.saved.lastId
          BY <2>4, <5>1
        <5> QED
          BY <2>9, <2>12, <4>2, <5>1, <5>2 DEF Filed
      <4> QED
        BY <4>1, <4>2
    <3> QED
      BY <3>1, <3>2 DEF Filed
  <2>14. a.insts \o b.insts = Since(0, n.inst) /\ files.rows \o s.rows = Since(0, n.inst)
    BY <2>5, <2>7 DEF a, b
  <2> QED
    BY <2>3, <2>6, <2>9, <2>13, <2>14 DEF Closed
<1> QED
  BY <1>1, <1>2 DEF Complete

(* Nothing has been written since a snapshot is taken.                       *)
LEMMA OpenedEmpty ==
  ASSUME NEW files, NEW s \in Backups, Closed(files, s), NEW n, n.inst = s.inst,
         n.lastId = s.lastId, NEW list, list = <<WithTempFiles(s, 0)>>
  PROVE  Complete(files, list, n) /\ list[1].saved = s
<1> DEFINE t == WithTempFiles(s, 0)
<1>1. /\ t.saved = s /\ t.doc = EmptyDoc /\ t.rows = <<>> /\ t.file = 0
      /\ EmptyDoc.insts = <<>> /\ DOMAIN EmptyDoc.vehs = {}
  BY DEF WithTempFiles, EmptyDoc
<1>2. s.inst \in Nat /\ s.lastId \in Int
  BY BackupFields, SnapshotAssumption
<1>3. Since(s.inst, s.inst) = <<>>
  BY <1>2, SinceNone
<1>4. Filed(EmptyDoc, s.lastId, s.lastId)
  BY <1>1, <1>2 DEF Filed
<1> HIDE DEF t
<1>5. Opened(files, t, n)
  BY <1>1, <1>2, <1>3, <1>4 DEF Opened
<1>6. Len(list) = 1 /\ list[1] = t
  BY DEF t
<1> QED
  BY <1>1, <1>5, <1>6 DEF Complete

(* A snapshot is taken between two periods.                                  *)
LEMMA TakenComplete ==
  ASSUME NEW files, NEW n, Sound(n), Closed(files, n)
  PROVE  /\ Complete(files, Taken(n, <<>>), n)
         /\ Taken(n, <<>>)[1].saved.inst = n.inst
<1>1. /\ Backup(n) \in Backups /\ Backup(n).inst = n.inst /\ Backup(n).lastId = n.lastId
  BY BackupSound DEF Backup
<1>2. Closed(files, Backup(n))
  BY <1>1 DEF Closed
<1>3. Taken(n, <<>>) = <<WithTempFiles(Backup(n), 0)>>
  BY DEF Taken
<1> QED
  BY <1>1, <1>2, <1>3, OpenedEmpty

(* An iteration starts again from the snapshot, with empty files.            *)
LEMMA RolledBackComplete ==
  ASSUME WorldInv, snapshots # <<>>, Complete(out, snapshots, net), SimulationRollback(1)
  PROVE  /\ Complete(out', snapshots', net') /\ net'.inst = snapshots[1].saved.inst
         /\ snapshots'[1].saved = snapshots[1].saved
<1> DEFINE s == snapshots[1].saved
<1>1. /\ net \in Nets /\ out \in Files /\ snapshots \in Seq(Snaps)
  BY DEF WorldInv, Sound
<1>2. s \in Backups /\ Closed(out, s)
  BY <1>1, SnapFields DEF Complete, Opened
<1>3. Commit(out, SubSeq(snapshots, 1, 1 - 1)) = out
  <2>1. SubSeq(snapshots, 1, 1 - 1) = <<>>
    BY SubSeqEmpty
  <2> QED
    BY <2>1, CommitNone
<1>4. /\ net' = Restored(net, s) /\ out' = [out EXCEPT !.doc = RemoveVehicules(@, s.lastId)]
      /\ snapshots' = <<WithTempFiles(s, 0)>>
  BY <1>3 DEF SimulationRollback
<1> HIDE DEF s
<1>5. net'.inst = s.inst /\ net'.lastId = s.lastId
  BY <1>1, <1>2, <1>4, RestoredFields
<1> DEFINE d == out.doc
           r == RemoveVehicules(d, s.lastId)
<1>6. d \in Docs /\ s.lastId \in Int
  BY <1>1, <1>2, FileFields, BackupFields
<1>7. out'.doc = r /\ out'.rows = out.rows
  BY <1>1, <1>4 DEF Files
<1>8. /\ r.insts = d.insts /\ DOMAIN r.vehs = {j \in DOMAIN d.vehs : j < s.lastId}
      /\ \A j \in DOMAIN r.vehs : r.vehs[j] = d.vehs[j]
  BY <1>6 DEF RemoveVehicules, Docs
<1>9. Filed(d, 0, s.lastId) /\ d.insts = Since(0, s.inst) /\ out.rows = Since(0, s.inst)
  BY <1>2 DEF Closed
<1> HIDE DEF d, r
<1>10. Filed(r, 0, s.lastId)
  BY <1>6, <1>8, <1>9 DEF Filed
<1>11. Closed(out', s)
  BY <1>7, <1>8, <1>9, <1>10 DEF Closed
<1> QED
  BY <1>2, <1>4, <1>5, <1>11, OpenedEmpty DEF s

(* The end of the simulation marks the vehicles that are still there.        *)
LEMMA FinishComplete ==
  ASSUME WorldInv, FinSimuTrafic, snapshots = <<>>, Closed(out, net)
  PROVE  /\ snapshots' = <<>> /\ out'.doc.insts = Since(0, net.inst)
         /\ out'.rows = Since(0, net.inst)
         /\ \A id \in DOMAIN out'.doc.vehs : out'.doc.vehs[id].created # Unset
<1> DEFINE d == out.doc
           e == NeverLeft(d, net.vehs)
           S == Ids(net.vehs)
<1>1. /\ Sound(net) /\ net \in Nets /\ out \in Files
  BY DEF WorldInv, Sound
<1>2. CurrentDoc = d
  BY DEF CurrentDoc
<1>3. Written(e, <<>>) /\ Marked(d, e, S)
  BY <1>2, FinishWrites
<1>4. d \in Docs /\ out.rows \in Seq(Instants)
  BY <1>1, FileFields
<1>5. S \subseteq 0 .. net.lastId - 1
  <2>1. \A v \in net.vehs : v.id \in VehIds /\ v.id < net.lastId
    BY <1>1, SoundIds DEF Owned
  <2>2. net.lastId \in Int
    BY <1>1, NetFields
  <2> QED
    BY <2>1, <2>2, SnapshotAssumption DEF Ids, VehIds
<1>6. Filed(d, 0, net.lastId) /\ d.insts = Since(0, net.inst) /\ out.rows = Since(0, net.inst)
  BY DEF Closed
<1>7. out' = [doc |-> e, rows |-> out.rows \o <<>>] /\ snapshots' = <<>>
  BY <1>3 DEF Written
<1>8. out.rows \o <<>> = out.rows
  BY <1>4, ConcatEmptySeq
<1> HIDE DEF d, e, S
<1>9. DOMAIN d.vehs \subseteq Nat /\ \A id \in DOMAIN d.vehs : d.vehs[id] \in Nodes
  BY <1>4, DocFields, NatIds
<1>10. ASSUME NEW id \in DOMAIN e.vehs PROVE e.vehs[id].created # Unset
  <2>1. id \in DOMAIN d.vehs /\ d.vehs[id].created # Unset
    BY <1>3, <1>5, <1>6, <1>9 DEF Marked, Filed
  <2>2. e.vehs[id] = IF id \in S THEN [d.vehs[id] EXCEPT !.left = Never] ELSE d.vehs[id]
    BY <1>3, <2>1 DEF Marked, NodeOf
  <2> QED
    BY <1>9, <2>1, <2>2 DEF Nodes
<1> QED
  BY <1>3, <1>6, <1>7, <1>8, <1>10 DEF Marked

(***************************************************************************)
(* The periods.  An iteration starts from a snapshot taken between two      *)
(* periods, before the end; the call that follows the rollback of the last  *)
(* period is skipped, and is never the one that ends the simulation.        *)
(***************************************************************************)
Turn ==
  /\ nIteration > 0 => /\ snapshots[1].saved.inst % period = 0
                       /\ snapshots[1].saved.inst < DureeSimu
  /\ bLastInstSimu /\ nIteration > 0 =>
       \/ pc \in {"start", "return"} /\ net.inst <= LastStep - period
       \/ pc = "step" /\ net.inst < LastStep - period
  /\ pc = "init" => nIteration = 0 /\ net.inst = 0
  /\ pc \in {"start", "step"} => net.inst < LastStep
  /\ pc = "end" => net.inst = LastStep
  /\ pc = "return" => net.inst = LastStep \/ nIteration > 0
  /\ pc = "return" /\ nIteration > 0 => net.inst < LastStep

DriverInv ==
  /\ ~master /\ pc # "done" =>
       Complete(out, snapshots, net) /\ (EvenPeriods => Turn)
  /\ OutputComplete

(* The four outcomes of a call of Run.                                       *)
Skipped == /\ UNCHANGED <<world, nIteration>>
           /\ \/ net.inst % period # 0 /\ bLastInstSimu' = bLastInstSimu
              \/ bLastInstSimu /\ ~bLastInstSimu'
              \/ nIteration = 0

Begun == /\ net' = net /\ nIteration' = 1 /\ ~bLastInstSimu'
         /\ net.inst < DureeSimu /\ net.inst % period = 0
         /\ snapshots'[1].saved.inst = net.inst

Over == net' = net /\ nIteration' = 0 /\ net.inst >= DureeSimu

Again == /\ nIteration > 0 /\ nIteration' > 0 /\ net.inst % period = 0
         /\ bLastInstSimu' => net.inst = DureeSimu
         /\ net'.inst = snapshots[1].saved.inst
         /\ snapshots'[1].saved = snapshots[1].saved

(* The numbers of a driver that has not finished.                            *)
LEMMA DriverFacts ==
  ASSUME IInv, pc # "done", ~master
  PROVE  /\ WorldInv /\ Sound(net) /\ net \in Nets /\ out \in Files /\ snapshots \in Seq(Snaps)
         /\ net.inst \in Nat /\ net.inst <= LastStep /\ LastStep \in Nat /\ DureeSimu \in Nat
         /\ period \in Nat \ {0} /\ nIteration \in Nat /\ NbItMax \in Nat
         /\ bLastInstSimu \in BOOLEAN /\ Len(snapshots) = (IF nIteration > 0 THEN 1 ELSE 0)
         /\ (nIteration = 0 => snapshots = <<>>)
         /\ (nIteration > 0 => /\ snapshots # <<>> /\ snapshots[1].saved.inst \in Nat)
<1>1. WorldInv /\ Sound(net) /\ net \in Nets /\ out \in Files /\ snapshots \in Seq(Snaps)
  BY InvWorld DEF WorldInv, Sound
<1>2. /\ LastStep \in Nat /\ DureeSimu \in Nat /\ NbItMax \in Nat /\ Periods \subseteq 1 .. LastStep
  BY SnapshotAssumption, AssignmentAssumption
<1>3. /\ period \in Periods /\ nIteration \in 0 .. NbItMax \cup {1} /\ bLastInstSimu \in BOOLEAN
      /\ Len(snapshots) = (IF nIteration > 0 THEN 1 ELSE 0)
  BY DEF IInv, Values, OneSnapshot
<1>4. nIteration \in Nat /\ period \in Nat \ {0}
  BY <1>2, <1>3
<1>5. net.inst \in Nat /\ net.inst <= LastStep
  BY <1>1, <1>2, NetFields
<1>6. nIteration = 0 => snapshots = <<>>
  BY <1>1, <1>3
<1>7. nIteration > 0 => snapshots # <<>> /\ snapshots[1].saved.inst \in Nat
  <2> SUFFICES ASSUME nIteration > 0
               PROVE  snapshots # <<>> /\ snapshots[1].saved.inst \in Nat
    OBVIOUS
  <2>0. Len(snapshots) = 1
    BY <1>3
  <2> DEFINE list == snapshots
  <2>a. list \in Seq(Snaps) /\ Len(list) = 1
    BY <1>1, <2>0
  <2> HIDE DEF list
  <2>b. 1 \in DOMAIN list /\ list # <<>>
    BY <2>a
  <2>1. 1 \in DOMAIN snapshots /\ snapshots # <<>>
    BY <2>b DEF list
  <2>2. snapshots[1].saved \in Backups
    BY <1>1, <2>1, SnapFields
  <2> QED
    BY <1>2, <2>1, <2>2, BackupFields
<1> QED
  BY <1>1, <1>2, <1>3, <1>4, <1>5, <1>6, <1>7

(* A call of Run has one of the outcomes, and keeps the files complete.      *)
LEMMA RunOutcome ==
  ASSUME IInv, pc # "done", ~master, Run, Complete(out, snapshots, net)
  PROVE  /\ Complete(out', snapshots', net')
         /\ Skipped \/ Begun \/ Over \/ Again
<1>1. /\ WorldInv /\ Sound(net) /\ net \in Nets /\ out \in Files /\ snapshots \in Seq(Snaps)
      /\ net.inst \in Nat /\ DureeSimu \in Nat /\ nIteration \in Nat /\ NbItMax \in Nat
      /\ bLastInstSimu \in BOOLEAN
      /\ (nIteration = 0 => snapshots = <<>>) /\ (nIteration > 0 => snapshots # <<>>)
  BY DriverFacts
<1>2. CASE DuringPeriod /\ UNCHANGED <<world, nIteration, bLastInstSimu>>
  BY <1>2 DEF DuringPeriod, Skipped, world
<1>3. CASE AlreadyRun
  BY <1>3 DEF AlreadyRun, Skipped, world
<1>4. CASE /\ ~DuringPeriod /\ ~bLastInstSimu /\ bLastInstSimu' = (net.inst = DureeSimu)
           /\ FirstIteration
  <2>1. net.inst % period = 0 /\ snapshots = <<>> /\ nIteration = 0
    BY <1>1, <1>4 DEF DuringPeriod, FirstIteration
  <2>2. CASE BeforeEnd(net.inst)
    <3>1. /\ snapshots' = Taken(net, <<>>) /\ nIteration' = 1 /\ net' = net /\ out' = out
          /\ net.inst < DureeSimu /\ ~bLastInstSimu'
      BY <1>1, <1>4, <2>1, <2>2 DEF FirstIteration, TakeSimulationSnapshot, BeforeEnd
    <3>2. Closed(out, net)
      BY <2>1 DEF Complete
    <3>3. Complete(out, Taken(net, <<>>), net) /\ Taken(net, <<>>)[1].saved.inst = net.inst
      BY <1>1, <3>2, TakenComplete
    <3> QED
      BY <2>1, <3>1, <3>3 DEF Begun
  <2>3. CASE ~BeforeEnd(net.inst)
    BY <1>1, <1>4, <2>1, <2>3 DEF FirstIteration, BeforeEnd, Skipped, world
  <2> QED
    BY <2>2, <2>3
<1>5. CASE /\ ~DuringPeriod /\ ~bLastInstSimu /\ bLastInstSimu' = (net.inst = DureeSimu)
           /\ Equilibrium
  <2>1. net.inst % period = 0 /\ out' = Commit(out, snapshots) /\ net' = net
    BY <1>5 DEF DuringPeriod, Equilibrium
  <2>2. Closed(out', net)
    BY <1>1, <2>1, CommitComplete
  <2>3. CASE BeforeEnd(net.inst)
    <3>1. snapshots' = Taken(net, <<>>) /\ nIteration' = 1 /\ net.inst < DureeSimu
          /\ ~bLastInstSimu'
      BY <1>1, <1>5, <2>3 DEF Equilibrium, BeforeEnd
    <3>2. Complete(out', Taken(net, <<>>), net) /\ Taken(net, <<>>)[1].saved.inst = net.inst
      BY <1>1, <2>2, TakenComplete
    <3> QED
      BY <2>1, <3>1, <3>2 DEF Begun
  <2>4. CASE ~BeforeEnd(net.inst)
    BY <1>1, <1>5, <2>1, <2>2, <2>4 DEF Equilibrium, BeforeEnd, Over, Complete
  <2> QED
    BY <2>3, <2>4
<1>6. CASE /\ ~DuringPeriod /\ ~bLastInstSimu /\ bLastInstSimu' = (net.inst = DureeSimu)
           /\ NextIteration
  <2>1. /\ net.inst % period = 0 /\ nIteration > 0 /\ SimulationRollback(1)
        /\ nIteration' \in {nIteration, nIteration + 1}
    BY <1>1, <1>6 DEF DuringPeriod, NextIteration
  <2>2. /\ Complete(out', snapshots', net') /\ net'.inst = snapshots[1].saved.inst
        /\ snapshots'[1].saved = snapshots[1].saved
    BY <1>1, <2>1, RolledBackComplete
  <2> QED
    BY <1>1, <1>6, <2>1, <2>2 DEF Again
<1> QED
  BY <1>2, <1>3, <1>4, <1>5, <1>6 DEF Run

(* A call at the start of a step, or before the first.                       *)
LEMMA TurnStart ==
  ASSUME IInv, ~master, EvenPeriods, DureeSimu <= LastStep, Turn, pc \in {"init", "start"},
         period' = period,
         pc' = IF pc = "init" THEN "start" ELSE "step",
         pc = "init" \/ net.inst # 0, Skipped \/ Begun \/ Over \/ Again
  PROVE  Turn'
<1> DEFINE s == snapshots[1].saved.inst
<1>1. /\ net.inst \in Nat /\ LastStep \in Nat /\ DureeSimu \in Nat /\ period \in Nat \ {0}
      /\ nIteration \in Nat /\ bLastInstSimu \in BOOLEAN /\ (nIteration > 0 => s \in Nat)
  BY DriverFacts
<1>2. /\ nIteration > 0 => s % period = 0 /\ s < DureeSimu
      /\ bLastInstSimu /\ nIteration > 0 => pc = "start" /\ net.inst <= LastStep - period
      /\ pc = "init" => nIteration = 0 /\ net.inst = 0
      /\ net.inst < LastStep /\ LastStep % period = 0 /\ period < LastStep
  BY <1>1 DEF Turn, EvenPeriods
<1>3. CASE Skipped
  <2>1. /\ net' = net /\ nIteration' = nIteration /\ snapshots' = snapshots
        /\ \/ net.inst % period # 0 /\ bLastInstSimu' = bLastInstSimu
           \/ ~bLastInstSimu'
           \/ nIteration = 0
    BY <1>3 DEF Skipped, world
  <2>2. bLastInstSimu' /\ nIteration' > 0 => pc' = "step" /\ net'.inst < LastStep - period
    <3> SUFFICES ASSUME bLastInstSimu', nIteration' > 0
                 PROVE  pc' = "step" /\ net'.inst < LastStep - period
      OBVIOUS
    <3>0. nIteration > 0 /\ nIteration # 0
      BY <1>1, <2>1
    <3>1. net.inst % period # 0 /\ bLastInstSimu /\ nIteration > 0
      BY <2>1, <3>0, Zenon
    <3>2. net.inst # LastStep - period
      <4>1. period <= LastStep
        BY <1>1, <1>2
      <4>2. (LastStep - period) % period = 0
        BY <1>1, <1>2, <4>1, LessPeriod
      <4> QED
        BY <3>1, <4>2
    <3> QED
      BY <1>1, <1>2, <2>1, <3>1, <3>2
  <2> QED
    BY <1>1, <1>2, <2>1, <2>2 DEF Turn
<1>4. CASE Begun
  BY <1>1, <1>2, <1>4 DEF Begun, Turn
<1>5. CASE Over
  BY <1>1, <1>2, <1>5 DEF Over, Turn
<1>6. CASE Again
  <2>1. /\ nIteration > 0 /\ nIteration' > 0 /\ net.inst % period = 0
        /\ (bLastInstSimu' => net.inst = DureeSimu) /\ net'.inst = s
        /\ snapshots'[1].saved.inst = s
    BY <1>6 DEF Again
  <2>2. net.inst + period <= LastStep
    BY <1>1, <1>2, <2>1, Boundary
  <2>3. pc' = "step"
    BY <1>1, <1>2, <2>1
  <2>4. s < LastStep
    BY <1>1, <1>2, <2>1
  <2>5. bLastInstSimu' => net'.inst < LastStep - period
    BY <1>1, <1>2, <2>1, <2>2
  <2> HIDE DEF s
  <2> QED
    BY <1>2, <2>1, <2>3, <2>4, <2>5 DEF Turn
<1> QED
  BY <1>3, <1>4, <1>5, <1>6

(* The call at the end of the last step.                                     *)
LEMMA TurnEnd ==
  ASSUME IInv, ~master, EvenPeriods, DureeSimu <= LastStep, Turn, pc = "end", period' = period,
         pc' = "return", Skipped \/ Begun \/ Over \/ Again
  PROVE  Turn'
<1> DEFINE s == snapshots[1].saved.inst
<1>1. /\ net.inst \in Nat /\ LastStep \in Nat /\ DureeSimu \in Nat /\ period \in Nat \ {0}
      /\ nIteration \in Nat /\ bLastInstSimu \in BOOLEAN /\ (nIteration > 0 => s \in Nat)
  BY DriverFacts
<1>2. /\ nIteration > 0 => s % period = 0 /\ s < DureeSimu
      /\ ~(bLastInstSimu /\ nIteration > 0)
      /\ net.inst = LastStep /\ LastStep % period = 0 /\ period < LastStep
  BY <1>1 DEF Turn, EvenPeriods
<1>3. CASE Skipped
  <2>1. net' = net /\ nIteration' = nIteration /\ nIteration = 0
    BY <1>1, <1>2, <1>3 DEF Skipped, world
  <2> QED
    BY <1>1, <1>2, <2>1 DEF Turn
<1>4. ~Begun
  BY <1>1, <1>2 DEF Begun
<1>5. CASE Over
  BY <1>1, <1>2, <1>5 DEF Over, Turn
<1>6. CASE Again
  <2>1. /\ nIteration > 0 /\ nIteration' > 0 /\ net'.inst = s /\ snapshots'[1].saved.inst = s
    BY <1>6 DEF Again
  <2>2. s + period <= LastStep
    BY <1>1, <1>2, <2>1, Boundary
  <2>3. s < LastStep /\ s <= LastStep - period
    BY <1>1, <1>2, <2>1, <2>2
  <2> HIDE DEF s
  <2> QED
    BY <1>2, <2>1, <2>3 DEF Turn
<1> QED
  BY <1>3, <1>4, <1>5, <1>6

(* The rest of the driver: the steps, and the return of SimuTrafic.          *)
LEMMA TurnElsewhere ==
  ASSUME IInv, ~master, Turn, UNCHANGED <<period, Counters>>,
         \/ /\ pc = "step" /\ net'.inst = net.inst + 1
            /\ pc' = IF net'.inst >= LastStep THEN "end" ELSE "start"
            /\ nIteration > 0 => snapshots'[1].saved = snapshots[1].saved
         \/ /\ pc = "return" /\ pc' = "start" /\ net.inst < LastStep /\ UNCHANGED world
  PROVE  Turn'
<1> DEFINE s == snapshots[1].saved.inst
<1>1. /\ net.inst \in Nat /\ LastStep \in Nat /\ DureeSimu \in Nat /\ period \in Nat \ {0}
      /\ nIteration \in Nat /\ bLastInstSimu \in BOOLEAN /\ (nIteration > 0 => s \in Nat)
  BY DriverFacts
<1>2. nIteration > 0 => s % period = 0 /\ s < DureeSimu
  BY DEF Turn
<1>3. period' = period /\ nIteration' = nIteration /\ bLastInstSimu' = bLastInstSimu
  BY DEF Counters
<1>4. nIteration > 0 => (snapshots[1].saved.inst)' = s
  BY DEF world
<1>5. CASE /\ pc = "step" /\ net'.inst = net.inst + 1
           /\ pc' = IF net'.inst >= LastStep THEN "end" ELSE "start"
  <2>1. net.inst < LastStep /\ (bLastInstSimu /\ nIteration > 0 => net.inst < LastStep - period)
    BY <1>5 DEF Turn
  <2> HIDE DEF s
  <2> QED
    BY <1>1, <1>2, <1>3, <1>4, <1>5, <2>1 DEF Turn
<1>6. CASE /\ pc = "return" /\ pc' = "start" /\ net.inst < LastStep /\ UNCHANGED world
  <2>1. bLastInstSimu /\ nIteration > 0 => net.inst <= LastStep - period
    BY <1>6 DEF Turn
  <2>2. net' = net
    BY <1>6 DEF world
  <2> HIDE DEF s
  <2> QED
    BY <1>1, <1>2, <1>3, <1>4, <1>6, <2>1, <2>2 DEF Turn
<1> QED
  BY <1>5, <1>6

(* Every step keeps the files complete and the periods in turn.              *)
LEMMA DriverStep ==
  ASSUME DureeSimu <= LastStep, IInv, DriverInv, [Next]_vars
  PROVE  DriverInv'
<1>1. (master => pc = "start") /\ (~master /\ pc # "done" => Complete(out, snapshots, net))
  BY DEF IInv, Driven, DriverInv
<1>2. ASSUME master PROVE DriverInv'
  <2>1. pc = "start"
    BY <1>1, <1>2
  <2>2. master' = master /\ pc' # "done"
    BY <1>2, <2>1 DEF Next, InitialRun, StartOfStep, Step, EndOfStep, Return, Finish, Client, At,
                      GoTo, vars
  <2> QED
    BY <1>2, <2>2 DEF DriverInv, OutputComplete
<1>3. ASSUME ~master, InitialRun PROVE DriverInv'
  <2>1. pc = "init" /\ pc' = "start" /\ UNCHANGED <<master, period>> /\ Run
    BY <1>3 DEF InitialRun, At, GoTo
  <2>2. Complete(out', snapshots', net') /\ (Skipped \/ Begun \/ Over \/ Again)
    BY <1>1, <1>3, <2>1, RunOutcome
  <2>3. EvenPeriods => Turn'
    BY <1>3, <2>1, <2>2, TurnStart DEF DriverInv
  <2> QED
    BY <1>3, <2>1, <2>2, <2>3 DEF DriverInv, OutputComplete, EvenPeriods
<1>4. ASSUME ~master, StartOfStep PROVE DriverInv'
  <2>1. /\ pc = "start" /\ pc' = "step" /\ UNCHANGED <<master, period>>
        /\ IF net.inst # 0 THEN Run ELSE UNCHANGED <<world, Counters>>
    BY <1>4 DEF StartOfStep, At, GoTo
  <2>2. CASE net.inst # 0
    <3>1. Complete(out', snapshots', net') /\ (Skipped \/ Begun \/ Over \/ Again)
      BY <1>1, <1>4, <2>1, <2>2, RunOutcome
    <3>2. EvenPeriods => Turn'
      BY <1>4, <2>1, <2>2, <3>1, TurnStart DEF DriverInv
    <3> QED
      BY <1>4, <2>1, <3>1, <3>2 DEF DriverInv, OutputComplete, EvenPeriods
  <2>3. CASE net.inst = 0
    <3>1. UNCHANGED <<world, Counters>>
      BY <2>1, <2>3
    <3>2. EvenPeriods => Turn'
      <4>1. LastStep \in Nat /\ period \in Nat
        BY <1>4, <2>1, DriverFacts
      <4>2. EvenPeriods => 0 < LastStep - period
        BY <4>1 DEF EvenPeriods
      <4> QED
        BY <1>4, <2>1, <2>3, <3>1, <4>1, <4>2 DEF DriverInv, Turn, world, Counters
    <3> QED
      BY <1>1, <1>4, <2>1, <3>1, <3>2 DEF DriverInv, OutputComplete, EvenPeriods, world
  <2> QED
    BY <2>2, <2>3
<1>5. ASSUME ~master, Step PROVE DriverInv'
  <2>1. /\ pc = "step" /\ TimeStep /\ UNCHANGED <<master, period, Counters>>
        /\ pc' = IF net'.inst >= LastStep THEN "end" ELSE "start"
    BY <1>5 DEF Step, At, GoTo
  <2>2. /\ Complete(out', snapshots', net') /\ net'.inst = net.inst + 1
        /\ snapshots # <<>> => snapshots'[1].saved = snapshots[1].saved
    BY <1>1, <1>5, <2>1, InvWorld, StepComplete
  <2>3. nIteration > 0 => snapshots # <<>>
    BY <1>5, <2>1, DriverFacts
  <2>4. EvenPeriods => Turn'
    BY <1>5, <2>1, <2>2, <2>3, TurnElsewhere DEF DriverInv
  <2> QED
    BY <1>5, <2>1, <2>2, <2>4 DEF DriverInv, OutputComplete, EvenPeriods
<1>6. ASSUME ~master, EndOfStep PROVE DriverInv'
  <2>1. pc = "end" /\ pc' = "return" /\ UNCHANGED <<master, period>> /\ Run
    BY <1>6 DEF EndOfStep, At, GoTo
  <2>2. Complete(out', snapshots', net') /\ (Skipped \/ Begun \/ Over \/ Again)
    BY <1>1, <1>6, <2>1, RunOutcome
  <2>3. EvenPeriods => Turn'
    BY <1>6, <2>1, <2>2, TurnEnd DEF DriverInv
  <2> QED
    BY <1>6, <2>1, <2>2, <2>3 DEF DriverInv, OutputComplete, EvenPeriods
<1>7. ASSUME ~master, Return PROVE DriverInv'
  <2>1. /\ pc = "return" /\ pc' = "start" /\ net.inst < LastStep
        /\ UNCHANGED <<master, period, world, Counters>>
    BY <1>7 DEF Return, At, GoTo
  <2>2. EvenPeriods => Turn'
    BY <1>7, <2>1, TurnElsewhere DEF DriverInv
  <2> QED
    BY <1>1, <1>7, <2>1, <2>2 DEF DriverInv, OutputComplete, EvenPeriods, world
<1>8. ASSUME ~master, Finish PROVE DriverInv'
  <2>1. /\ pc = "return" /\ pc' = "done" /\ net.inst >= LastStep /\ FinSimuTrafic
        /\ UNCHANGED <<master, period, Counters>>
    BY <1>8 DEF Finish, At, GoTo
  <2>2. WorldInv
    BY <2>1, InvWorld
  <2> SUFFICES ASSUME EvenPeriods
               PROVE  /\ snapshots' = <<>>
                      /\ (out.doc.insts)' = [i \in 1 .. LastStep |-> i]
                      /\ (out.rows)' = (out.doc.insts)'
                      /\ \A id \in DOMAIN (out.doc.vehs)' : (out.doc.vehs)'[id].created # Unset
    BY <1>8, <2>1 DEF DriverInv, OutputComplete, EvenPeriods
  <2>3. nIteration = 0 /\ net.inst = LastStep /\ LastStep \in Nat /\ snapshots = <<>>
    BY <1>8, <2>1, DriverFacts DEF DriverInv, Turn
  <2>4. Closed(out, net)
    BY <1>1, <1>8, <2>1, <2>3 DEF Complete
  <2>5. /\ snapshots' = <<>> /\ out'.doc.insts = Since(0, LastStep)
        /\ out'.rows = Since(0, LastStep)
        /\ \A id \in DOMAIN out'.doc.vehs : out'.doc.vehs[id].created # Unset
    BY <2>1, <2>2, <2>3, <2>4, FinishComplete
  <2>6. Since(0, LastStep) = [i \in 1 .. LastStep |-> i]
    BY <2>3 DEF Since
  <2> QED
    BY <2>5, <2>6
<1>9. ASSUME ~master, Client PROVE DriverInv'
  BY <1>9 DEF Client
<1>10. ASSUME UNCHANGED vars PROVE DriverInv'
  BY <1>10 DEF vars, world, DriverInv, OutputComplete, EvenPeriods, Turn
<1> QED
  BY <1>2, <1>3, <1>4, <1>5, <1>6, <1>7, <1>8, <1>9, <1>10 DEF Next

(* At first nothing is written.                                              *)
LEMMA InitDriver == Init => DriverInv
<1> SUFFICES ASSUME Init PROVE DriverInv
  OBVIOUS
<1>1. /\ net = EmptyNet /\ out = [doc |-> EmptyDoc, rows |-> <<>>] /\ snapshots = <<>>
      /\ nIteration = 0 /\ bLastInstSimu = FALSE /\ pc = IF master THEN "start" ELSE "init"
  BY DEF Init, SnapshotInit
<1>2. net.inst = 0 /\ net.lastId = 0 /\ Since(0, 0) = <<>>
  BY <1>1, SinceNone DEF EmptyNet
<1>3. Closed(out, net)
  BY <1>1, <1>2 DEF Closed, EmptyDoc, Filed
<1>4. ~master => Turn
  BY <1>1, <1>2 DEF Turn
<1> QED
  BY <1>1, <1>3, <1>4 DEF DriverInv, Complete, OutputComplete

(* When the driver ends, every step is in the final files once, in order, and *)
(* every vehicle with the instant of its creation: the last iteration of the *)
(* last period has been committed.  The duration in seconds must not exceed  *)
(* the number of steps (time steps of a second or less), because the code    *)
(* compares the one with the other.                                          *)
THEOREM OutputIsComplete == ASSUME DureeSimu <= LastStep PROVE Spec => []OutputComplete
<1>1. IInv /\ DriverInv /\ [Next]_vars => (IInv /\ DriverInv)'
  BY StepInv, DriverStep
<1>2. Init => IInv /\ DriverInv
  BY InitInv, InitDriver
<1>3. DriverInv => OutputComplete
  BY DEF DriverInv
<1> QED
  BY <1>1, <1>2, <1>3, PTL DEF Spec

=============================================================================
