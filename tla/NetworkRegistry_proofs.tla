------------------------ MODULE NetworkRegistry_proofs ------------------------
(***************************************************************************)
(* Proofs about NetworkRegistry for any loaders and path threads, any       *)
(* number of networks and both front ends, with one user of the default id. *)
(***************************************************************************)
EXTENDS NetworkRegistry, WellFoundedInduction, TLAPS

(* The labels and values of the local variables of a call.                   *)
Locals ==
  /\ id \in [Threads -> Int]
  /\ inst \in [Threads -> Nat]
  /\ returns \in [Threads -> {"idle", "create", "failed", "quit"}]

(* Loaders and path threads run different calls.                             *)
Roles == \A t \in Threads :
  /\ pc[t] \in {"pathLock", "path"} => t \in PathCallers
  /\ pc[t] \in {"create", "load", "failed", "delete", "erase", "free", "step"} => t \in Loaders

(* m_NetworksAccessMutex is held by the thread at one of these places.       *)
Inside == {"erase", "free", "pathLock"}

LockInv == /\ registryHolder = {t \in Threads : pc[t] \in Inside}
           /\ \A t, u \in Threads : pc[t] \in Inside /\ pc[u] \in Inside => t = u

(* The instances' locks are held by the path threads at work.                *)
SharedInv ==
  sharedHolders = [k \in Instances |-> {t \in PathCallers : pc[t] = "path" /\ inst[t] = k}]

(* Where a deletion goes on.                                                 *)
ReturnInv == \A t \in Threads :
  /\ pc[t] \in {"idle", "step", "pathLock", "path"} => returns[t] = "idle"
  /\ returns[t] = "create" => pc[t] \in {"delete", "erase", "free", "create", "load"}
                              /\ id[t] = DEFAULT_NETWORK_ID
  /\ returns[t] = "quit" => pc[t] \in {"erase", "free"}

(* One call at a time in the launcher.                                       *)
LauncherInv == frontEnd = "launcher" =>
  \A t, u \in Loaders : pc[t] # "idle" /\ pc[u] # "idle" => t = u

(* The default id belongs to the loader that uses it.                        *)
DefaultInv ==
  /\ \A t \in Loaders : DEFAULT_NETWORK_ID \in own[t] => t \in DefaultOwners
  /\ \A t \in Loaders : id[t] = DEFAULT_NETWORK_ID /\ returns[t] # "quit"
                          => t \in DefaultOwners

(* The ids are numbered within the networks created.                         *)
RangeInv == \A i \in Ids : i <= created

(* While a thread deletes all the networks nobody owns one, and the others   *)
(* are no further than the start of a load.                                  *)
QuitInv == \A q \in Loaders : returns[q] = "quit" =>
  \A u \in Loaders :
    /\ own[u] = {}
    /\ u # q => /\ pc[u] \in {"idle", "create", "delete"}
                /\ pc[u] = "delete" => id[u] = DEFAULT_NETWORK_ID

(* The id a loader is loading or deleting belongs to nobody, is not the one  *)
(* another loader has in hand, and is in the map, the default id excepted.   *)
InHand(t) == pc[t] \in {"load", "delete", "erase"} /\ returns[t] # "quit"

HandInv ==
  /\ \A t, u \in Loaders : InHand(t) => id[t] \notin own[u]
  /\ \A t, u \in Loaders : InHand(t) /\ InHand(u) /\ id[t] = id[u] => t = u
  /\ \A t \in Loaders : pc[t] = "load" => Found(id[t])
  /\ \A t \in Loaders : pc[t] = "delete" /\ id[t] # DEFAULT_NETWORK_ID => Found(id[t])

(* What the instance pointers point to.                                      *)
EraseInv == \A t \in Threads :
  /\ pc[t] = "erase" => Found(id[t]) /\ inst[t] = m_mapNetworks[id[t]]
  /\ pc[t] = "free"  => ~Found(id[t]) /\ inst[t] \in 1 .. created

PointerInv ==
  /\ \A t \in PathCallers : pc[t] \in {"pathLock", "path"} =>
       \E i \in Ids : inst[t] = m_mapNetworks[i]
  /\ \A t \in Loaders : pc[t] = "step" =>
       \E i \in own[t] : inst[t] = m_mapNetworks[i]

(* NoUseAfterFree is not inductive: that the network of a step or of a path  *)
(* computation is alive follows from the map holding it, which follows from  *)
(* the locks for the one and from who owns the id for the other.             *)
IInv == /\ TypeOK /\ Locals /\ Roles /\ LockInv /\ SharedInv /\ ReturnInv /\ LauncherInv
        /\ DefaultInv /\ RangeInv /\ QuitInv /\ HandInv /\ EraseInv /\ PointerInv
        /\ NoLeak /\ IdsExclusive

-----------------------------------------------------------------------------
(* A set of naturals has a least element.                                    *)
LEMMA SmallestOfSet ==
  ASSUME NEW S, S \subseteq Nat, S # {}
  PROVE  \E i \in S : \A j \in S : i <= j
<1> DEFINE R == {p \in Nat \X Nat : p[1] < p[2]}
<1>1. IsWellFoundedOn(R, Nat)
  BY NatLessThanWellFounded DEF OpToRel
<1> HIDE DEF R
<1>2. PICK i \in S : \A j \in S : <<j, i>> \notin R
  BY <1>1, WFMin
<1>3. ASSUME NEW j \in S PROVE i <= j
  <2>1. <<j, i>> \in R <=> j < i
    BY DEF R
  <2> QED BY <1>2, <2>1
<1> QED BY <1>3

(* So has a set of integers that is bounded from below ...                   *)
LEMMA LeastOfIntegers ==
  ASSUME NEW S \in SUBSET Int, NEW b \in Int, S # {}, \A i \in S : b <= i
  PROVE  \E i \in S : \A j \in S : i <= j
<1> DEFINE D == {i - b : i \in S}
<1>1. D \subseteq Nat /\ D # {}
  <2>1. \A i \in S : i - b \in Nat
    OBVIOUS
  <2> QED BY <2>1
<1> HIDE DEF D
<1>2. PICK d \in D : \A e \in D : d <= e
  BY <1>1, SmallestOfSet
<1>3. PICK i \in S : d = i - b
  BY DEF D
<1>4. \A j \in S : d <= j - b
  BY <1>2 DEF D
<1> QED BY <1>3, <1>4

(* ... and one that is bounded from above has a greatest.                    *)
LEMMA GreatestOfIntegers ==
  ASSUME NEW S \in SUBSET Int, NEW b \in Int, S # {}, \A i \in S : i <= b
  PROVE  \E i \in S : \A j \in S : j <= i
<1> DEFINE D == {b - i : i \in S}
<1>1. D \subseteq Nat /\ D # {}
  <2>1. \A i \in S : b - i \in Nat
    OBVIOUS
  <2> QED BY <2>1
<1> HIDE DEF D
<1>2. PICK d \in D : \A e \in D : d <= e
  BY <1>1, SmallestOfSet
<1>3. PICK i \in S : d = b - i
  BY DEF D
<1>4. \A j \in S : d <= b - j
  BY <1>2 DEF D
<1> QED BY <1>3, <1>4

(* CreateNetwork numbers a network with an id nobody uses.                   *)
LEMMA NewIdFresh ==
  ASSUME TypeOK, RangeInv
  PROVE  NewId \in 0 .. created + 1 /\ ~Found(NewId)
<1>1. Ids \in SUBSET Int /\ created \in Nat /\ \A i \in Ids : -1 <= i
  BY RegistryAssumption DEF TypeOK, DEFAULT_NETWORK_ID
<1>2. CASE Ids = {}
  BY <1>1, <1>2 DEF NewId, Found
<1>3. CASE Ids # {}
  <2> DEFINE greatest == CHOOSE i \in Ids : \A j \in Ids : j <= i
  <2>1. \E i \in Ids : \A j \in Ids : j <= i
    <3>1. created \in Int /\ \A i \in Ids : i <= created
      BY <1>1 DEF RangeInv
    <3> HIDE DEF Ids
    <3> QED BY <1>1, <1>3, <3>1, GreatestOfIntegers
  <2>2. greatest \in Ids /\ \A j \in Ids : j <= greatest
    BY <2>1
  <2>3. NewId = 1 + greatest
    BY <1>3 DEF NewId
  <2> HIDE DEF greatest
  <2> QED BY <1>1, <2>2, <2>3 DEF RangeInv, Found
<1> QED BY <1>2, <1>3

(* The least identifier of a map that is not empty is found.               *)
LEMMA LeastIsFound ==
  ASSUME TypeOK, Ids # {}
  PROVE  Found(Least(Ids)) /\ Least(Ids) \in Int
<1>1. Ids \in SUBSET Int /\ -1 \in Int /\ \A i \in Ids : -1 <= i
  BY RegistryAssumption DEF TypeOK, DEFAULT_NETWORK_ID
<1> HIDE DEF Ids
<1>2. \E i \in Ids : \A j \in Ids : i <= j
  BY <1>1, LeastOfIntegers
<1> QED BY <1>1, <1>2 DEF Least, Found

(* A network is created under an id that is not in the map.                   *)
LEMMA CreateEffect ==
  ASSUME TypeOK, Locals, Roles, RangeInv, IdsExclusive, NEW t \in Threads, Create(t)
  PROVE  \E i \in Int :
           /\ i \notin Ids /\ i <= created + 1
           /\ i = DEFAULT_NETWORK_ID => id[t] = DEFAULT_NETWORK_ID
           /\ Ids' = Ids \cup {i}
           /\ m_mapNetworks'[i] = created + 1
           /\ \A j \in Ids : m_mapNetworks'[j] = m_mapNetworks[j]
           /\ id' = [id EXCEPT ![t] = i]
<1> DEFINE i == IF id[t] = DEFAULT_NETWORK_ID THEN id[t] ELSE NewId
<1>1. t \in Loaders /\ pc[t] = "create"
  BY DEF Create, Roles
<1>2. i \in Int /\ i \notin Ids /\ i <= created + 1
  <2>1. CASE id[t] = DEFAULT_NETWORK_ID
    BY <1>1, <2>1, RegistryAssumption DEF IdsExclusive, DEFAULT_NETWORK_ID, TypeOK
  <2>2. CASE id[t] # DEFAULT_NETWORK_ID
    BY <2>2, NewIdFresh, RegistryAssumption DEF Found, TypeOK
  <2> QED BY <2>1, <2>2
<1>3. i = DEFAULT_NETWORK_ID => id[t] = DEFAULT_NETWORK_ID
  BY NewIdFresh DEF DEFAULT_NETWORK_ID
<1>4. /\ m_mapNetworks' = [j \in Ids \cup {i} |-> IF j = i THEN created + 1 ELSE m_mapNetworks[j]]
      /\ id' = [id EXCEPT ![t] = i]
  BY DEF Create, SetId
<1> HIDE DEF i
<1> QED BY <1>2, <1>3, <1>4 DEF Ids

(* DeleteAllNetworks goes on with the next network, or ends.                 *)
LEMMA FreeNextEffect ==
  ASSUME TypeOK, Locals, NEW t \in Threads, FreeNext(t)
  PROVE  /\ pc[t] = "free" /\ returns[t] = "quit"
         /\ deleted' = deleted \cup {inst[t]}
         /\ UNCHANGED <<m_mapNetworks, own, created>>
         /\ \/ pc'[t] = "idle"
            \/ pc'[t] = "erase" /\ returns'[t] = "quit"
         /\ \A u \in Threads \ {t} : /\ pc'[u] = pc[u] /\ returns'[u] = returns[u]
                                     /\ id'[u] = id[u] /\ inst'[u] = inst[u]
BY DEF FreeNext, Goto, SetId, Return, TypeOK, Locals

-----------------------------------------------------------------------------
(* A step of the registry is a step of one thread.                           *)
LEMMA Steps ==
  ASSUME Next
  PROVE  \E t \in Threads :
    \/ MayCall(t) /\ CallLoad(t)
    \/ MayCall(t) /\ CallLoadDefault(t)
    \/ MayCall(t) /\ CallDelete(t)
    \/ MayCall(t) /\ CallQuit(t)
    \/ MayCall(t) /\ StepBegin(t)
    \/ MayCall(t) /\ PathFind(t)
    \/ Create(t)
    \/ LoadOk(t)
    \/ InitFails(t)
    \/ LoadFails(t)
    \/ LoadFailed(t)
    \/ DeleteFind(t)
    \/ DeleteNothing(t)
    \/ Erase(t)
    \/ Free(t)
    \/ FreeNext(t)
    \/ StepEnd(t)
    \/ LastStepEnd(t)
    \/ PathLock(t)
    \/ PathEnd(t)
BY DEF Next, Call, Continue

(* Types: an id is at most the number of networks created.                    *)
LEMMA TypeStep == IInv /\ [Next]_vars => TypeOK'
<1> SUFFICES ASSUME IInv, [Next]_vars
             PROVE  TypeOK'
  OBVIOUS
<1>0. TypeOK /\ Locals /\ Roles /\ ReturnInv /\ HandInv /\ EraseInv /\ PointerInv /\ RangeInv
  BY DEF IInv
<1> USE <1>0 DEF TypeOK, Locals, Roles, Ids, Return, Resume, Goto, SetId, LockRegistry, UnlockRegistry, Network, Threads
<1>1. ASSUME NEW t \in Threads, MayCall(t), CallLoad(t) PROVE TypeOK'
  BY <1>1 DEF CallLoad
<1>2. ASSUME NEW t \in Threads, MayCall(t), CallLoadDefault(t) PROVE TypeOK'
  BY <1>2 DEF CallLoadDefault
<1>3. ASSUME NEW t \in Threads, MayCall(t), CallDelete(t) PROVE TypeOK'
  BY <1>3 DEF CallDelete
<1>4. ASSUME NEW t \in Threads, MayCall(t), CallQuit(t) PROVE TypeOK'
  BY <1>4, LeastIsFound DEF CallQuit, DeleteAllNetworks
<1>5. ASSUME NEW t \in Threads, MayCall(t), StepBegin(t) PROVE TypeOK'
  BY <1>5 DEF StepBegin
<1>6. ASSUME NEW t \in Threads, MayCall(t), PathFind(t) PROVE TypeOK'
  BY <1>6 DEF PathFind
<1>7. ASSUME NEW t \in Threads, Create(t) PROVE TypeOK'
  BY <1>7, NewIdFresh, RegistryAssumption DEF Create, RangeInv, Instances
<1>8. ASSUME NEW t \in Threads, LoadOk(t) PROVE TypeOK'
  BY <1>8 DEF LoadOk, HandInv, Found
<1>9. ASSUME NEW t \in Threads, InitFails(t) PROVE TypeOK'
  BY <1>9 DEF InitFails
<1>10. ASSUME NEW t \in Threads, LoadFails(t) PROVE TypeOK'
  BY <1>10 DEF LoadFails
<1>11. ASSUME NEW t \in Threads, LoadFailed(t) PROVE TypeOK'
  BY <1>11 DEF LoadFailed
<1>12. ASSUME NEW t \in Threads, DeleteFind(t) PROVE TypeOK'
  BY <1>12 DEF DeleteFind
<1>13. ASSUME NEW t \in Threads, DeleteNothing(t) PROVE TypeOK'
  BY <1>13 DEF DeleteNothing, ReturnInv
<1>14. ASSUME NEW t \in Threads, Erase(t) PROVE TypeOK'
  BY <1>14 DEF Erase, Without
<1>15. ASSUME NEW t \in Threads, Free(t) PROVE TypeOK'
  <2>1. pc' \in [Threads -> {"idle", "create", "failed"} \cup {pc[u] : u \in Threads}]
    BY <1>15 DEF Free, ReturnInv
  <2>2. deleted' = deleted \cup {inst[t]} /\ inst[t] \in 1 .. created
    BY <1>15 DEF Free, EraseInv
  <2> QED BY <1>15, <2>1, <2>2 DEF Free
<1>16. ASSUME NEW t \in Threads, FreeNext(t) PROVE TypeOK'
  <2>1. pc' = [pc EXCEPT ![t] = "idle"] \/ pc' = [pc EXCEPT ![t] = "erase"]
    BY <1>16 DEF FreeNext
  <2>2. registryHolder' \in {{}, registryHolder}
    BY <1>16 DEF FreeNext
  <2>3. deleted' = deleted \cup {inst[t]} /\ inst[t] \in 1 .. created
    BY <1>16 DEF FreeNext, EraseInv
  <2> QED BY <1>16, <2>1, <2>2, <2>3 DEF FreeNext
<1>17. ASSUME NEW t \in Threads, StepEnd(t) PROVE TypeOK'
  BY <1>17 DEF StepEnd
<1>18. ASSUME NEW t \in Threads, LastStepEnd(t) PROVE TypeOK'
  BY <1>18, LeastIsFound DEF LastStepEnd, DeleteAllNetworks
<1>19. ASSUME NEW t \in Threads, PathLock(t) PROVE TypeOK'
  BY <1>19, RegistryAssumption DEF PathLock, PointerInv, Instances
<1>20. ASSUME NEW t \in Threads, PathEnd(t) PROVE TypeOK'
  BY <1>20 DEF PathEnd
<1>21. CASE UNCHANGED vars
  BY <1>21 DEF vars
<1> QED BY <1>1, <1>2, <1>3, <1>4, <1>5, <1>6, <1>7, <1>8, <1>9, <1>10, <1>11, <1>12, <1>13, <1>14, <1>15, <1>16, <1>17, <1>18, <1>19, <1>20, <1>21, Steps


(* Every step keeps the identifiers in range.                              *)
LEMMA RangeStep == IInv /\ [Next]_vars => RangeInv'
<1> SUFFICES ASSUME IInv, [Next]_vars
             PROVE  RangeInv'
  OBVIOUS
<1>0. TypeOK /\ RangeInv
  BY DEF IInv
<1> USE <1>0 DEF RangeInv, TypeOK, Ids, Return, Resume, Goto, SetId, LockRegistry, UnlockRegistry, Network, Threads
<1>1. ASSUME NEW t \in Threads, MayCall(t), CallLoad(t) PROVE RangeInv'
  BY <1>1 DEF CallLoad
<1>2. ASSUME NEW t \in Threads, MayCall(t), CallLoadDefault(t) PROVE RangeInv'
  BY <1>2 DEF CallLoadDefault
<1>3. ASSUME NEW t \in Threads, MayCall(t), CallDelete(t) PROVE RangeInv'
  BY <1>3 DEF CallDelete
<1>4. ASSUME NEW t \in Threads, MayCall(t), CallQuit(t) PROVE RangeInv'
  BY <1>4, LeastIsFound DEF CallQuit, DeleteAllNetworks
<1>5. ASSUME NEW t \in Threads, MayCall(t), StepBegin(t) PROVE RangeInv'
  BY <1>5 DEF StepBegin
<1>6. ASSUME NEW t \in Threads, MayCall(t), PathFind(t) PROVE RangeInv'
  BY <1>6 DEF PathFind
<1>7. ASSUME NEW t \in Threads, Create(t) PROVE RangeInv'
  <2> DEFINE i == IF id[t] = DEFAULT_NETWORK_ID THEN id[t] ELSE NewId
  <2>1. i \in Int /\ i <= created + 1
    BY NewIdFresh DEF DEFAULT_NETWORK_ID
  <2>2. Ids' = Ids \cup {i} /\ created' = created + 1
    BY <1>7 DEF Create
  <2>3. created \in Int /\ Ids \subseteq Int
    BY RegistryAssumption DEF DEFAULT_NETWORK_ID
  <2>4. ASSUME NEW j \in Ids \cup {i} PROVE j <= created + 1
    BY <2>1, <2>3
  <2> HIDE DEF i
  <2> QED BY <2>2, <2>4
<1>8. ASSUME NEW t \in Threads, LoadOk(t) PROVE RangeInv'
  BY <1>8 DEF LoadOk
<1>9. ASSUME NEW t \in Threads, InitFails(t) PROVE RangeInv'
  BY <1>9 DEF InitFails
<1>10. ASSUME NEW t \in Threads, LoadFails(t) PROVE RangeInv'
  BY <1>10 DEF LoadFails
<1>11. ASSUME NEW t \in Threads, LoadFailed(t) PROVE RangeInv'
  BY <1>11 DEF LoadFailed
<1>12. ASSUME NEW t \in Threads, DeleteFind(t) PROVE RangeInv'
  BY <1>12 DEF DeleteFind
<1>13. ASSUME NEW t \in Threads, DeleteNothing(t) PROVE RangeInv'
  BY <1>13 DEF DeleteNothing
<1>14. ASSUME NEW t \in Threads, Erase(t) PROVE RangeInv'
  BY <1>14 DEF Erase, Without
<1>15. ASSUME NEW t \in Threads, Free(t) PROVE RangeInv'
  BY <1>15 DEF Free
<1>16. ASSUME NEW t \in Threads, FreeNext(t) PROVE RangeInv'
  BY <1>16, LeastIsFound DEF FreeNext
<1>17. ASSUME NEW t \in Threads, StepEnd(t) PROVE RangeInv'
  BY <1>17 DEF StepEnd
<1>18. ASSUME NEW t \in Threads, LastStepEnd(t) PROVE RangeInv'
  BY <1>18, LeastIsFound DEF LastStepEnd, DeleteAllNetworks
<1>19. ASSUME NEW t \in Threads, PathLock(t) PROVE RangeInv'
  BY <1>19 DEF PathLock
<1>20. ASSUME NEW t \in Threads, PathEnd(t) PROVE RangeInv'
  BY <1>20 DEF PathEnd
<1>21. CASE UNCHANGED vars
  BY <1>21 DEF vars
<1> QED BY <1>1, <1>2, <1>3, <1>4, <1>5, <1>6, <1>7, <1>8, <1>9, <1>10, <1>11, <1>12, <1>13, <1>14, <1>15, <1>16, <1>17, <1>18, <1>19, <1>20, <1>21, Steps


(* Every step keeps what the calls hold.                                   *)
LEMMA LocalsStep == IInv /\ [Next]_vars => Locals'
<1> SUFFICES ASSUME IInv, [Next]_vars
             PROVE  Locals'
  OBVIOUS
<1>0. TypeOK /\ Locals /\ RangeInv
  BY DEF IInv
<1> USE <1>0 DEF Locals, TypeOK, Ids, Return, Resume, Goto, SetId, LockRegistry, UnlockRegistry, Network, Threads
<1>1. ASSUME NEW t \in Threads, MayCall(t), CallLoad(t) PROVE Locals'
  BY <1>1 DEF CallLoad
<1>2. ASSUME NEW t \in Threads, MayCall(t), CallLoadDefault(t) PROVE Locals'
  BY <1>2, -1 \in Int DEF CallLoadDefault, Found, DEFAULT_NETWORK_ID
<1>3. ASSUME NEW t \in Threads, MayCall(t), CallDelete(t) PROVE Locals'
  BY <1>3 DEF CallDelete, Found, DEFAULT_NETWORK_ID
<1>4. ASSUME NEW t \in Threads, MayCall(t), CallQuit(t) PROVE Locals'
  BY <1>4, LeastIsFound DEF CallQuit, DeleteAllNetworks, Found, DEFAULT_NETWORK_ID
<1>5. ASSUME NEW t \in Threads, MayCall(t), StepBegin(t) PROVE Locals'
  BY <1>5 DEF StepBegin, Found, DEFAULT_NETWORK_ID
<1>6. ASSUME NEW t \in Threads, MayCall(t), PathFind(t) PROVE Locals'
  BY <1>6 DEF PathFind, Found, DEFAULT_NETWORK_ID
<1>7. ASSUME NEW t \in Threads, Create(t) PROVE Locals'
  BY <1>7, NewIdFresh DEF Create, Found, DEFAULT_NETWORK_ID
<1>8. ASSUME NEW t \in Threads, LoadOk(t) PROVE Locals'
  BY <1>8 DEF LoadOk
<1>9. ASSUME NEW t \in Threads, InitFails(t) PROVE Locals'
  BY <1>9 DEF InitFails
<1>10. ASSUME NEW t \in Threads, LoadFails(t) PROVE Locals'
  BY <1>10 DEF LoadFails
<1>11. ASSUME NEW t \in Threads, LoadFailed(t) PROVE Locals'
  BY <1>11 DEF LoadFailed
<1>12. ASSUME NEW t \in Threads, DeleteFind(t) PROVE Locals'
  BY <1>12 DEF DeleteFind, Found, DEFAULT_NETWORK_ID
<1>13. ASSUME NEW t \in Threads, DeleteNothing(t) PROVE Locals'
  BY <1>13 DEF DeleteNothing
<1>14. ASSUME NEW t \in Threads, Erase(t) PROVE Locals'
  BY <1>14 DEF Erase
<1>15. ASSUME NEW t \in Threads, Free(t) PROVE Locals'
  BY <1>15 DEF Free
<1>16. ASSUME NEW t \in Threads, FreeNext(t) PROVE Locals'
  <2>1. CASE Ids = {}
    <3>1. Return(t)
      BY <1>16, <2>1 DEF FreeNext
    <3> QED BY <3>1
  <2>2. CASE Ids # {}
    <3>1. Least(Ids) \in Int /\ Least(Ids) \in Ids
      BY <2>2, LeastIsFound DEF Found
    <3>2. m_mapNetworks[Least(Ids)] \in Nat
      BY <3>1
    <3>3. /\ id' = [id EXCEPT ![t] = Least(Ids)]
          /\ inst' = [inst EXCEPT ![t] = m_mapNetworks[Least(Ids)]]
          /\ returns' = returns
      BY <1>16, <2>2 DEF FreeNext
    <3> QED BY <3>1, <3>2, <3>3
  <2> QED BY <2>1, <2>2
<1>17. ASSUME NEW t \in Threads, StepEnd(t) PROVE Locals'
  BY <1>17 DEF StepEnd
<1>18. ASSUME NEW t \in Threads, LastStepEnd(t) PROVE Locals'
  BY <1>18, LeastIsFound DEF LastStepEnd, DeleteAllNetworks, Found, DEFAULT_NETWORK_ID
<1>19. ASSUME NEW t \in Threads, PathLock(t) PROVE Locals'
  BY <1>19 DEF PathLock
<1>20. ASSUME NEW t \in Threads, PathEnd(t) PROVE Locals'
  BY <1>20 DEF PathEnd
<1>21. CASE UNCHANGED vars
  BY <1>21 DEF vars
<1> QED BY <1>1, <1>2, <1>3, <1>4, <1>5, <1>6, <1>7, <1>8, <1>9, <1>10, <1>11, <1>12, <1>13, <1>14, <1>15, <1>16, <1>17, <1>18, <1>19, <1>20, <1>21, Steps


(* Every step keeps the maps in accord with the objects.                   *)
LEMMA SharedStep == IInv /\ [Next]_vars => SharedInv'
<1> SUFFICES ASSUME IInv, [Next]_vars
             PROVE  SharedInv'
  OBVIOUS
<1>0. TypeOK /\ Locals /\ Roles /\ SharedInv
  BY DEF IInv
<1> USE <1>0 DEF SharedInv, Roles, Locals, TypeOK, Instances, Ids, Return, Resume, Goto, SetId, LockRegistry, UnlockRegistry, Network, Threads
<1>1. ASSUME NEW t \in Threads, MayCall(t), CallLoad(t) PROVE SharedInv'
  BY <1>1, RegistryAssumption DEF CallLoad
<1>2. ASSUME NEW t \in Threads, MayCall(t), CallLoadDefault(t) PROVE SharedInv'
  BY <1>2, RegistryAssumption DEF CallLoadDefault
<1>3. ASSUME NEW t \in Threads, MayCall(t), CallDelete(t) PROVE SharedInv'
  BY <1>3, RegistryAssumption DEF CallDelete
<1>4. ASSUME NEW t \in Threads, MayCall(t), CallQuit(t) PROVE SharedInv'
  BY <1>4, RegistryAssumption DEF CallQuit, DeleteAllNetworks
<1>5. ASSUME NEW t \in Threads, MayCall(t), StepBegin(t) PROVE SharedInv'
  BY <1>5, RegistryAssumption DEF StepBegin
<1>6. ASSUME NEW t \in Threads, MayCall(t), PathFind(t) PROVE SharedInv'
  BY <1>6, RegistryAssumption DEF PathFind
<1>7. ASSUME NEW t \in Threads, Create(t) PROVE SharedInv'
  BY <1>7, RegistryAssumption DEF Create
<1>8. ASSUME NEW t \in Threads, LoadOk(t) PROVE SharedInv'
  BY <1>8, RegistryAssumption DEF LoadOk
<1>9. ASSUME NEW t \in Threads, InitFails(t) PROVE SharedInv'
  BY <1>9, RegistryAssumption DEF InitFails
<1>10. ASSUME NEW t \in Threads, LoadFails(t) PROVE SharedInv'
  BY <1>10, RegistryAssumption DEF LoadFails
<1>11. ASSUME NEW t \in Threads, LoadFailed(t) PROVE SharedInv'
  BY <1>11, RegistryAssumption DEF LoadFailed
<1>12. ASSUME NEW t \in Threads, DeleteFind(t) PROVE SharedInv'
  BY <1>12, RegistryAssumption DEF DeleteFind
<1>13. ASSUME NEW t \in Threads, DeleteNothing(t) PROVE SharedInv'
  BY <1>13, RegistryAssumption DEF DeleteNothing
<1>14. ASSUME NEW t \in Threads, Erase(t) PROVE SharedInv'
  BY <1>14, RegistryAssumption DEF Erase
<1>15. ASSUME NEW t \in Threads, Free(t) PROVE SharedInv'
  BY <1>15, RegistryAssumption DEF Free
<1>16. ASSUME NEW t \in Threads, FreeNext(t) PROVE SharedInv'
  BY <1>16, RegistryAssumption DEF FreeNext
<1>17. ASSUME NEW t \in Threads, StepEnd(t) PROVE SharedInv'
  BY <1>17, RegistryAssumption DEF StepEnd
<1>18. ASSUME NEW t \in Threads, LastStepEnd(t) PROVE SharedInv'
  BY <1>18, RegistryAssumption DEF LastStepEnd, DeleteAllNetworks
<1>19. ASSUME NEW t \in Threads, PathLock(t) PROVE SharedInv'
  <2>1. t \in PathCallers
    BY <1>19 DEF PathLock
  <2>2. ASSUME NEW k \in Instances
        PROVE  sharedHolders'[k] = {u \in PathCallers : pc'[u] = "path" /\ inst'[u] = k}
    BY <1>19, <2>1 DEF PathLock
  <2>3. sharedHolders' = [k \in Instances |-> sharedHolders'[k]]
    BY <1>19 DEF PathLock
  <2> QED BY <2>2, <2>3
<1>20. ASSUME NEW t \in Threads, PathEnd(t) PROVE SharedInv'
  <2>1. t \in PathCallers
    BY <1>20 DEF PathEnd
  <2>2. ASSUME NEW k \in Instances
        PROVE  sharedHolders'[k] = {u \in PathCallers : pc'[u] = "path" /\ inst'[u] = k}
    BY <1>20, <2>1 DEF PathEnd
  <2>3. sharedHolders' = [k \in Instances |-> sharedHolders'[k]]
    BY <1>20 DEF PathEnd
  <2> QED BY <2>2, <2>3
<1>21. CASE UNCHANGED vars
  BY <1>21 DEF vars
<1> QED BY <1>1, <1>2, <1>3, <1>4, <1>5, <1>6, <1>7, <1>8, <1>9, <1>10, <1>11, <1>12, <1>13, <1>14, <1>15, <1>16, <1>17, <1>18, <1>19, <1>20, <1>21, Steps


(* Every step keeps each object in its role.                               *)
LEMMA RolesStep == IInv /\ [Next]_vars => Roles'
<1> SUFFICES ASSUME IInv, [Next]_vars
             PROVE  Roles'
  OBVIOUS
<1>0. TypeOK /\ Locals /\ Roles /\ ReturnInv
  BY DEF IInv
<1> USE <1>0 DEF Roles, ReturnInv, Locals, TypeOK, Ids, Return, Resume, Goto, SetId, LockRegistry, UnlockRegistry, Network, Threads
<1>1. ASSUME NEW t \in Threads, MayCall(t), CallLoad(t) PROVE Roles'
  BY <1>1, RegistryAssumption DEF CallLoad
<1>2. ASSUME NEW t \in Threads, MayCall(t), CallLoadDefault(t) PROVE Roles'
  BY <1>2, RegistryAssumption DEF CallLoadDefault
<1>3. ASSUME NEW t \in Threads, MayCall(t), CallDelete(t) PROVE Roles'
  BY <1>3, RegistryAssumption DEF CallDelete
<1>4. ASSUME NEW t \in Threads, MayCall(t), CallQuit(t) PROVE Roles'
  BY <1>4, RegistryAssumption DEF CallQuit, DeleteAllNetworks
<1>5. ASSUME NEW t \in Threads, MayCall(t), StepBegin(t) PROVE Roles'
  BY <1>5, RegistryAssumption DEF StepBegin
<1>6. ASSUME NEW t \in Threads, MayCall(t), PathFind(t) PROVE Roles'
  BY <1>6, RegistryAssumption DEF PathFind
<1>7. ASSUME NEW t \in Threads, Create(t) PROVE Roles'
  BY <1>7 DEF Create
<1>8. ASSUME NEW t \in Threads, LoadOk(t) PROVE Roles'
  BY <1>8 DEF LoadOk
<1>9. ASSUME NEW t \in Threads, InitFails(t) PROVE Roles'
  BY <1>9 DEF InitFails
<1>10. ASSUME NEW t \in Threads, LoadFails(t) PROVE Roles'
  BY <1>10 DEF LoadFails
<1>11. ASSUME NEW t \in Threads, LoadFailed(t) PROVE Roles'
  BY <1>11 DEF LoadFailed
<1>12. ASSUME NEW t \in Threads, DeleteFind(t) PROVE Roles'
  BY <1>12 DEF DeleteFind
<1>13. ASSUME NEW t \in Threads, DeleteNothing(t) PROVE Roles'
  BY <1>13 DEF DeleteNothing
<1>14. ASSUME NEW t \in Threads, Erase(t) PROVE Roles'
  BY <1>14 DEF Erase
<1>15. ASSUME NEW t \in Threads, Free(t) PROVE Roles'
  BY <1>15 DEF Free
<1>16. ASSUME NEW t \in Threads, FreeNext(t) PROVE Roles'
  BY <1>16 DEF FreeNext
<1>17. ASSUME NEW t \in Threads, StepEnd(t) PROVE Roles'
  BY <1>17 DEF StepEnd
<1>18. ASSUME NEW t \in Threads, LastStepEnd(t) PROVE Roles'
  BY <1>18 DEF LastStepEnd, DeleteAllNetworks
<1>19. ASSUME NEW t \in Threads, PathLock(t) PROVE Roles'
  BY <1>19 DEF PathLock
<1>20. ASSUME NEW t \in Threads, PathEnd(t) PROVE Roles'
  BY <1>20 DEF PathEnd
<1>21. CASE UNCHANGED vars
  BY <1>21 DEF vars
<1> QED BY <1>1, <1>2, <1>3, <1>4, <1>5, <1>6, <1>7, <1>8, <1>9, <1>10, <1>11, <1>12, <1>13, <1>14, <1>15, <1>16, <1>17, <1>18, <1>19, <1>20, <1>21, Steps


(* Every step keeps the mutex with its holder.                             *)
LEMMA LockStep == IInv /\ [Next]_vars => LockInv'
<1> SUFFICES ASSUME IInv, [Next]_vars
             PROVE  LockInv'
  OBVIOUS
<1>0. TypeOK /\ Locals /\ Roles /\ ReturnInv /\ LockInv
  BY DEF IInv
<1> USE <1>0 DEF LockInv, Inside, ReturnInv, Roles, Locals, TypeOK, Ids, Return, Resume, Goto, SetId, LockRegistry, UnlockRegistry, Network, Threads
<1>1. ASSUME NEW t \in Threads, MayCall(t), CallLoad(t) PROVE LockInv'
  BY <1>1 DEF CallLoad
<1>2. ASSUME NEW t \in Threads, MayCall(t), CallLoadDefault(t) PROVE LockInv'
  BY <1>2 DEF CallLoadDefault
<1>3. ASSUME NEW t \in Threads, MayCall(t), CallDelete(t) PROVE LockInv'
  BY <1>3 DEF CallDelete
<1>4. ASSUME NEW t \in Threads, MayCall(t), CallQuit(t) PROVE LockInv'
  BY <1>4 DEF CallQuit, DeleteAllNetworks
<1>5. ASSUME NEW t \in Threads, MayCall(t), StepBegin(t) PROVE LockInv'
  BY <1>5 DEF StepBegin
<1>6. ASSUME NEW t \in Threads, MayCall(t), PathFind(t) PROVE LockInv'
  BY <1>6 DEF PathFind
<1>7. ASSUME NEW t \in Threads, Create(t) PROVE LockInv'
  BY <1>7 DEF Create
<1>8. ASSUME NEW t \in Threads, LoadOk(t) PROVE LockInv'
  BY <1>8 DEF LoadOk
<1>9. ASSUME NEW t \in Threads, InitFails(t) PROVE LockInv'
  BY <1>9 DEF InitFails
<1>10. ASSUME NEW t \in Threads, LoadFails(t) PROVE LockInv'
  BY <1>10 DEF LoadFails
<1>11. ASSUME NEW t \in Threads, LoadFailed(t) PROVE LockInv'
  BY <1>11 DEF LoadFailed
<1>12. ASSUME NEW t \in Threads, DeleteFind(t) PROVE LockInv'
  BY <1>12 DEF DeleteFind
<1>13. ASSUME NEW t \in Threads, DeleteNothing(t) PROVE LockInv'
  BY <1>13 DEF DeleteNothing
<1>14. ASSUME NEW t \in Threads, Erase(t) PROVE LockInv'
  BY <1>14 DEF Erase
<1>15. ASSUME NEW t \in Threads, Free(t) PROVE LockInv'
  BY <1>15 DEF Free
<1>16. ASSUME NEW t \in Threads, FreeNext(t) PROVE LockInv'
  BY <1>16 DEF FreeNext
<1>17. ASSUME NEW t \in Threads, StepEnd(t) PROVE LockInv'
  BY <1>17 DEF StepEnd
<1>18. ASSUME NEW t \in Threads, LastStepEnd(t) PROVE LockInv'
  BY <1>18 DEF LastStepEnd, DeleteAllNetworks
<1>19. ASSUME NEW t \in Threads, PathLock(t) PROVE LockInv'
  BY <1>19 DEF PathLock
<1>20. ASSUME NEW t \in Threads, PathEnd(t) PROVE LockInv'
  BY <1>20 DEF PathEnd
<1>21. CASE UNCHANGED vars
  BY <1>21 DEF vars
<1> QED BY <1>1, <1>2, <1>3, <1>4, <1>5, <1>6, <1>7, <1>8, <1>9, <1>10, <1>11, <1>12, <1>13, <1>14, <1>15, <1>16, <1>17, <1>18, <1>19, <1>20, <1>21, Steps


(* Every step keeps where the calls return to.                             *)
LEMMA ReturnStep == IInv /\ [Next]_vars => ReturnInv'
<1> SUFFICES ASSUME IInv, [Next]_vars
             PROVE  ReturnInv'
  OBVIOUS
<1>0. TypeOK /\ Locals /\ ReturnInv
  BY DEF IInv
<1> USE <1>0 DEF ReturnInv, Locals, TypeOK, Ids, Return, Resume, Goto, SetId, LockRegistry, UnlockRegistry, Network, Threads
<1>1. ASSUME NEW t \in Threads, MayCall(t), CallLoad(t) PROVE ReturnInv'
  BY <1>1 DEF CallLoad
<1>2. ASSUME NEW t \in Threads, MayCall(t), CallLoadDefault(t) PROVE ReturnInv'
  BY <1>2 DEF CallLoadDefault
<1>3. ASSUME NEW t \in Threads, MayCall(t), CallDelete(t) PROVE ReturnInv'
  BY <1>3 DEF CallDelete
<1>4. ASSUME NEW t \in Threads, MayCall(t), CallQuit(t) PROVE ReturnInv'
  BY <1>4 DEF CallQuit, DeleteAllNetworks
<1>5. ASSUME NEW t \in Threads, MayCall(t), StepBegin(t) PROVE ReturnInv'
  BY <1>5 DEF StepBegin
<1>6. ASSUME NEW t \in Threads, MayCall(t), PathFind(t) PROVE ReturnInv'
  BY <1>6 DEF PathFind
<1>7. ASSUME NEW t \in Threads, Create(t) PROVE ReturnInv'
  BY <1>7 DEF Create
<1>8. ASSUME NEW t \in Threads, LoadOk(t) PROVE ReturnInv'
  BY <1>8 DEF LoadOk
<1>9. ASSUME NEW t \in Threads, InitFails(t) PROVE ReturnInv'
  BY <1>9 DEF InitFails
<1>10. ASSUME NEW t \in Threads, LoadFails(t) PROVE ReturnInv'
  BY <1>10 DEF LoadFails
<1>11. ASSUME NEW t \in Threads, LoadFailed(t) PROVE ReturnInv'
  BY <1>11 DEF LoadFailed
<1>12. ASSUME NEW t \in Threads, DeleteFind(t) PROVE ReturnInv'
  BY <1>12 DEF DeleteFind
<1>13. ASSUME NEW t \in Threads, DeleteNothing(t) PROVE ReturnInv'
  BY <1>13 DEF DeleteNothing
<1>14. ASSUME NEW t \in Threads, Erase(t) PROVE ReturnInv'
  BY <1>14 DEF Erase
<1>15. ASSUME NEW t \in Threads, Free(t) PROVE ReturnInv'
  BY <1>15 DEF Free
<1>16. ASSUME NEW t \in Threads, FreeNext(t) PROVE ReturnInv'
  BY <1>16 DEF FreeNext
<1>17. ASSUME NEW t \in Threads, StepEnd(t) PROVE ReturnInv'
  BY <1>17 DEF StepEnd
<1>18. ASSUME NEW t \in Threads, LastStepEnd(t) PROVE ReturnInv'
  BY <1>18 DEF LastStepEnd, DeleteAllNetworks
<1>19. ASSUME NEW t \in Threads, PathLock(t) PROVE ReturnInv'
  BY <1>19 DEF PathLock
<1>20. ASSUME NEW t \in Threads, PathEnd(t) PROVE ReturnInv'
  BY <1>20 DEF PathEnd
<1>21. CASE UNCHANGED vars
  BY <1>21 DEF vars
<1> QED BY <1>1, <1>2, <1>3, <1>4, <1>5, <1>6, <1>7, <1>8, <1>9, <1>10, <1>11, <1>12, <1>13, <1>14, <1>15, <1>16, <1>17, <1>18, <1>19, <1>20, <1>21, Steps


(* Every step keeps what the launcher knows.                               *)
LEMMA LauncherStep == IInv /\ [Next]_vars => LauncherInv'
<1> SUFFICES ASSUME IInv, [Next]_vars
             PROVE  LauncherInv'
  OBVIOUS
<1>0. TypeOK /\ Locals /\ Roles /\ LauncherInv
  BY DEF IInv
<1> USE <1>0 DEF LauncherInv, Roles, Locals, TypeOK, Ids, Return, Resume, Goto, SetId, LockRegistry, UnlockRegistry, Network, Threads
<1>1. ASSUME NEW t \in Threads, MayCall(t), CallLoad(t) PROVE LauncherInv'
  BY <1>1, RegistryAssumption DEF CallLoad, MayCall
<1>2. ASSUME NEW t \in Threads, MayCall(t), CallLoadDefault(t) PROVE LauncherInv'
  BY <1>2, RegistryAssumption DEF CallLoadDefault, MayCall
<1>3. ASSUME NEW t \in Threads, MayCall(t), CallDelete(t) PROVE LauncherInv'
  BY <1>3, RegistryAssumption DEF CallDelete, MayCall
<1>4. ASSUME NEW t \in Threads, MayCall(t), CallQuit(t) PROVE LauncherInv'
  BY <1>4, RegistryAssumption DEF CallQuit, DeleteAllNetworks, MayCall
<1>5. ASSUME NEW t \in Threads, MayCall(t), StepBegin(t) PROVE LauncherInv'
  BY <1>5, RegistryAssumption DEF StepBegin, MayCall
<1>6. ASSUME NEW t \in Threads, MayCall(t), PathFind(t) PROVE LauncherInv'
  BY <1>6, RegistryAssumption DEF PathFind, MayCall
<1>7. ASSUME NEW t \in Threads, Create(t) PROVE LauncherInv'
  BY <1>7, RegistryAssumption DEF Create
<1>8. ASSUME NEW t \in Threads, LoadOk(t) PROVE LauncherInv'
  BY <1>8, RegistryAssumption DEF LoadOk
<1>9. ASSUME NEW t \in Threads, InitFails(t) PROVE LauncherInv'
  BY <1>9, RegistryAssumption DEF InitFails
<1>10. ASSUME NEW t \in Threads, LoadFails(t) PROVE LauncherInv'
  BY <1>10, RegistryAssumption DEF LoadFails
<1>11. ASSUME NEW t \in Threads, LoadFailed(t) PROVE LauncherInv'
  BY <1>11, RegistryAssumption DEF LoadFailed
<1>12. ASSUME NEW t \in Threads, DeleteFind(t) PROVE LauncherInv'
  BY <1>12, RegistryAssumption DEF DeleteFind
<1>13. ASSUME NEW t \in Threads, DeleteNothing(t) PROVE LauncherInv'
  BY <1>13, RegistryAssumption DEF DeleteNothing
<1>14. ASSUME NEW t \in Threads, Erase(t) PROVE LauncherInv'
  BY <1>14, RegistryAssumption DEF Erase
<1>15. ASSUME NEW t \in Threads, Free(t) PROVE LauncherInv'
  BY <1>15, RegistryAssumption DEF Free
<1>16. ASSUME NEW t \in Threads, FreeNext(t) PROVE LauncherInv'
  BY <1>16, RegistryAssumption DEF FreeNext
<1>17. ASSUME NEW t \in Threads, StepEnd(t) PROVE LauncherInv'
  BY <1>17, RegistryAssumption DEF StepEnd
<1>18. ASSUME NEW t \in Threads, LastStepEnd(t) PROVE LauncherInv'
  BY <1>18, RegistryAssumption DEF LastStepEnd, DeleteAllNetworks
<1>19. ASSUME NEW t \in Threads, PathLock(t) PROVE LauncherInv'
  BY <1>19, RegistryAssumption DEF PathLock
<1>20. ASSUME NEW t \in Threads, PathEnd(t) PROVE LauncherInv'
  BY <1>20, RegistryAssumption DEF PathEnd
<1>21. CASE UNCHANGED vars
  BY <1>21 DEF vars
<1> QED BY <1>1, <1>2, <1>3, <1>4, <1>5, <1>6, <1>7, <1>8, <1>9, <1>10, <1>11, <1>12, <1>13, <1>14, <1>15, <1>16, <1>17, <1>18, <1>19, <1>20, <1>21, Steps


(* Every step keeps the default network with its owner.                    *)
LEMMA DefaultStep == IInv /\ [Next]_vars => DefaultInv'
<1> SUFFICES ASSUME IInv, [Next]_vars
             PROVE  DefaultInv'
  OBVIOUS
<1>0. TypeOK /\ Locals /\ Roles /\ ReturnInv /\ DefaultInv /\ RangeInv
  BY DEF IInv
<1> USE <1>0 DEF DefaultInv, ReturnInv, Roles, Locals, TypeOK, Ids, Return, Resume, Goto, SetId, LockRegistry, UnlockRegistry, Network, Threads
<1>1. ASSUME NEW t \in Threads, MayCall(t), CallLoad(t) PROVE DefaultInv'
  BY <1>1 DEF CallLoad, DEFAULT_NETWORK_ID
<1>2. ASSUME NEW t \in Threads, MayCall(t), CallLoadDefault(t) PROVE DefaultInv'
  BY <1>2, RegistryAssumption DEF CallLoadDefault, DEFAULT_NETWORK_ID
<1>3. ASSUME NEW t \in Threads, MayCall(t), CallDelete(t) PROVE DefaultInv'
  BY <1>3 DEF CallDelete, DEFAULT_NETWORK_ID
<1>4. ASSUME NEW t \in Threads, MayCall(t), CallQuit(t) PROVE DefaultInv'
  BY <1>4 DEF CallQuit, DeleteAllNetworks, DEFAULT_NETWORK_ID
<1>5. ASSUME NEW t \in Threads, MayCall(t), StepBegin(t) PROVE DefaultInv'
  BY <1>5 DEF StepBegin, DEFAULT_NETWORK_ID
<1>6. ASSUME NEW t \in Threads, MayCall(t), PathFind(t) PROVE DefaultInv'
  BY <1>6 DEF PathFind, DEFAULT_NETWORK_ID
<1>7. ASSUME NEW t \in Threads, Create(t) PROVE DefaultInv'
  BY <1>7, NewIdFresh, RegistryAssumption DEF Create, DEFAULT_NETWORK_ID
<1>8. ASSUME NEW t \in Threads, LoadOk(t) PROVE DefaultInv'
  BY <1>8 DEF LoadOk, DEFAULT_NETWORK_ID
<1>9. ASSUME NEW t \in Threads, InitFails(t) PROVE DefaultInv'
  BY <1>9 DEF InitFails, DEFAULT_NETWORK_ID
<1>10. ASSUME NEW t \in Threads, LoadFails(t) PROVE DefaultInv'
  BY <1>10 DEF LoadFails, DEFAULT_NETWORK_ID
<1>11. ASSUME NEW t \in Threads, LoadFailed(t) PROVE DefaultInv'
  BY <1>11 DEF LoadFailed, DEFAULT_NETWORK_ID
<1>12. ASSUME NEW t \in Threads, DeleteFind(t) PROVE DefaultInv'
  BY <1>12 DEF DeleteFind, DEFAULT_NETWORK_ID
<1>13. ASSUME NEW t \in Threads, DeleteNothing(t) PROVE DefaultInv'
  BY <1>13 DEF DeleteNothing, DEFAULT_NETWORK_ID
<1>14. ASSUME NEW t \in Threads, Erase(t) PROVE DefaultInv'
  BY <1>14 DEF Erase, DEFAULT_NETWORK_ID
<1>15. ASSUME NEW t \in Threads, Free(t) PROVE DefaultInv'
  BY <1>15 DEF Free, DEFAULT_NETWORK_ID
<1>16. ASSUME NEW t \in Threads, FreeNext(t) PROVE DefaultInv'
  BY <1>16 DEF FreeNext, DEFAULT_NETWORK_ID
<1>17. ASSUME NEW t \in Threads, StepEnd(t) PROVE DefaultInv'
  BY <1>17 DEF StepEnd, DEFAULT_NETWORK_ID
<1>18. ASSUME NEW t \in Threads, LastStepEnd(t) PROVE DefaultInv'
  BY <1>18 DEF LastStepEnd, DeleteAllNetworks, DEFAULT_NETWORK_ID
<1>19. ASSUME NEW t \in Threads, PathLock(t) PROVE DefaultInv'
  BY <1>19 DEF PathLock, DEFAULT_NETWORK_ID
<1>20. ASSUME NEW t \in Threads, PathEnd(t) PROVE DefaultInv'
  BY <1>20 DEF PathEnd, DEFAULT_NETWORK_ID
<1>21. CASE UNCHANGED vars
  BY <1>21 DEF vars
<1> QED BY <1>1, <1>2, <1>3, <1>4, <1>5, <1>6, <1>7, <1>8, <1>9, <1>10, <1>11, <1>12, <1>13, <1>14, <1>15, <1>16, <1>17, <1>18, <1>19, <1>20, <1>21, Steps


(* Every step keeps the state of those that quit.                          *)
LEMMA QuitStep == IInv /\ [Next]_vars => QuitInv'
<1> SUFFICES ASSUME IInv, [Next]_vars
             PROVE  QuitInv'
  OBVIOUS
<1>0. TypeOK /\ Locals /\ Roles /\ ReturnInv /\ LockInv /\ LauncherInv /\ QuitInv
  BY DEF IInv
<1> USE <1>0 DEF QuitInv, ReturnInv, LockInv, Inside, Roles, Locals, TypeOK, Ids, Return, Resume, Goto, SetId, LockRegistry, UnlockRegistry, Network, Threads
<1>1. ASSUME NEW t \in Threads, MayCall(t), CallLoad(t) PROVE QuitInv'
  BY <1>1, RegistryAssumption DEF CallLoad
<1>2. ASSUME NEW t \in Threads, MayCall(t), CallLoadDefault(t) PROVE QuitInv'
  BY <1>2, RegistryAssumption DEF CallLoadDefault
<1>3. ASSUME NEW t \in Threads, MayCall(t), CallDelete(t) PROVE QuitInv'
  BY <1>3, RegistryAssumption DEF CallDelete
<1>4. ASSUME NEW t \in Threads, MayCall(t), CallQuit(t) PROVE QuitInv'
  BY <1>4, RegistryAssumption DEF CallQuit, DeleteAllNetworks
<1>5. ASSUME NEW t \in Threads, MayCall(t), StepBegin(t) PROVE QuitInv'
  BY <1>5, RegistryAssumption DEF StepBegin
<1>6. ASSUME NEW t \in Threads, MayCall(t), PathFind(t) PROVE QuitInv'
  BY <1>6, RegistryAssumption DEF PathFind
<1>7. ASSUME NEW t \in Threads, Create(t) PROVE QuitInv'
  BY <1>7 DEF Create
<1>8. ASSUME NEW t \in Threads, LoadOk(t) PROVE QuitInv'
  BY <1>8 DEF LoadOk
<1>9. ASSUME NEW t \in Threads, InitFails(t) PROVE QuitInv'
  BY <1>9 DEF InitFails
<1>10. ASSUME NEW t \in Threads, LoadFails(t) PROVE QuitInv'
  BY <1>10 DEF LoadFails
<1>11. ASSUME NEW t \in Threads, LoadFailed(t) PROVE QuitInv'
  BY <1>11 DEF LoadFailed
<1>12. ASSUME NEW t \in Threads, DeleteFind(t) PROVE QuitInv'
  BY <1>12 DEF DeleteFind
<1>13. ASSUME NEW t \in Threads, DeleteNothing(t) PROVE QuitInv'
  BY <1>13 DEF DeleteNothing
<1>14. ASSUME NEW t \in Threads, Erase(t) PROVE QuitInv'
  BY <1>14 DEF Erase
<1>15. ASSUME NEW t \in Threads, Free(t) PROVE QuitInv'
  BY <1>15 DEF Free
<1>16. ASSUME NEW t \in Threads, FreeNext(t) PROVE QuitInv'
  BY ZenonT(40), <1>16 DEF FreeNext
<1>17. ASSUME NEW t \in Threads, StepEnd(t) PROVE QuitInv'
  BY <1>17 DEF StepEnd
<1>18. ASSUME NEW t \in Threads, LastStepEnd(t) PROVE QuitInv'
  BY <1>18, RegistryAssumption DEF LastStepEnd, DeleteAllNetworks, LauncherInv
<1>19. ASSUME NEW t \in Threads, PathLock(t) PROVE QuitInv'
  BY <1>19 DEF PathLock
<1>20. ASSUME NEW t \in Threads, PathEnd(t) PROVE QuitInv'
  BY <1>20 DEF PathEnd
<1>21. CASE UNCHANGED vars
  BY <1>21 DEF vars
<1> QED BY <1>1, <1>2, <1>3, <1>4, <1>5, <1>6, <1>7, <1>8, <1>9, <1>10, <1>11, <1>12, <1>13, <1>14, <1>15, <1>16, <1>17, <1>18, <1>19, <1>20, <1>21, Steps


(* Every step keeps what is being erased.                                  *)
LEMMA EraseStep == IInv /\ [Next]_vars => EraseInv'
<1> SUFFICES ASSUME IInv, [Next]_vars
             PROVE  EraseInv'
  OBVIOUS
<1>0. TypeOK /\ Locals /\ Roles /\ LockInv /\ ReturnInv /\ RangeInv /\ EraseInv
  BY DEF IInv
<1> USE <1>0 DEF EraseInv, Found, ReturnInv, LockInv, Inside, Roles, Locals, TypeOK, Ids, Return, Resume, Goto, SetId, LockRegistry, UnlockRegistry, Network, Threads
<1>1. ASSUME NEW t \in Threads, MayCall(t), CallLoad(t) PROVE EraseInv'
  BY <1>1 DEF CallLoad
<1>2. ASSUME NEW t \in Threads, MayCall(t), CallLoadDefault(t) PROVE EraseInv'
  BY <1>2 DEF CallLoadDefault
<1>3. ASSUME NEW t \in Threads, MayCall(t), CallDelete(t) PROVE EraseInv'
  BY <1>3 DEF CallDelete
<1>4. ASSUME NEW t \in Threads, MayCall(t), CallQuit(t) PROVE EraseInv'
  BY <1>4, LeastIsFound DEF CallQuit, DeleteAllNetworks
<1>5. ASSUME NEW t \in Threads, MayCall(t), StepBegin(t) PROVE EraseInv'
  BY <1>5 DEF StepBegin
<1>6. ASSUME NEW t \in Threads, MayCall(t), PathFind(t) PROVE EraseInv'
  BY <1>6 DEF PathFind
<1>7. ASSUME NEW t \in Threads, Create(t) PROVE EraseInv'
  BY <1>7, NewIdFresh DEF Create
<1>8. ASSUME NEW t \in Threads, LoadOk(t) PROVE EraseInv'
  BY <1>8 DEF LoadOk
<1>9. ASSUME NEW t \in Threads, InitFails(t) PROVE EraseInv'
  BY <1>9 DEF InitFails
<1>10. ASSUME NEW t \in Threads, LoadFails(t) PROVE EraseInv'
  BY <1>10 DEF LoadFails
<1>11. ASSUME NEW t \in Threads, LoadFailed(t) PROVE EraseInv'
  BY <1>11 DEF LoadFailed
<1>12. ASSUME NEW t \in Threads, DeleteFind(t) PROVE EraseInv'
  BY <1>12 DEF DeleteFind
<1>13. ASSUME NEW t \in Threads, DeleteNothing(t) PROVE EraseInv'
  BY <1>13 DEF DeleteNothing
<1>14. ASSUME NEW t \in Threads, Erase(t) PROVE EraseInv'
  BY <1>14 DEF Erase, Without
<1>15. ASSUME NEW t \in Threads, Free(t) PROVE EraseInv'
  BY <1>15 DEF Free
<1>16. ASSUME NEW t \in Threads, FreeNext(t) PROVE EraseInv'
  <2>1. pc[t] = "free" /\ m_mapNetworks' = m_mapNetworks /\ created' = created
    BY <1>16 DEF FreeNext
  <2>2. ASSUME NEW u \in Threads, u # t PROVE pc'[u] = pc[u] /\ pc[u] \notin {"erase", "free"}
    BY <1>16, <2>1, <2>2 DEF FreeNext
  <2>3. CASE Return(t)
    BY <2>1, <2>2, <2>3
  <2>4. CASE Ids # {} /\ SetId(t, Least(Ids)) /\ Goto(t, "erase")
             /\ inst' = [inst EXCEPT ![t] = m_mapNetworks[Least(Ids)]]
    BY <2>1, <2>2, <2>4, LeastIsFound
  <2> QED BY <1>16, <2>3, <2>4 DEF FreeNext
<1>17. ASSUME NEW t \in Threads, StepEnd(t) PROVE EraseInv'
  BY <1>17 DEF StepEnd
<1>18. ASSUME NEW t \in Threads, LastStepEnd(t) PROVE EraseInv'
  BY <1>18, LeastIsFound DEF LastStepEnd, DeleteAllNetworks
<1>19. ASSUME NEW t \in Threads, PathLock(t) PROVE EraseInv'
  BY <1>19 DEF PathLock
<1>20. ASSUME NEW t \in Threads, PathEnd(t) PROVE EraseInv'
  BY <1>20 DEF PathEnd
<1>21. CASE UNCHANGED vars
  BY <1>21 DEF vars
<1> QED BY <1>1, <1>2, <1>3, <1>4, <1>5, <1>6, <1>7, <1>8, <1>9, <1>10, <1>11, <1>12, <1>13, <1>14, <1>15, <1>16, <1>17, <1>18, <1>19, <1>20, <1>21, Steps


(* Every step keeps the networks in the hands of the calls.                *)
LEMMA HandStep == IInv /\ [Next]_vars => HandInv'
<1> SUFFICES ASSUME IInv, [Next]_vars
             PROVE  HandInv'
  OBVIOUS
<1>0. TypeOK /\ Locals /\ Roles /\ ReturnInv /\ LockInv /\ DefaultInv /\ RangeInv /\ QuitInv /\ HandInv /\ EraseInv /\ IdsExclusive
  BY DEF IInv
<1> USE <1>0 DEF HandInv, InHand, Found, ReturnInv, LockInv, Inside, Roles, Locals, TypeOK, Ids, Return, Resume, Goto, SetId, LockRegistry, UnlockRegistry, Network, Threads
<1>1. ASSUME NEW t \in Threads, MayCall(t), CallLoad(t) PROVE HandInv'
  BY <1>1 DEF CallLoad
<1>2. ASSUME NEW t \in Threads, MayCall(t), CallLoadDefault(t) PROVE HandInv'
  BY <1>2, RegistryAssumption DEF CallLoadDefault, DefaultInv
<1>3. ASSUME NEW t \in Threads, MayCall(t), CallDelete(t) PROVE HandInv'
  BY <1>3, RegistryAssumption DEF CallDelete, IdsExclusive
<1>4. ASSUME NEW t \in Threads, MayCall(t), CallQuit(t) PROVE HandInv'
  BY <1>4, LeastIsFound DEF CallQuit, DeleteAllNetworks
<1>5. ASSUME NEW t \in Threads, MayCall(t), StepBegin(t) PROVE HandInv'
  BY <1>5 DEF StepBegin
<1>6. ASSUME NEW t \in Threads, MayCall(t), PathFind(t) PROVE HandInv'
  BY <1>6 DEF PathFind
<1>7. ASSUME NEW t \in Threads, Create(t) PROVE HandInv'
  <2>1. PICK i \in Int :
          /\ i \notin Ids /\ i <= created + 1
          /\ i = DEFAULT_NETWORK_ID => id[t] = DEFAULT_NETWORK_ID
          /\ Ids' = Ids \cup {i}
          /\ m_mapNetworks'[i] = created + 1
          /\ \A j \in Ids : m_mapNetworks'[j] = m_mapNetworks[j]
          /\ id' = [id EXCEPT ![t] = i]
    BY <1>7, CreateEffect
  <2>2. /\ pc[t] = "create" /\ pc' = [pc EXCEPT ![t] = "load"] /\ registryHolder = {}
        /\ created' = created + 1 /\ UNCHANGED <<own, deleted, returns, inst>>
    BY <1>7 DEF Create
  <2> QED BY <2>1, <2>2, RegistryAssumption DEF DefaultInv, IdsExclusive
<1>8. ASSUME NEW t \in Threads, LoadOk(t) PROVE HandInv'
  BY <1>8 DEF LoadOk
<1>9. ASSUME NEW t \in Threads, InitFails(t) PROVE HandInv'
  BY <1>9 DEF InitFails
<1>10. ASSUME NEW t \in Threads, LoadFails(t) PROVE HandInv'
  BY <1>10 DEF LoadFails
<1>11. ASSUME NEW t \in Threads, LoadFailed(t) PROVE HandInv'
  BY <1>11 DEF LoadFailed
<1>12. ASSUME NEW t \in Threads, DeleteFind(t) PROVE HandInv'
  BY <1>12 DEF DeleteFind
<1>13. ASSUME NEW t \in Threads, DeleteNothing(t) PROVE HandInv'
  BY <1>13 DEF DeleteNothing
<1>14. ASSUME NEW t \in Threads, Erase(t) PROVE HandInv'
  BY <1>14 DEF Erase, Without, QuitInv, EraseInv
<1>15. ASSUME NEW t \in Threads, Free(t) PROVE HandInv'
  BY <1>15 DEF Free
<1>16. ASSUME NEW t \in Threads, FreeNext(t) PROVE HandInv'
  BY <1>16, FreeNextEffect
<1>17. ASSUME NEW t \in Threads, StepEnd(t) PROVE HandInv'
  BY <1>17 DEF StepEnd
<1>18. ASSUME NEW t \in Threads, LastStepEnd(t) PROVE HandInv'
  BY <1>18, LeastIsFound DEF LastStepEnd, DeleteAllNetworks
<1>19. ASSUME NEW t \in Threads, PathLock(t) PROVE HandInv'
  BY <1>19 DEF PathLock
<1>20. ASSUME NEW t \in Threads, PathEnd(t) PROVE HandInv'
  BY <1>20 DEF PathEnd
<1>21. CASE UNCHANGED vars
  BY <1>21 DEF vars
<1> QED BY <1>1, <1>2, <1>3, <1>4, <1>5, <1>6, <1>7, <1>8, <1>9, <1>10, <1>11, <1>12, <1>13, <1>14, <1>15, <1>16, <1>17, <1>18, <1>19, <1>20, <1>21, Steps


(* Every step keeps the pointers to live networks.                         *)
LEMMA PointerStep == IInv /\ [Next]_vars => PointerInv'
<1> SUFFICES ASSUME IInv, [Next]_vars
             PROVE  PointerInv'
  OBVIOUS
<1>0. TypeOK /\ Locals /\ Roles /\ ReturnInv /\ LockInv /\ SharedInv /\ LauncherInv /\ DefaultInv /\ RangeInv /\ QuitInv /\ HandInv /\ EraseInv /\ NoLeak /\ IdsExclusive /\ PointerInv
  BY DEF IInv
<1> USE <1>0 DEF PointerInv, Found, ReturnInv, LockInv, Inside, Roles, Locals, TypeOK, Ids, Return, Resume, Goto, SetId, LockRegistry, UnlockRegistry, Network, Threads
<1>1. ASSUME NEW t \in Threads, MayCall(t), CallLoad(t) PROVE PointerInv'
  BY <1>1 DEF CallLoad
<1>2. ASSUME NEW t \in Threads, MayCall(t), CallLoadDefault(t) PROVE PointerInv'
  BY <1>2 DEF CallLoadDefault
<1>3. ASSUME NEW t \in Threads, MayCall(t), CallDelete(t) PROVE PointerInv'
  BY <1>3 DEF CallDelete
<1>4. ASSUME NEW t \in Threads, MayCall(t), CallQuit(t) PROVE PointerInv'
  BY <1>4, LeastIsFound DEF CallQuit, DeleteAllNetworks
<1>5. ASSUME NEW t \in Threads, MayCall(t), StepBegin(t) PROVE PointerInv'
  BY <1>5 DEF StepBegin
<1>6. ASSUME NEW t \in Threads, MayCall(t), PathFind(t) PROVE PointerInv'
  BY <1>6 DEF PathFind
<1>7. ASSUME NEW t \in Threads, Create(t) PROVE PointerInv'
  BY <1>7, NewIdFresh, RegistryAssumption DEF Create, IdsExclusive
<1>8. ASSUME NEW t \in Threads, LoadOk(t) PROVE PointerInv'
  BY <1>8 DEF LoadOk
<1>9. ASSUME NEW t \in Threads, InitFails(t) PROVE PointerInv'
  BY <1>9 DEF InitFails
<1>10. ASSUME NEW t \in Threads, LoadFails(t) PROVE PointerInv'
  BY <1>10 DEF LoadFails
<1>11. ASSUME NEW t \in Threads, LoadFailed(t) PROVE PointerInv'
  BY <1>11 DEF LoadFailed
<1>12. ASSUME NEW t \in Threads, DeleteFind(t) PROVE PointerInv'
  BY <1>12 DEF DeleteFind
<1>13. ASSUME NEW t \in Threads, DeleteNothing(t) PROVE PointerInv'
  BY <1>13 DEF DeleteNothing
<1>14. ASSUME NEW t \in Threads, Erase(t) PROVE PointerInv'
  <2>1. /\ pc[t] = "erase" /\ pc' = [pc EXCEPT ![t] = "free"] /\ UNCHANGED <<own, inst>>
        /\ Ids' = Ids \ {id[t]} /\ \A j \in Ids \ {id[t]} : m_mapNetworks'[j] = m_mapNetworks[j]
        /\ sharedHolders[inst[t]] = {} /\ t \in Loaders
    BY <1>14 DEF Erase, Without
  <2>2. id[t] \in Ids /\ inst[t] = m_mapNetworks[id[t]] /\ inst[t] \in Instances
    BY <2>1, RegistryAssumption DEF EraseInv, Instances
  <2>3. ASSUME NEW u \in PathCallers, pc'[u] \in {"pathLock", "path"}
        PROVE  \E i \in Ids' : inst'[u] = m_mapNetworks'[i]
    <3>1. u # t /\ pc[u] = "path"
      BY <2>1, <2>3, RegistryAssumption
    <3>2. PICK i \in Ids : inst[u] = m_mapNetworks[i]
      BY <3>1
    <3>3. inst[u] # inst[t]
      BY <2>1, <2>2, <3>1 DEF SharedInv
    <3> QED BY <2>1, <2>2, <3>2, <3>3
  <2>4. ASSUME NEW u \in Loaders, pc'[u] = "step"
        PROVE  \E i \in own'[u] : inst'[u] = m_mapNetworks'[i]
    <3>1. u # t /\ pc[u] = "step"
      BY <2>1, <2>4
    <3>2. returns[t] # "quit"
      BY <2>1, <3>1 DEF QuitInv
    <3>3. id[t] \notin own[u]
      BY <2>1, <3>2 DEF HandInv, InHand
    <3>4. own[u] \subseteq Ids
      BY DEF IdsExclusive
    <3> QED BY <2>1, <3>1, <3>3, <3>4
  <2> QED BY <2>3, <2>4
<1>15. ASSUME NEW t \in Threads, Free(t) PROVE PointerInv'
  BY <1>15 DEF Free
<1>16. ASSUME NEW t \in Threads, FreeNext(t) PROVE PointerInv'
  BY <1>16, FreeNextEffect, RegistryAssumption
<1>17. ASSUME NEW t \in Threads, StepEnd(t) PROVE PointerInv'
  BY <1>17 DEF StepEnd
<1>18. ASSUME NEW t \in Threads, LastStepEnd(t) PROVE PointerInv'
  BY <1>18, LeastIsFound DEF LastStepEnd, DeleteAllNetworks, LauncherInv
<1>19. ASSUME NEW t \in Threads, PathLock(t) PROVE PointerInv'
  BY <1>19 DEF PathLock
<1>20. ASSUME NEW t \in Threads, PathEnd(t) PROVE PointerInv'
  BY <1>20 DEF PathEnd
<1>21. CASE UNCHANGED vars
  BY <1>21 DEF vars
<1> QED BY <1>1, <1>2, <1>3, <1>4, <1>5, <1>6, <1>7, <1>8, <1>9, <1>10, <1>11, <1>12, <1>13, <1>14, <1>15, <1>16, <1>17, <1>18, <1>19, <1>20, <1>21, Steps


(* No step loses a network.                                                *)
LEMMA LeakStep == IInv /\ [Next]_vars => NoLeak'
<1> SUFFICES ASSUME IInv, [Next]_vars
             PROVE  NoLeak'
  OBVIOUS
<1>0. TypeOK /\ Locals /\ Roles /\ ReturnInv /\ LockInv /\ RangeInv /\ EraseInv /\ IdsExclusive /\ NoLeak
  BY DEF IInv
<1> USE <1>0 DEF NoLeak, ReturnInv, LockInv, Inside, Roles, Locals, TypeOK, Ids, Return, Resume, Goto, SetId, LockRegistry, UnlockRegistry, Network, Threads
<1>1. ASSUME NEW t \in Threads, MayCall(t), CallLoad(t) PROVE NoLeak'
  BY <1>1 DEF CallLoad
<1>2. ASSUME NEW t \in Threads, MayCall(t), CallLoadDefault(t) PROVE NoLeak'
  BY <1>2 DEF CallLoadDefault
<1>3. ASSUME NEW t \in Threads, MayCall(t), CallDelete(t) PROVE NoLeak'
  BY <1>3 DEF CallDelete
<1>4. ASSUME NEW t \in Threads, MayCall(t), CallQuit(t) PROVE NoLeak'
  BY <1>4, LeastIsFound DEF CallQuit, DeleteAllNetworks
<1>5. ASSUME NEW t \in Threads, MayCall(t), StepBegin(t) PROVE NoLeak'
  BY <1>5 DEF StepBegin
<1>6. ASSUME NEW t \in Threads, MayCall(t), PathFind(t) PROVE NoLeak'
  BY <1>6 DEF PathFind
<1>7. ASSUME NEW t \in Threads, Create(t) PROVE NoLeak'
  <2>1. PICK i \in Int :
          /\ i \notin Ids /\ i <= created + 1
          /\ i = DEFAULT_NETWORK_ID => id[t] = DEFAULT_NETWORK_ID
          /\ Ids' = Ids \cup {i}
          /\ m_mapNetworks'[i] = created + 1
          /\ \A j \in Ids : m_mapNetworks'[j] = m_mapNetworks[j]
          /\ id' = [id EXCEPT ![t] = i]
    BY <1>7, CreateEffect
  <2>2. /\ pc[t] = "create" /\ pc' = [pc EXCEPT ![t] = "load"] /\ registryHolder = {}
        /\ created' = created + 1 /\ UNCHANGED <<own, deleted, returns, inst>>
    BY <1>7 DEF Create
  <2> QED BY <2>1, <2>2, RegistryAssumption
<1>8. ASSUME NEW t \in Threads, LoadOk(t) PROVE NoLeak'
  BY <1>8 DEF LoadOk
<1>9. ASSUME NEW t \in Threads, InitFails(t) PROVE NoLeak'
  BY <1>9 DEF InitFails
<1>10. ASSUME NEW t \in Threads, LoadFails(t) PROVE NoLeak'
  BY <1>10 DEF LoadFails
<1>11. ASSUME NEW t \in Threads, LoadFailed(t) PROVE NoLeak'
  BY <1>11 DEF LoadFailed
<1>12. ASSUME NEW t \in Threads, DeleteFind(t) PROVE NoLeak'
  BY <1>12 DEF DeleteFind
<1>13. ASSUME NEW t \in Threads, DeleteNothing(t) PROVE NoLeak'
  BY <1>13 DEF DeleteNothing
<1>14. ASSUME NEW t \in Threads, Erase(t) PROVE NoLeak'
  <2>1. /\ pc[t] = "erase" /\ pc' = [pc EXCEPT ![t] = "free"]
        /\ UNCHANGED <<inst, created, deleted>>
        /\ Ids' = Ids \ {id[t]} /\ \A j \in Ids \ {id[t]} : m_mapNetworks'[j] = m_mapNetworks[j]
    BY <1>14 DEF Erase, Without
  <2>2. id[t] \in Ids /\ inst[t] = m_mapNetworks[id[t]]
    BY <2>1 DEF EraseInv, Found
  <2>3. \A u \in Threads : pc'[u] = "free" <=> u = t
    BY <2>1
  <2> QED BY <2>1, <2>2, <2>3
<1>15. ASSUME NEW t \in Threads, Free(t) PROVE NoLeak'
  BY <1>15 DEF Free, EraseInv, Found
<1>16. ASSUME NEW t \in Threads, FreeNext(t) PROVE NoLeak'
  <2>1. ASSUME NEW u \in Threads PROVE pc[u] = "free" => u = t
    BY <1>16, FreeNextEffect
  <2>2. ASSUME NEW u \in Threads PROVE pc'[u] # "free"
    BY <1>16, <2>1, FreeNextEffect
  <2>3. inst[t] \in 1 .. created /\ ~Found(id[t])
    BY <1>16, FreeNextEffect DEF EraseInv
  <2> QED BY <1>16, <2>1, <2>2, <2>3, FreeNextEffect
<1>17. ASSUME NEW t \in Threads, StepEnd(t) PROVE NoLeak'
  BY <1>17 DEF StepEnd
<1>18. ASSUME NEW t \in Threads, LastStepEnd(t) PROVE NoLeak'
  BY <1>18, LeastIsFound DEF LastStepEnd, DeleteAllNetworks
<1>19. ASSUME NEW t \in Threads, PathLock(t) PROVE NoLeak'
  BY <1>19 DEF PathLock
<1>20. ASSUME NEW t \in Threads, PathEnd(t) PROVE NoLeak'
  BY <1>20 DEF PathEnd
<1>21. CASE UNCHANGED vars
  BY <1>21 DEF vars
<1> QED BY <1>1, <1>2, <1>3, <1>4, <1>5, <1>6, <1>7, <1>8, <1>9, <1>10, <1>11, <1>12, <1>13, <1>14, <1>15, <1>16, <1>17, <1>18, <1>19, <1>20, <1>21, Steps


(* No step gives an identifier twice.                                      *)
LEMMA IdsStep == IInv /\ [Next]_vars => IdsExclusive'
<1> SUFFICES ASSUME IInv, [Next]_vars
             PROVE  IdsExclusive'
  OBVIOUS
<1>0. TypeOK /\ Locals /\ Roles /\ ReturnInv /\ LockInv /\ DefaultInv /\ RangeInv /\ QuitInv /\ HandInv /\ EraseInv /\ IdsExclusive
  BY DEF IInv
<1> USE <1>0 DEF IdsExclusive, ReturnInv, LockInv, Inside, Roles, Locals, TypeOK, Ids, Return, Resume, Goto, SetId, LockRegistry, UnlockRegistry, Network, Threads
<1>1. ASSUME NEW t \in Threads, MayCall(t), CallLoad(t) PROVE IdsExclusive'
  BY <1>1 DEF CallLoad, DEFAULT_NETWORK_ID
<1>2. ASSUME NEW t \in Threads, MayCall(t), CallLoadDefault(t) PROVE IdsExclusive'
  BY <1>2 DEF CallLoadDefault
<1>3. ASSUME NEW t \in Threads, MayCall(t), CallDelete(t) PROVE IdsExclusive'
  BY <1>3 DEF CallDelete
<1>4. ASSUME NEW t \in Threads, MayCall(t), CallQuit(t) PROVE IdsExclusive'
  BY <1>4, LeastIsFound DEF CallQuit, DeleteAllNetworks
<1>5. ASSUME NEW t \in Threads, MayCall(t), StepBegin(t) PROVE IdsExclusive'
  BY <1>5 DEF StepBegin
<1>6. ASSUME NEW t \in Threads, MayCall(t), PathFind(t) PROVE IdsExclusive'
  BY <1>6 DEF PathFind
<1>7. ASSUME NEW t \in Threads, Create(t) PROVE IdsExclusive'
  <2>1. PICK i \in Int :
          /\ i \notin Ids /\ i <= created + 1
          /\ i = DEFAULT_NETWORK_ID => id[t] = DEFAULT_NETWORK_ID
          /\ Ids' = Ids \cup {i}
          /\ m_mapNetworks'[i] = created + 1
          /\ \A j \in Ids : m_mapNetworks'[j] = m_mapNetworks[j]
          /\ id' = [id EXCEPT ![t] = i]
    BY <1>7, CreateEffect
  <2>2. /\ pc[t] = "create" /\ pc' = [pc EXCEPT ![t] = "load"] /\ registryHolder = {}
        /\ created' = created + 1 /\ UNCHANGED <<own, deleted, returns, inst>>
    BY <1>7 DEF Create
  <2> QED BY <2>1, <2>2, RegistryAssumption DEF DefaultInv
<1>8. ASSUME NEW t \in Threads, LoadOk(t) PROVE IdsExclusive'
  BY <1>8 DEF LoadOk, HandInv, InHand, Found
<1>9. ASSUME NEW t \in Threads, InitFails(t) PROVE IdsExclusive'
  BY <1>9 DEF InitFails
<1>10. ASSUME NEW t \in Threads, LoadFails(t) PROVE IdsExclusive'
  BY <1>10 DEF LoadFails
<1>11. ASSUME NEW t \in Threads, LoadFailed(t) PROVE IdsExclusive'
  BY <1>11 DEF LoadFailed
<1>12. ASSUME NEW t \in Threads, DeleteFind(t) PROVE IdsExclusive'
  BY <1>12 DEF DeleteFind
<1>13. ASSUME NEW t \in Threads, DeleteNothing(t) PROVE IdsExclusive'
  BY <1>13 DEF DeleteNothing, Found
<1>14. ASSUME NEW t \in Threads, Erase(t) PROVE IdsExclusive'
  BY <1>14 DEF Erase, Without, QuitInv, HandInv, InHand
<1>15. ASSUME NEW t \in Threads, Free(t) PROVE IdsExclusive'
  BY <1>15 DEF Free, EraseInv, Found
<1>16. ASSUME NEW t \in Threads, FreeNext(t) PROVE IdsExclusive'
  BY <1>16, LeastIsFound DEF FreeNext
<1>17. ASSUME NEW t \in Threads, StepEnd(t) PROVE IdsExclusive'
  BY <1>17 DEF StepEnd
<1>18. ASSUME NEW t \in Threads, LastStepEnd(t) PROVE IdsExclusive'
  BY <1>18, LeastIsFound DEF LastStepEnd, DeleteAllNetworks
<1>19. ASSUME NEW t \in Threads, PathLock(t) PROVE IdsExclusive'
  BY <1>19 DEF PathLock
<1>20. ASSUME NEW t \in Threads, PathEnd(t) PROVE IdsExclusive'
  BY <1>20 DEF PathEnd
<1>21. CASE UNCHANGED vars
  BY <1>21 DEF vars
<1> QED BY <1>1, <1>2, <1>3, <1>4, <1>5, <1>6, <1>7, <1>8, <1>9, <1>10, <1>11, <1>12, <1>13, <1>14, <1>15, <1>16, <1>17, <1>18, <1>19, <1>20, <1>21, Steps

-----------------------------------------------------------------------------
(* The invariant holds at first.                                           *)
LEMMA InitIInv == Init => IInv
<1> SUFFICES ASSUME Init PROVE IInv
  OBVIOUS
<1> USE RegistryAssumption DEF Init, Threads, Instances, Ids, Found, DEFAULT_NETWORK_ID, Inside
<1>1. TypeOK /\ Locals /\ Roles /\ RangeInv
  BY DEF TypeOK, Locals, Roles, RangeInv
<1>2. LockInv /\ SharedInv /\ ReturnInv /\ LauncherInv
  BY DEF LockInv, SharedInv, ReturnInv, LauncherInv
<1>3. DefaultInv /\ QuitInv /\ HandInv
  BY DEF DefaultInv, QuitInv, HandInv, InHand
<1>4. EraseInv /\ PointerInv /\ NoLeak /\ IdsExclusive
  BY DEF EraseInv, PointerInv, NoLeak, IdsExclusive
<1> QED BY <1>1, <1>2, <1>3, <1>4 DEF IInv

(* Every step keeps the invariant.                                         *)
LEMMA NextIInv == IInv /\ [Next]_vars => IInv'
BY TypeStep, RangeStep, LocalsStep, SharedStep, RolesStep, LockStep, ReturnStep, LauncherStep,
   DefaultStep, QuitStep, EraseStep, HandStep, PointerStep, LeakStep, IdsStep DEF IInv

(* The invariant holds in every state of the registry.                       *)
LEMMA Invariance == Spec => []IInv
BY InitIInv, NextIInv, PTL DEF Spec

-----------------------------------------------------------------------------
(* The registry keeps its types.                                             *)
THEOREM TypeCorrect == Spec => []TypeOK
BY Invariance, PTL DEF IInv

(* No thread computes a path on a network, or steps one, after it was        *)
(* deleted.                                                                  *)
THEOREM NetworksOutliveTheirUse == Spec => []NoUseAfterFree
<1>1. IInv => NoUseAfterFree
  <2> SUFFICES ASSUME IInv, NEW t \in Threads, pc[t] \in {"step", "path"}
               PROVE  inst[t] \notin deleted
    BY DEF NoUseAfterFree
  <2>1. PICK i \in Ids : inst[t] = m_mapNetworks[i]
    BY DEF IInv, PointerInv, IdsExclusive, Roles, Threads
  <2>2. inst[t] \in 1 .. created
    BY <2>1 DEF IInv, TypeOK
  <2> QED BY <2>1, <2>2 DEF IInv, NoLeak
<1> QED BY <1>1, Invariance, PTL

(* The networks alive are those of the map and those on their way to their   *)
(* destructor.                                                               *)
THEOREM NoNetworkLeaks == Spec => []NoLeak
BY Invariance, PTL DEF IInv

(* The id of a load denotes its network, and its alone, until its owner      *)
(* deletes it; the default id is free when a load takes it.                  *)
THEOREM IdsStayExclusive == Spec => []IdsExclusive
BY Invariance, PTL DEF IInv

=============================================================================
