----------------------- MODULE SymuCoreManager_proofs -----------------------
(***************************************************************************)
(* Proofs about SymuCoreManager for any set of clients, vehicle types and   *)
(* addresses, any number of reader slots and any mix of operations.         *)
(***************************************************************************)
EXTENDS SymuCoreManager, TLAPS

(* Where a thread holds the write lock.                                      *)
WriteLabels == {"initialize", "build", "built", "initialized", "update", "updated",
                "forced", "thrown"}

(* m_Lock is held by the threads that are at these places, one writer or     *)
(* several readers.                                                          *)
LockInv == /\ readers = {t \in Threads : pc[t] = "reading"}
           /\ writers = {t \in Threads : pc[t] \in WriteLabels}
           /\ writers # {} => readers = {}
           /\ \A t, u \in writers : t = u

(* The operation of a thread agrees with its place.                          *)
OpInv == \A t \in Threads :
  /\ pc[t] \in {"checkGraph", "rebuildWrite", "beginRead", "reading", "thrown"}
       => op[t] \in PathOps
  /\ pc[t] \in {"updateWrite", "update", "updated"} => op[t] = "UpdateCosts"
  /\ pc[t] \in {"forceWrite", "forced"} => op[t] = "ForbidLinks"
  /\ pc[t] \in {"initialize", "build", "built", "initialized"}
       => op[t] \in PathOps \cup {"UpdateCosts", "ForbidLinks"}

(* How many times a thread holds the recursive mutex at a place.             *)
Depth(o, l) ==
  (IF o \in {"ComputeCost", "UpdateCosts"} /\ l \notin {"idle", "invalidate", "thrown"}
   THEN 1 ELSE 0)
  + (IF o \in PathOps /\ l \in {"rebuildWrite", "initialize", "build", "built",
                               "initialized"} THEN 1 ELSE 0)
  + (IF l \in {"build", "built"} THEN 1 ELSE 0)

MutexInv == m_Mutex = [t \in Threads |-> Depth(op[t], pc[t])]

(* Once a thread has passed its test of the graph there is one, and a graph  *)
(* that is empty is being built.                                             *)
GraphInv ==
  /\ \A t \in Threads :
       pc[t] \in (WriteLabels \ {"initialize"}) \cup {"beginRead", "reading"}
         => graph.state # "none"
  /\ graph.state = "empty" => \E t \in Threads : pc[t] = "build"

(* The link costs of a type that has not moved are its own, of its last       *)
(* assignment, except while a rebuild that has computed new ones has yet to  *)
(* restore those it noted, which are.                                        *)
Settled == \A t \in Threads : /\ pc[t] # "thrown"
                              /\ pc[t] = "initialized" => saved[t] = Nothing

Own(v) == [of |-> v, at |-> assigned[v]]

CostInv ==
  /\ Settled => \A v \in Types : v \notin moved => costs[v] = Own(v)
  /\ \A v \in Types : assigned[v] <= penalties[v] /\ assigned[v] <= m_dbInstSimu
  /\ \A t \in Threads : saved[t] # Nothing =>
       /\ pc[t] \in {"initialize", "build", "built", "initialized", "thrown"}
       /\ op[t] \in PathOps
       /\ \A v \in Types : v \notin moved =>
            saved[t][m_mapSubPopulations[v]] = Own(v)

(* The inductive invariant: ReadsBuiltGraph alone is not inductive, because  *)
(* BeginRead does not test the graph; that the graph is there and complete   *)
(* follows from what the thread did before and from the lock.                *)
IInv == TypeOK /\ LockInv /\ OpInv /\ MutexInv /\ GraphInv /\ CostInv

(* The steps, thread by thread.                                            *)
LEMMA Steps ==
  ASSUME Next
  PROVE  \E t \in Threads :
    \/ CallComputePaths(t)
    \/ CallComputeCost(t)
    \/ CallUpdateCosts(t)
    \/ ForbidLinks(t)
    \/ ExcludeType(t)
    \/ Step(t)
    \/ Invalidate(t)
    \/ CheckGraphUnneeded(t)
    \/ CheckGraph(t)
    \/ RebuildBeginWrite(t)
    \/ RebuildEndWrite(t)
    \/ RebuildThrows(t)
    \/ InitializeStart(t)
    \/ Build(t)
    \/ InitializeEnd(t)
    \/ BeginRead(t)
    \/ EndRead(t)
    \/ UpdateBeginWrite(t)
    \/ Update(t)
    \/ UpdateEnd(t)
    \/ ForceBeginWrite(t)
    \/ ForceRun(t)
    \/ ForceEnd(t)
BY DEF Next, Call, Continue

(* Every step keeps the lock with the threads that hold it.                *)
LEMMA LockStep == TypeOK /\ LockInv /\ [Next]_vars => LockInv'
<1> SUFFICES ASSUME TypeOK, LockInv, [Next]_vars
             PROVE  LockInv'
  OBVIOUS
<1> USE DEF LockInv, WriteLabels, TypeOK, Labels, Goto, At, KeepLock, m_Lock!BeginRead, m_Lock!EndRead, m_Lock!BeginWrite, m_Lock!EndWrite
<1>1. ASSUME NEW t \in Threads, CallComputePaths(t) PROVE LockInv'
  BY <1>1 DEF CallComputePaths
<1>2. ASSUME NEW t \in Threads, CallComputeCost(t) PROVE LockInv'
  BY <1>2 DEF CallComputeCost
<1>3. ASSUME NEW t \in Threads, CallUpdateCosts(t) PROVE LockInv'
  BY <1>3 DEF CallUpdateCosts
<1>4. ASSUME NEW t \in Threads, ForbidLinks(t) PROVE LockInv'
  BY <1>4 DEF ForbidLinks
<1>5. ASSUME NEW t \in Threads, ExcludeType(t) PROVE LockInv'
  BY <1>5 DEF ExcludeType
<1>6. ASSUME NEW t \in Threads, Step(t) PROVE LockInv'
  BY <1>6 DEF Step
<1>7. ASSUME NEW t \in Threads, Invalidate(t) PROVE LockInv'
  BY <1>7 DEF Invalidate
<1>8. ASSUME NEW t \in Threads, CheckGraphUnneeded(t) PROVE LockInv'
  BY <1>8 DEF CheckGraphUnneeded
<1>9. ASSUME NEW t \in Threads, CheckGraph(t) PROVE LockInv'
  BY <1>9 DEF CheckGraph
<1>10. ASSUME NEW t \in Threads, RebuildBeginWrite(t) PROVE LockInv'
  BY <1>10 DEF RebuildBeginWrite
<1>11. ASSUME NEW t \in Threads, RebuildEndWrite(t) PROVE LockInv'
  BY <1>11 DEF RebuildEndWrite
<1>12. ASSUME NEW t \in Threads, RebuildThrows(t) PROVE LockInv'
  BY <1>12 DEF RebuildThrows
<1>13. ASSUME NEW t \in Threads, InitializeStart(t) PROVE LockInv'
  BY <1>13 DEF InitializeStart
<1>14. ASSUME NEW t \in Threads, Build(t) PROVE LockInv'
  BY <1>14 DEF Build
<1>15. ASSUME NEW t \in Threads, InitializeEnd(t) PROVE LockInv'
  BY <1>15 DEF InitializeEnd
<1>16. ASSUME NEW t \in Threads, BeginRead(t) PROVE LockInv'
  BY <1>16 DEF BeginRead
<1>17. ASSUME NEW t \in Threads, EndRead(t) PROVE LockInv'
  BY <1>17 DEF EndRead
<1>18. ASSUME NEW t \in Threads, UpdateBeginWrite(t) PROVE LockInv'
  BY <1>18 DEF UpdateBeginWrite
<1>19. ASSUME NEW t \in Threads, Update(t) PROVE LockInv'
  BY <1>19 DEF Update
<1>20. ASSUME NEW t \in Threads, UpdateEnd(t) PROVE LockInv'
  BY <1>20 DEF UpdateEnd
<1>21. ASSUME NEW t \in Threads, ForceBeginWrite(t) PROVE LockInv'
  BY <1>21 DEF ForceBeginWrite
<1>22. ASSUME NEW t \in Threads, ForceRun(t) PROVE LockInv'
  BY <1>22 DEF ForceRun
<1>23. ASSUME NEW t \in Threads, ForceEnd(t) PROVE LockInv'
  BY <1>23 DEF ForceEnd
<1>24. CASE UNCHANGED vars
  BY <1>24 DEF vars, net
<1> QED
  BY <1>1, <1>2, <1>3, <1>4, <1>5, <1>6, <1>7, <1>8, <1>9, <1>10, <1>11, <1>12, <1>13, <1>14, <1>15, <1>16, <1>17, <1>18, <1>19, <1>20, <1>21, <1>22, <1>23, <1>24, Steps

(* Every step keeps what the operations hold.                              *)
LEMMA OpStep == TypeOK /\ OpInv /\ [Next]_vars => OpInv'
<1> SUFFICES ASSUME TypeOK, OpInv, [Next]_vars
             PROVE  OpInv'
  OBVIOUS
<1> USE DEF OpInv, TypeOK, Labels, Goto, At, PathOps, locals
<1>1. ASSUME NEW t \in Threads, CallComputePaths(t) PROVE OpInv'
  BY <1>1 DEF CallComputePaths
<1>2. ASSUME NEW t \in Threads, CallComputeCost(t) PROVE OpInv'
  BY <1>2 DEF CallComputeCost
<1>3. ASSUME NEW t \in Threads, CallUpdateCosts(t) PROVE OpInv'
  BY <1>3 DEF CallUpdateCosts
<1>4. ASSUME NEW t \in Threads, ForbidLinks(t) PROVE OpInv'
  BY <1>4 DEF ForbidLinks
<1>5. ASSUME NEW t \in Threads, ExcludeType(t) PROVE OpInv'
  BY <1>5 DEF ExcludeType
<1>6. ASSUME NEW t \in Threads, Step(t) PROVE OpInv'
  BY <1>6 DEF Step
<1>7. ASSUME NEW t \in Threads, Invalidate(t) PROVE OpInv'
  BY <1>7 DEF Invalidate
<1>8. ASSUME NEW t \in Threads, CheckGraphUnneeded(t) PROVE OpInv'
  BY <1>8 DEF CheckGraphUnneeded
<1>9. ASSUME NEW t \in Threads, CheckGraph(t) PROVE OpInv'
  BY <1>9 DEF CheckGraph
<1>10. ASSUME NEW t \in Threads, RebuildBeginWrite(t) PROVE OpInv'
  BY <1>10 DEF RebuildBeginWrite
<1>11. ASSUME NEW t \in Threads, RebuildEndWrite(t) PROVE OpInv'
  BY <1>11 DEF RebuildEndWrite
<1>12. ASSUME NEW t \in Threads, RebuildThrows(t) PROVE OpInv'
  BY <1>12 DEF RebuildThrows
<1>13. ASSUME NEW t \in Threads, InitializeStart(t) PROVE OpInv'
  BY <1>13 DEF InitializeStart
<1>14. ASSUME NEW t \in Threads, Build(t) PROVE OpInv'
  BY <1>14 DEF Build
<1>15. ASSUME NEW t \in Threads, InitializeEnd(t) PROVE OpInv'
  BY <1>15 DEF InitializeEnd
<1>16. ASSUME NEW t \in Threads, BeginRead(t) PROVE OpInv'
  BY <1>16 DEF BeginRead
<1>17. ASSUME NEW t \in Threads, EndRead(t) PROVE OpInv'
  BY <1>17 DEF EndRead
<1>18. ASSUME NEW t \in Threads, UpdateBeginWrite(t) PROVE OpInv'
  BY <1>18 DEF UpdateBeginWrite
<1>19. ASSUME NEW t \in Threads, Update(t) PROVE OpInv'
  BY <1>19 DEF Update
<1>20. ASSUME NEW t \in Threads, UpdateEnd(t) PROVE OpInv'
  BY <1>20 DEF UpdateEnd
<1>21. ASSUME NEW t \in Threads, ForceBeginWrite(t) PROVE OpInv'
  BY <1>21 DEF ForceBeginWrite
<1>22. ASSUME NEW t \in Threads, ForceRun(t) PROVE OpInv'
  BY <1>22 DEF ForceRun
<1>23. ASSUME NEW t \in Threads, ForceEnd(t) PROVE OpInv'
  BY <1>23 DEF ForceEnd
<1>24. CASE UNCHANGED vars
  BY <1>24 DEF vars, net
<1> QED
  BY <1>1, <1>2, <1>3, <1>4, <1>5, <1>6, <1>7, <1>8, <1>9, <1>10, <1>11, <1>12, <1>13, <1>14, <1>15, <1>16, <1>17, <1>18, <1>19, <1>20, <1>21, <1>22, <1>23, <1>24, Steps

(* Every step keeps the mutex with its holder.                             *)
LEMMA MutexStep == TypeOK /\ OpInv /\ MutexInv /\ [Next]_vars => MutexInv'
<1> SUFFICES ASSUME TypeOK, OpInv, MutexInv, [Next]_vars
             PROVE  MutexInv'
  OBVIOUS
<1> USE DEF MutexInv, OpInv, Depth, TypeOK, Labels, Goto, At, PathOps, LockMutex, UnlockMutex, locals
<1>1. ASSUME NEW t \in Threads, CallComputePaths(t) PROVE MutexInv'
  BY <1>1 DEF CallComputePaths
<1>2. ASSUME NEW t \in Threads, CallComputeCost(t) PROVE MutexInv'
  BY <1>2 DEF CallComputeCost
<1>3. ASSUME NEW t \in Threads, CallUpdateCosts(t) PROVE MutexInv'
  BY <1>3 DEF CallUpdateCosts
<1>4. ASSUME NEW t \in Threads, ForbidLinks(t) PROVE MutexInv'
  BY <1>4 DEF ForbidLinks
<1>5. ASSUME NEW t \in Threads, ExcludeType(t) PROVE MutexInv'
  BY <1>5 DEF ExcludeType
<1>6. ASSUME NEW t \in Threads, Step(t) PROVE MutexInv'
  BY <1>6 DEF Step
<1>7. ASSUME NEW t \in Threads, Invalidate(t) PROVE MutexInv'
  BY <1>7 DEF Invalidate
<1>8. ASSUME NEW t \in Threads, CheckGraphUnneeded(t) PROVE MutexInv'
  BY <1>8 DEF CheckGraphUnneeded
<1>9. ASSUME NEW t \in Threads, CheckGraph(t) PROVE MutexInv'
  BY <1>9 DEF CheckGraph
<1>10. ASSUME NEW t \in Threads, RebuildBeginWrite(t) PROVE MutexInv'
  BY <1>10 DEF RebuildBeginWrite
<1>11. ASSUME NEW t \in Threads, RebuildEndWrite(t) PROVE MutexInv'
  BY <1>11 DEF RebuildEndWrite
<1>12. ASSUME NEW t \in Threads, RebuildThrows(t) PROVE MutexInv'
  BY <1>12 DEF RebuildThrows
<1>13. ASSUME NEW t \in Threads, InitializeStart(t) PROVE MutexInv'
  BY <1>13 DEF InitializeStart
<1>14. ASSUME NEW t \in Threads, Build(t) PROVE MutexInv'
  BY <1>14 DEF Build
<1>15. ASSUME NEW t \in Threads, InitializeEnd(t) PROVE MutexInv'
  BY <1>15 DEF InitializeEnd
<1>16. ASSUME NEW t \in Threads, BeginRead(t) PROVE MutexInv'
  BY <1>16 DEF BeginRead
<1>17. ASSUME NEW t \in Threads, EndRead(t) PROVE MutexInv'
  BY <1>17 DEF EndRead
<1>18. ASSUME NEW t \in Threads, UpdateBeginWrite(t) PROVE MutexInv'
  BY <1>18 DEF UpdateBeginWrite
<1>19. ASSUME NEW t \in Threads, Update(t) PROVE MutexInv'
  BY <1>19 DEF Update
<1>20. ASSUME NEW t \in Threads, UpdateEnd(t) PROVE MutexInv'
  BY <1>20 DEF UpdateEnd
<1>21. ASSUME NEW t \in Threads, ForceBeginWrite(t) PROVE MutexInv'
  BY <1>21 DEF ForceBeginWrite
<1>22. ASSUME NEW t \in Threads, ForceRun(t) PROVE MutexInv'
  BY <1>22 DEF ForceRun
<1>23. ASSUME NEW t \in Threads, ForceEnd(t) PROVE MutexInv'
  BY <1>23 DEF ForceEnd
<1>24. CASE UNCHANGED vars
  BY <1>24 DEF vars, net
<1> QED
  BY <1>1, <1>2, <1>3, <1>4, <1>5, <1>6, <1>7, <1>8, <1>9, <1>10, <1>11, <1>12, <1>13, <1>14, <1>15, <1>16, <1>17, <1>18, <1>19, <1>20, <1>21, <1>22, <1>23, <1>24, Steps

(* Every step keeps the graph as it was built.                             *)
LEMMA GraphStep == TypeOK /\ GraphInv /\ [Next]_vars => GraphInv'
<1> SUFFICES ASSUME TypeOK, GraphInv, [Next]_vars
             PROVE  GraphInv'
  OBVIOUS
<1> USE DEF GraphInv, WriteLabels, TypeOK, Labels, Graphs, Goto, At, GraphExists, NoGraph, EmptyGraph, BuiltGraph, data, dated, net
<1>1. ASSUME NEW t \in Threads, CallComputePaths(t) PROVE GraphInv'
  BY <1>1 DEF CallComputePaths
<1>2. ASSUME NEW t \in Threads, CallComputeCost(t) PROVE GraphInv'
  BY <1>2 DEF CallComputeCost
<1>3. ASSUME NEW t \in Threads, CallUpdateCosts(t) PROVE GraphInv'
  BY <1>3 DEF CallUpdateCosts
<1>4. ASSUME NEW t \in Threads, ForbidLinks(t) PROVE GraphInv'
  BY <1>4 DEF ForbidLinks
<1>5. ASSUME NEW t \in Threads, ExcludeType(t) PROVE GraphInv'
  BY <1>5 DEF ExcludeType
<1>6. ASSUME NEW t \in Threads, Step(t) PROVE GraphInv'
  BY <1>6 DEF Step
<1>7. ASSUME NEW t \in Threads, Invalidate(t) PROVE GraphInv'
  BY <1>7 DEF Invalidate
<1>8. ASSUME NEW t \in Threads, CheckGraphUnneeded(t) PROVE GraphInv'
  BY <1>8 DEF CheckGraphUnneeded
<1>9. ASSUME NEW t \in Threads, CheckGraph(t) PROVE GraphInv'
  BY <1>9 DEF CheckGraph
<1>10. ASSUME NEW t \in Threads, RebuildBeginWrite(t) PROVE GraphInv'
  BY <1>10 DEF RebuildBeginWrite
<1>11. ASSUME NEW t \in Threads, RebuildEndWrite(t) PROVE GraphInv'
  BY <1>11 DEF RebuildEndWrite
<1>12. ASSUME NEW t \in Threads, RebuildThrows(t) PROVE GraphInv'
  BY <1>12 DEF RebuildThrows
<1>13. ASSUME NEW t \in Threads, InitializeStart(t) PROVE GraphInv'
  BY <1>13 DEF InitializeStart
<1>14. ASSUME NEW t \in Threads, Build(t) PROVE GraphInv'
  BY <1>14 DEF Build
<1>15. ASSUME NEW t \in Threads, InitializeEnd(t) PROVE GraphInv'
  BY <1>15 DEF InitializeEnd
<1>16. ASSUME NEW t \in Threads, BeginRead(t) PROVE GraphInv'
  BY <1>16 DEF BeginRead
<1>17. ASSUME NEW t \in Threads, EndRead(t) PROVE GraphInv'
  BY <1>17 DEF EndRead
<1>18. ASSUME NEW t \in Threads, UpdateBeginWrite(t) PROVE GraphInv'
  BY <1>18 DEF UpdateBeginWrite
<1>19. ASSUME NEW t \in Threads, Update(t) PROVE GraphInv'
  BY <1>19 DEF Update
<1>20. ASSUME NEW t \in Threads, UpdateEnd(t) PROVE GraphInv'
  BY <1>20 DEF UpdateEnd
<1>21. ASSUME NEW t \in Threads, ForceBeginWrite(t) PROVE GraphInv'
  BY <1>21 DEF ForceBeginWrite
<1>22. ASSUME NEW t \in Threads, ForceRun(t) PROVE GraphInv'
  BY <1>22 DEF ForceRun
<1>23. ASSUME NEW t \in Threads, ForceEnd(t) PROVE GraphInv'
  BY <1>23 DEF ForceEnd
<1>24. CASE UNCHANGED vars
  BY <1>24 DEF vars
<1> QED
  BY <1>1, <1>2, <1>3, <1>4, <1>5, <1>6, <1>7, <1>8, <1>9, <1>10, <1>11, <1>12, <1>13, <1>14, <1>15, <1>16, <1>17, <1>18, <1>19, <1>20, <1>21, <1>22, <1>23, <1>24, Steps

(* The depth of the recursive mutex is bounded: at most a call, its          *)
(* CheckGraph and its Initialize.                                            *)
LEMMA DepthBound == \A o, l : Depth(o, l) \in 0..3
BY DEF Depth

(* What CheckGraph notes are costs.                                          *)
LEMMA NotedType ==
  ASSUME TypeOK
  PROVE  Noted = Nothing \/ Noted \in [DOMAIN Noted -> CostSets]
<1>1. CASE ~GraphExists
  BY <1>1 DEF Noted
<1>2. CASE GraphExists
  <2> DEFINE Owner(a) == CHOOSE v \in Types : m_mapSubPopulations[v] = a
  <2>1. \A a \in {m_mapSubPopulations[v] : v \in Types} : costs[Owner(a)] \in CostSets
    <3>1. ASSUME NEW a \in {m_mapSubPopulations[v] : v \in Types}
          PROVE  Owner(a) \in Types
      BY <3>1
    <3> QED
      BY <3>1 DEF TypeOK
  <2>2. Noted = [a \in {m_mapSubPopulations[v] : v \in Types} |-> costs[Owner(a)]]
    BY <1>2 DEF Noted
  <2> QED
    BY <2>1, <2>2
<1> QED
  BY <1>1, <1>2

(* Every step keeps the types.                                             *)
LEMMA TypeStep == TypeOK /\ OpInv /\ MutexInv' /\ [Next]_vars => TypeOK'
<1> SUFFICES ASSUME TypeOK, OpInv, MutexInv', [Next]_vars
             PROVE  TypeOK'
  OBVIOUS
<1>m. m_Mutex' \in [Threads -> 0..3]
  BY DepthBound DEF MutexInv
<1> USE DEF TypeOK, Labels, Graphs, CostSets, PathOps, Goto, At, KeepLock, data, dated, locals, net, Computed, Assigned, NoGraph, EmptyGraph, BuiltGraph, CostsAt, m_Lock!BeginRead, m_Lock!EndRead, m_Lock!BeginWrite, m_Lock!EndWrite
<1>1. ASSUME NEW t \in Threads, CallComputePaths(t) PROVE TypeOK'
  BY <1>1, <1>m DEF CallComputePaths
<1>2. ASSUME NEW t \in Threads, CallComputeCost(t) PROVE TypeOK'
  BY <1>2, <1>m DEF CallComputeCost
<1>3. ASSUME NEW t \in Threads, CallUpdateCosts(t) PROVE TypeOK'
  BY <1>3, <1>m DEF CallUpdateCosts
<1>4. ASSUME NEW t \in Threads, ForbidLinks(t) PROVE TypeOK'
  BY <1>4, <1>m DEF ForbidLinks
<1>5. ASSUME NEW t \in Threads, ExcludeType(t) PROVE TypeOK'
  BY <1>5, <1>m DEF ExcludeType
<1>6. ASSUME NEW t \in Threads, Step(t) PROVE TypeOK'
  BY <1>6, <1>m DEF Step
<1>7. ASSUME NEW t \in Threads, Invalidate(t) PROVE TypeOK'
  BY <1>7, <1>m DEF Invalidate
<1>8. ASSUME NEW t \in Threads, CheckGraphUnneeded(t) PROVE TypeOK'
  BY <1>8, <1>m DEF CheckGraphUnneeded
<1>9. ASSUME NEW t \in Threads, CheckGraph(t) PROVE TypeOK'
  BY <1>9, <1>m DEF CheckGraph
<1>10. ASSUME NEW t \in Threads, RebuildBeginWrite(t) PROVE TypeOK'
  <2>1. \A u \in Threads : saved'[u] = Nothing \/ saved'[u] \in [DOMAIN saved'[u] -> CostSets]
    <3>1. saved' = [saved EXCEPT ![t] = Noted]
      BY <1>10 DEF RebuildBeginWrite
    <3>2. ASSUME NEW u \in Threads
          PROVE  saved'[u] = Noted \/ saved'[u] = saved[u] \/ saved'[u] = Nothing
      BY <3>1, <3>2
    <3> HIDE DEF CostSets
    <3> QED
      BY <3>1, <3>2, NotedType DEF TypeOK
  <2> QED
    BY <1>10, <1>m, <2>1 DEF RebuildBeginWrite
<1>11. ASSUME NEW t \in Threads, RebuildEndWrite(t) PROVE TypeOK'
  <2>1. costs' \in [Types -> CostSets]
    <3>1. CASE saved[t] = Nothing
      BY <1>11, <3>1 DEF RebuildEndWrite
    <3>2. CASE saved[t] # Nothing
      <4>1. costs' = [v \in Types |-> saved[t][m_mapSubPopulations[v]]]
        BY <1>11, <3>2 DEF RebuildEndWrite
      <4>2. \A v \in Types : m_mapSubPopulations[v] \in DOMAIN saved[t]
        BY <1>11, <3>2 DEF RebuildEndWrite, Restorable
      <4>3. saved[t] \in [DOMAIN saved[t] -> CostSets]
        BY <3>2
      <4> HIDE DEF CostSets
      <4> QED
        BY <4>1, <4>2, <4>3
    <3> QED
      BY <3>1, <3>2
  <2>2. \A u \in Threads : saved'[u] = Nothing \/ saved'[u] = saved[u]
    BY <1>11 DEF RebuildEndWrite
  <2>3. \A u \in Threads : saved'[u] = Nothing \/ saved'[u] \in [DOMAIN saved'[u] -> CostSets]
    <3> HIDE DEF CostSets
    <3> QED
      BY <2>2
  <2> QED
    BY <1>11, <1>m, <2>1, <2>3 DEF RebuildEndWrite
<1>12. ASSUME NEW t \in Threads, RebuildThrows(t) PROVE TypeOK'
  BY <1>12, <1>m DEF RebuildThrows
<1>13. ASSUME NEW t \in Threads, InitializeStart(t) PROVE TypeOK'
  BY <1>13, <1>m DEF InitializeStart
<1>14. ASSUME NEW t \in Threads, Build(t) PROVE TypeOK'
  BY <1>14, <1>m DEF Build
<1>15. ASSUME NEW t \in Threads, InitializeEnd(t) PROVE TypeOK'
  BY <1>15, <1>m DEF InitializeEnd
<1>16. ASSUME NEW t \in Threads, BeginRead(t) PROVE TypeOK'
  BY <1>16, <1>m DEF BeginRead
<1>17. ASSUME NEW t \in Threads, EndRead(t) PROVE TypeOK'
  BY <1>17, <1>m DEF EndRead
<1>18. ASSUME NEW t \in Threads, UpdateBeginWrite(t) PROVE TypeOK'
  BY <1>18, <1>m DEF UpdateBeginWrite
<1>19. ASSUME NEW t \in Threads, Update(t) PROVE TypeOK'
  BY <1>19, <1>m DEF Update
<1>20. ASSUME NEW t \in Threads, UpdateEnd(t) PROVE TypeOK'
  BY <1>20, <1>m DEF UpdateEnd
<1>21. ASSUME NEW t \in Threads, ForceBeginWrite(t) PROVE TypeOK'
  BY <1>21, <1>m DEF ForceBeginWrite
<1>22. ASSUME NEW t \in Threads, ForceRun(t) PROVE TypeOK'
  BY <1>22, <1>m DEF ForceRun
<1>23. ASSUME NEW t \in Threads, ForceEnd(t) PROVE TypeOK'
  BY <1>23, <1>m DEF ForceEnd
<1>24. CASE UNCHANGED vars
  BY <1>24, <1>m DEF vars
<1> QED
  BY <1>1, <1>2, <1>3, <1>4, <1>5, <1>6, <1>7, <1>8, <1>9, <1>10, <1>11, <1>12, <1>13, <1>14, <1>15, <1>16, <1>17, <1>18, <1>19, <1>20, <1>21, <1>22, <1>23, <1>24, Steps

(* The costs noted under the address of a type are its own: no two types are  *)
(* at the same address.                                                      *)
LEMMA NotedOwn ==
  ASSUME TypeOK, GraphExists, NEW v \in Types
  PROVE  Noted[m_mapSubPopulations[v]] = costs[v]
<1> DEFINE Owner(a) == CHOOSE w \in Types : m_mapSubPopulations[w] = a
<1>1. Noted = [a \in {m_mapSubPopulations[w] : w \in Types} |-> costs[Owner(a)]]
  BY DEF Noted
<1>2. Owner(m_mapSubPopulations[v]) \in Types
      /\ m_mapSubPopulations[Owner(m_mapSubPopulations[v])] = m_mapSubPopulations[v]
  OBVIOUS
<1>3. Owner(m_mapSubPopulations[v]) = v
  BY <1>2 DEF TypeOK, Placements
<1> QED
  BY <1>1, <1>3

(* Only the holder of the write lock has noted costs.                        *)
LEMMA NotedByWriter ==
  ASSUME LockInv, CostInv, NEW t \in Threads, saved[t] # Nothing
  PROVE  writers = {t}
BY DEF LockInv, CostInv, WriteLabels

(* An assignment dates the costs of the listed types.                        *)
LEMMA AssignStep ==
  ASSUME TypeOK, NEW lstTypes, Computed(lstTypes), Assigned(lstTypes),
         m_dbInstSimu' = m_dbInstSimu,
         \A v \in Types : v \notin moved => costs[v] = Own(v),
         \A v \in Types : assigned[v] <= penalties[v] /\ assigned[v] <= m_dbInstSimu
  PROVE  /\ \A v \in Types : v \notin moved' => costs'[v] = Own(v)'
         /\ \A v \in Types : assigned'[v] <= penalties'[v] /\ assigned'[v] <= m_dbInstSimu'
BY DEF Computed, Assigned, CostsAt, Own, TypeOK

(* Every step keeps the costs with the assignment they date from.            *)
LEMMA CostStep == TypeOK /\ LockInv /\ OpInv /\ CostInv /\ [Next]_vars => CostInv'
<1> SUFFICES ASSUME TypeOK, LockInv, OpInv, CostInv, [Next]_vars
             PROVE  CostInv'
  OBVIOUS
<1> USE DEF CostInv, Settled, Own, OpInv, LockInv, WriteLabels, TypeOK, Labels, PathOps, CostSets, CostsAt, Goto, At, data, dated, locals, net, m_Lock!BeginRead, m_Lock!EndRead, m_Lock!BeginWrite, m_Lock!EndWrite
<1>1. ASSUME NEW t \in Threads, CallComputePaths(t) PROVE CostInv'
  BY <1>1 DEF CallComputePaths
<1>2. ASSUME NEW t \in Threads, CallComputeCost(t) PROVE CostInv'
  BY <1>2 DEF CallComputeCost
<1>3. ASSUME NEW t \in Threads, CallUpdateCosts(t) PROVE CostInv'
  BY <1>3 DEF CallUpdateCosts
<1>4. ASSUME NEW t \in Threads, ForbidLinks(t) PROVE CostInv'
  BY <1>4 DEF ForbidLinks
<1>5. ASSUME NEW t \in Threads, ExcludeType(t) PROVE CostInv'
  BY <1>5 DEF ExcludeType
<1>6. ASSUME NEW t \in Threads, Step(t) PROVE CostInv'
  BY <1>6 DEF Step
<1>7. ASSUME NEW t \in Threads, Invalidate(t) PROVE CostInv'
  BY <1>7 DEF Invalidate
<1>8. ASSUME NEW t \in Threads, CheckGraphUnneeded(t) PROVE CostInv'
  BY <1>8 DEF CheckGraphUnneeded
<1>9. ASSUME NEW t \in Threads, CheckGraph(t) PROVE CostInv'
  BY <1>9 DEF CheckGraph
<1>10. ASSUME NEW t \in Threads, RebuildBeginWrite(t) PROVE CostInv'
  <2>1. /\ writers = {} /\ \A u \in Threads : saved[u] = Nothing
        /\ \A u \in Threads : pc[u] \notin WriteLabels
    BY <1>10, NotedByWriter DEF RebuildBeginWrite
  <2>2. \A v \in Types : v \notin moved => costs[v] = Own(v)
    BY <2>1 DEF CostInv, Settled
  <2>3. /\ saved' = [saved EXCEPT ![t] = Noted] /\ pc' = [pc EXCEPT ![t] = "initialize"]
        /\ op' = op /\ costs' = costs /\ assigned' = assigned /\ moved' = moved
        /\ penalties' = penalties /\ m_dbInstSimu' = m_dbInstSimu
        /\ m_mapSubPopulations' = m_mapSubPopulations /\ op[t] \in PathOps
    BY <1>10 DEF RebuildBeginWrite
  <2>4. ASSUME NEW u \in Threads, saved'[u] # Nothing
        PROVE  /\ u = t
               /\ \A v \in Types : v \notin moved' =>
                    saved'[u][m_mapSubPopulations'[v]] = Own(v)'
    <3>1. u = t /\ saved'[u] = Noted
      BY <2>1, <2>3, <2>4
    <3>2. GraphExists
      BY <3>1, <2>4 DEF Noted
    <3> QED
      BY <3>1, <3>2, <2>2, <2>3, NotedOwn
  <2> QED
    BY <2>2, <2>3, <2>4
<1>11. ASSUME NEW t \in Threads, RebuildEndWrite(t) PROVE CostInv'
  <2>1. writers = {t} /\ \A u \in Threads \ {t} : saved[u] = Nothing
    BY <1>11, NotedByWriter DEF RebuildEndWrite
  <2>2. /\ saved' = [saved EXCEPT ![t] = Nothing] /\ pc' = [pc EXCEPT ![t] = "beginRead"]
        /\ op' = op /\ assigned' = assigned /\ moved' = moved
        /\ penalties' = penalties /\ m_dbInstSimu' = m_dbInstSimu
        /\ m_mapSubPopulations' = m_mapSubPopulations /\ pc[t] = "initialized"
    BY <1>11 DEF RebuildEndWrite
  <2>3. \A u \in Threads : saved'[u] = Nothing
    BY <2>1, <2>2
  <2>4. CASE saved[t] = Nothing
    <3>1. ASSUME NEW u \in Threads
          PROVE  pc[u] # "thrown" /\ (pc[u] = "initialized" => saved[u] = Nothing)
      <4>1. CASE u = t
        BY <2>2, <2>4, <4>1
      <4>2. CASE u # t
        BY <2>1, <4>2 DEF LockInv, WriteLabels
      <4> QED
        BY <4>1, <4>2
    <3> QED
      BY <1>11, <2>2, <2>3, <2>4, <3>1 DEF RebuildEndWrite
  <2>5. CASE saved[t] # Nothing
    <3>1. costs' = [v \in Types |-> saved[t][m_mapSubPopulations[v]]]
      BY <1>11, <2>5 DEF RebuildEndWrite
    <3>2. \A v \in Types : v \notin moved => saved[t][m_mapSubPopulations[v]] = Own(v)
      BY <2>5
    <3>3. \A v \in Types : v \notin moved' => costs'[v] = Own(v)'
      BY <2>2, <3>1, <3>2
    <3> QED
      BY <2>2, <2>3, <3>3
  <2> QED
    BY <2>4, <2>5
<1>12. ASSUME NEW t \in Threads, RebuildThrows(t) PROVE CostInv'
  BY <1>12 DEF RebuildThrows
<1>13. ASSUME NEW t \in Threads, InitializeStart(t) PROVE CostInv'
  BY <1>13 DEF InitializeStart
<1>14. ASSUME NEW t \in Threads, Build(t) PROVE CostInv'
  <2>1. \A v \in Types : v \notin moved' => /\ v \notin moved
                                          /\ m_mapSubPopulations'[v] = m_mapSubPopulations[v]
    BY <1>14 DEF Build
  <2>2. /\ costs' = costs /\ penalties' = penalties /\ assigned' = assigned
        /\ saved' = saved /\ op' = op /\ m_dbInstSimu' = m_dbInstSimu
        /\ pc[t] = "build" /\ pc' = [pc EXCEPT ![t] = "built"]
    BY <1>14 DEF Build
  <2>3. Settled' => Settled
    BY <2>2
  <2> QED
    BY <2>1, <2>2, <2>3
<1>15. ASSUME NEW t \in Threads, InitializeEnd(t) PROVE CostInv'
  <2>1. /\ \A v \in Types : costs'[v] = [of |-> v, at |-> m_dbInstSimu]
        /\ \A v \in Types : penalties'[v] = m_dbInstSimu
        /\ saved' = saved /\ op' = op /\ m_dbInstSimu' = m_dbInstSimu
        /\ m_mapSubPopulations' = m_mapSubPopulations
        /\ pc[t] = "built" /\ pc' = [pc EXCEPT ![t] = "initialized"]
    BY <1>15 DEF InitializeEnd, Computed
  <2>2. CASE saved[t] = Nothing
    <3>1. \A v \in Types : assigned'[v] = m_dbInstSimu
      BY <1>15, <2>2 DEF InitializeEnd, Assigned
    <3>2. \A u \in Threads : saved[u] = Nothing
      BY <2>1, <2>2, NotedByWriter
    <3> QED
      BY <2>1, <3>1, <3>2
  <2>3. CASE saved[t] # Nothing
    <3>1. assigned' = assigned /\ moved' = moved
      BY <1>15, <2>3 DEF InitializeEnd
    <3>2. ~Settled'
      BY <2>1, <2>3
    <3> QED
      BY <2>1, <3>1, <3>2
  <2> QED
    BY <2>2, <2>3
<1>16. ASSUME NEW t \in Threads, BeginRead(t) PROVE CostInv'
  BY <1>16 DEF BeginRead
<1>17. ASSUME NEW t \in Threads, EndRead(t) PROVE CostInv'
  BY <1>17 DEF EndRead
<1>18. ASSUME NEW t \in Threads, UpdateBeginWrite(t) PROVE CostInv'
  BY <1>18 DEF UpdateBeginWrite
<1>19. ASSUME NEW t \in Threads, Update(t) PROVE CostInv'
  <2>1. PICK lstTypes \in TypeLists : Computed(lstTypes) /\ Assigned(lstTypes)
    BY <1>19 DEF Update
  <2>2. /\ pc[t] \in {"update", "initialized"} /\ op[t] = "UpdateCosts"
        /\ pc' = [pc EXCEPT ![t] = "updated"] /\ saved' = saved /\ op' = op
        /\ m_dbInstSimu' = m_dbInstSimu
    BY <1>19 DEF Update
  <2>3. \A u \in Threads : saved[u] = Nothing
    BY <2>2, NotedByWriter
  <2>4. Settled
    BY <2>2, <2>3
  <2> QED
    BY <2>1, <2>2, <2>3, <2>4, AssignStep
<1>20. ASSUME NEW t \in Threads, UpdateEnd(t) PROVE CostInv'
  BY <1>20 DEF UpdateEnd
<1>21. ASSUME NEW t \in Threads, ForceBeginWrite(t) PROVE CostInv'
  BY <1>21 DEF ForceBeginWrite
<1>22. ASSUME NEW t \in Threads, ForceRun(t) PROVE CostInv'
  <2>1. /\ pc[t] = "initialized" /\ op[t] = "ForbidLinks"
        /\ pc' = [pc EXCEPT ![t] = "forced"] /\ saved' = saved /\ op' = op
        /\ m_mapSubPopulations' = m_mapSubPopulations /\ m_dbInstSimu' = m_dbInstSimu
    BY <1>22 DEF ForceRun
  <2>2. \A u \in Threads : saved[u] = Nothing
    BY <2>1, NotedByWriter
  <2>3. Settled
    BY <2>1, <2>2
  <2>4. CASE UNCHANGED dated
    BY <2>1, <2>2, <2>3, <2>4
  <2>5. CASE Computed(Types) /\ Assigned(Types)
    BY <2>1, <2>2, <2>3, <2>5, AssignStep
  <2> QED
    BY <1>22, <2>4, <2>5 DEF ForceRun
<1>23. ASSUME NEW t \in Threads, ForceEnd(t) PROVE CostInv'
  BY <1>23 DEF ForceEnd
<1>24. CASE UNCHANGED vars
  BY <1>24 DEF vars
<1> QED
  BY <1>1, <1>2, <1>3, <1>4, <1>5, <1>6, <1>7, <1>8, <1>9, <1>10, <1>11, <1>12, <1>13, <1>14, <1>15, <1>16, <1>17, <1>18, <1>19, <1>20, <1>21, <1>22, <1>23, <1>24, Steps

(* The invariant holds at first.                                           *)
LEMMA InitInv == Init => IInv
<1> SUFFICES ASSUME Init PROVE IInv
  OBVIOUS
<1> USE DEF Init, m_Lock!Init, NoGraph
<1>1. TypeOK
  BY DEF TypeOK, Labels, Graphs, CostSets, CostsAt
<1>2. LockInv /\ OpInv /\ GraphInv
  BY DEF LockInv, OpInv, GraphInv, WriteLabels
<1>3. MutexInv
  BY DEF MutexInv, Depth
<1>4. CostInv
  BY DEF CostInv, Settled, Own, CostsAt
<1> QED
  BY <1>1, <1>2, <1>3, <1>4 DEF IInv

(* Every step keeps the invariant.                                         *)
LEMMA StepInv == IInv /\ [Next]_vars => IInv'
BY LockStep, OpStep, MutexStep, GraphStep, TypeStep, CostStep DEF IInv

(* The invariant holds in every run.                                       *)
LEMMA Inv == Spec => []IInv
BY InitInv, StepInv, PTL DEF Spec

(* The values of the state, and the depth of the recursive mutex.            *)
THEOREM TypeCorrect == Spec => []TypeOK
<1>1. IInv => TypeOK
  BY DEF IInv
<1> QED
  BY <1>1, Inv, PTL

(* A reader has passed its test of the graph and keeps its builders out.       *)
LEMMA GraphBuilt == IInv => ReadsBuiltGraph
<1> SUFFICES ASSUME IInv, readers # {} PROVE graph.state = "built"
  BY DEF ReadsBuiltGraph
<1>1. PICK t \in Threads : pc[t] = "reading"
  BY DEF IInv, LockInv
<1>2. graph.state # "none"
  BY <1>1 DEF IInv, GraphInv, WriteLabels
<1>3. graph.state # "empty"
  BY DEF IInv, GraphInv, LockInv, WriteLabels
<1> QED
  BY <1>2, <1>3 DEF IInv, TypeOK, Graphs

(* No computation works on a missing or half-built graph, however many       *)
(* clients there are.                                                        *)
THEOREM ComputationsSeeAGraph == Spec => []ReadsBuiltGraph
BY GraphBuilt, Inv, PTL

(* Outside a write section the link costs of a type that has not moved since  *)
(* its last assignment are its own of that assignment, and its penalties are *)
(* not older, however many vehicle types there are, whichever the            *)
(* assignments list and wherever the allocator puts them.                    *)
THEOREM CostsDated == Spec => []CostsDateFromAssignment
<1>1. IInv => CostsDateFromAssignment
  BY DEF IInv, CostInv, Settled, Own, LockInv, WriteLabels, TypeOK, CostsDateFromAssignment
<1> QED
  BY <1>1, Inv, PTL

(* The holder of the write lock shuts every reader out.                      *)
LEMMA NoReaders ==
  ASSUME IInv, NEW t \in Threads, pc[t] \in WriteLabels
  PROVE  readers = {}
BY DEF IInv, LockInv

(* Nobody replaces the graph or rewrites the costs while paths are computed. *)
THEOREM StableDuringSearch == Spec => StableWhileRead
<1>1. IInv /\ [Next]_vars => [readers # {} => UNCHANGED <<graph, costs, penalties>>]_vars
  <2> SUFFICES ASSUME IInv, Next, readers # {}
               PROVE  UNCHANGED <<graph, costs, penalties>>
    OBVIOUS
  <2>1. \A t \in Threads : pc[t] \notin WriteLabels
    BY NoReaders
  <2> QED
    BY <2>1, Steps DEF WriteLabels, At, data, dated, net, CallComputePaths, CallComputeCost,
       CallUpdateCosts, ForbidLinks, ExcludeType, Step, Invalidate, CheckGraphUnneeded,
       CheckGraph, RebuildBeginWrite, RebuildEndWrite, RebuildThrows, InitializeStart,
       Build, InitializeEnd, BeginRead, EndRead, UpdateBeginWrite, Update, UpdateEnd,
       ForceBeginWrite, ForceRun, ForceEnd
<1> QED
  BY <1>1, Inv, PTL DEF Spec, StableWhileRead

(* Every change of the network is announced to a rebuild: either nobody but   *)
(* the simulation thread computes paths, or the network changes through      *)
(* ForbidLinks and AllowLinks only, which rebuild under the write lock, and  *)
(* never through the Invalidate of a change of the allowed movements.        *)
Announced == Clients = {} \/ "ExcludeType" \notin FlowOps

(* What was notified, and what the graph holds, never runs ahead of the      *)
(* network.  A rebuild by the simulation thread is up to date, nobody else   *)
(* changes the network; a graph that lacks a notified change is marked       *)
(* invalid, and the only thread has yet to come to the test of that mark.    *)
FreshInv ==
  /\ notified <= network /\ graph.network <= network
  /\ \A t \in Threads : asked[t] <= notified
  /\ \A t \in Threads : op[t] \in {"ForbidLinks", "ExcludeType"} => t = Flow
  /\ \A t \in Threads : pc[t] = "invalidate" => t = Flow /\ Clients = {}
  /\ pc[Flow] \in {"built", "initialized", "forced"}
       /\ (op[Flow] = "ForbidLinks" \/ Clients = {}) => graph.network = network
  /\ graph.state = "built" /\ graph.network < notified =>
       /\ Clients = {} /\ m_bInvalid
       /\ pc[Flow] \notin {"built", "initialized", "forced", "beginRead", "reading"}

(* Only the simulation thread changes the network.                           *)
LEMMA Changers ==
  ASSUME Announced, Next
  PROVE  \E t \in Threads :
    \/ ForbidLinks(t) /\ t = Flow
    \/ ExcludeType(t) /\ t = Flow /\ Clients = {}
    \/ CallComputePaths(t)
    \/ CallComputeCost(t)
    \/ CallUpdateCosts(t)
    \/ Step(t)
    \/ Invalidate(t)
    \/ CheckGraphUnneeded(t)
    \/ CheckGraph(t)
    \/ RebuildBeginWrite(t)
    \/ RebuildEndWrite(t)
    \/ RebuildThrows(t)
    \/ InitializeStart(t)
    \/ Build(t)
    \/ InitializeEnd(t)
    \/ BeginRead(t)
    \/ EndRead(t)
    \/ UpdateBeginWrite(t)
    \/ Update(t)
    \/ UpdateEnd(t)
    \/ ForceBeginWrite(t)
    \/ ForceRun(t)
    \/ ForceEnd(t)
BY OpsAssumption DEF Announced, Next, Call, Continue, Threads, PathOps

(* Every step keeps the graph as fresh as the changes announced.           *)
LEMMA FreshStep == Announced /\ IInv /\ FreshInv /\ [Next]_vars => FreshInv'
<1> SUFFICES ASSUME Announced, IInv, FreshInv, [Next]_vars
             PROVE  FreshInv'
  OBVIOUS
<1>t. TypeOK /\ LockInv /\ OpInv /\ Flow \in Threads
  BY DEF IInv, Threads
<1>o. Clients = {} => Threads = {Flow}
  BY DEF Threads
<1> USE <1>t, <1>o DEF FreshInv, TypeOK, Labels, Graphs, Goto, At, GraphExists, NoGraph, EmptyGraph, BuiltGraph, data, dated, net, locals
<1>1. ASSUME NEW t \in Threads, CallComputePaths(t) PROVE FreshInv'
  BY <1>1 DEF CallComputePaths
<1>2. ASSUME NEW t \in Threads, CallComputeCost(t) PROVE FreshInv'
  BY <1>2 DEF CallComputeCost
<1>3. ASSUME NEW t \in Threads, CallUpdateCosts(t) PROVE FreshInv'
  BY <1>3 DEF CallUpdateCosts
<1>4. ASSUME NEW t \in Threads, ForbidLinks(t), t = Flow PROVE FreshInv'
  BY <1>4 DEF ForbidLinks
<1>5. ASSUME NEW t \in Threads, ExcludeType(t), t = Flow, Clients = {} PROVE FreshInv'
  BY <1>5 DEF ExcludeType
<1>6. ASSUME NEW t \in Threads, Step(t) PROVE FreshInv'
  BY <1>6 DEF Step
<1>7. ASSUME NEW t \in Threads, Invalidate(t) PROVE FreshInv'
  BY <1>7 DEF Invalidate
<1>8. ASSUME NEW t \in Threads, CheckGraphUnneeded(t) PROVE FreshInv'
  BY <1>8 DEF CheckGraphUnneeded, OpInv, PathOps
<1>9. ASSUME NEW t \in Threads, CheckGraph(t) PROVE FreshInv'
  BY <1>9 DEF CheckGraph
<1>10. ASSUME NEW t \in Threads, RebuildBeginWrite(t) PROVE FreshInv'
  BY <1>10 DEF RebuildBeginWrite, LockInv, WriteLabels, OpInv, PathOps
<1>11. ASSUME NEW t \in Threads, RebuildEndWrite(t) PROVE FreshInv'
  BY <1>11 DEF RebuildEndWrite, LockInv, WriteLabels, OpInv, PathOps
<1>12. ASSUME NEW t \in Threads, RebuildThrows(t) PROVE FreshInv'
  BY <1>12 DEF RebuildThrows
<1>13. ASSUME NEW t \in Threads, InitializeStart(t) PROVE FreshInv'
  BY <1>13 DEF InitializeStart, LockInv, WriteLabels, OpInv, PathOps
<1>14. ASSUME NEW t \in Threads, Build(t) PROVE FreshInv'
  BY <1>14 DEF Build, LockInv, WriteLabels, OpInv, PathOps
<1>15. ASSUME NEW t \in Threads, InitializeEnd(t) PROVE FreshInv'
  BY <1>15 DEF InitializeEnd, LockInv, WriteLabels, OpInv, PathOps
<1>16. ASSUME NEW t \in Threads, BeginRead(t) PROVE FreshInv'
  BY <1>16 DEF BeginRead, OpInv, PathOps
<1>17. ASSUME NEW t \in Threads, EndRead(t) PROVE FreshInv'
  BY <1>17 DEF EndRead
<1>18. ASSUME NEW t \in Threads, UpdateBeginWrite(t) PROVE FreshInv'
  BY <1>18 DEF UpdateBeginWrite
<1>19. ASSUME NEW t \in Threads, Update(t) PROVE FreshInv'
  BY <1>19 DEF Update
<1>20. ASSUME NEW t \in Threads, UpdateEnd(t) PROVE FreshInv'
  BY <1>20 DEF UpdateEnd, LockInv, WriteLabels, OpInv, PathOps
<1>21. ASSUME NEW t \in Threads, ForceBeginWrite(t) PROVE FreshInv'
  BY <1>21 DEF ForceBeginWrite
<1>22. ASSUME NEW t \in Threads, ForceRun(t) PROVE FreshInv'
  BY <1>22 DEF ForceRun, LockInv, WriteLabels, OpInv, PathOps
<1>23. ASSUME NEW t \in Threads, ForceEnd(t) PROVE FreshInv'
  BY <1>23 DEF ForceEnd, LockInv, WriteLabels, OpInv, PathOps
<1>24. CASE UNCHANGED vars
  BY <1>24 DEF vars
<1> QED
  BY <1>1, <1>2, <1>3, <1>4, <1>5, <1>6, <1>7, <1>8, <1>9, <1>10, <1>11, <1>12, <1>13, <1>14, <1>15, <1>16, <1>17, <1>18, <1>19, <1>20, <1>21, <1>22, <1>23, <1>24, Changers

(* When every change of the network is announced, a path is computed on a    *)
(* graph that contains every change the manager was told of before the       *)
(* computation was asked for, however many threads compute paths.  What is   *)
(* left out, Invalidate during a rebuild on behalf of another thread, really *)
(* loses a change: m_bInvalid is cleared at the end of Initialize.           *)
THEOREM ComputationsSeeChanges ==
  ASSUME Announced
  PROVE  Spec => []FreshGraph
<1>1. Init => FreshInv
  BY DEF Init, FreshInv, NoGraph, Threads
<1>2. IInv /\ FreshInv /\ [Next]_vars => FreshInv'
  BY FreshStep
<1>3. IInv /\ FreshInv => FreshGraph
  <2> SUFFICES ASSUME IInv, FreshInv, NEW t \in readers
               PROVE  graph.network >= asked[t]
    BY DEF FreshGraph
  <2>1. t \in Threads /\ pc[t] = "reading" /\ readers # {}
    BY DEF IInv, LockInv
  <2>2. graph.state = "built"
    BY <2>1, GraphBuilt DEF ReadsBuiltGraph
  <2>3. ~(graph.network < notified)
    BY <2>1, <2>2 DEF FreshInv, Threads
  <2> QED
    BY <2>1, <2>3 DEF IInv, FreshInv, TypeOK, Graphs
<1> QED
  BY <1>1, <1>2, <1>3, Inv, PTL DEF Spec

=============================================================================
