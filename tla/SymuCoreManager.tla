---------------------------- MODULE SymuCoreManager ----------------------------
(***************************************************************************)
(* The owner of the path graph, src/src/SymuCoreManager.cpp: a recursive    *)
(* mutex (m_Mutex), a reader/writer lock (m_Lock, seen through its abstract *)
(* specification SharedLock), the graph with its link costs, and the flag   *)
(* m_bInvalid that asks for a rebuild before the next path computation.     *)
(*                                                                          *)
(* The flow thread runs the simulation: it refreshes the costs, changes the *)
(* network and computes paths.  Client threads compute paths and path costs *)
(* in parallel through the API.  One action is one stretch of code between  *)
(* two lock operations; the data is abstracted to versions: which state of  *)
(* the network the graph was built from, and the instant of its costs.      *)
(***************************************************************************)
EXTENDS Naturals, FiniteSets

CONSTANTS Flow,             \* the simulation thread
          Clients,          \* threads that call the path API
          FlowOps,          \* what the simulation thread does in this instance
          ClientOps,        \* what the clients do in this instance
          Types,            \* vehicle types
          Addresses,        \* where the allocator places sub-populations
          m_nbMaxReaders,   \* reader slots of m_Lock
          MaxNetwork,       \* bound on the changes made to the network
          MaxInstant        \* bound on the simulated time

Threads == {Flow} \cup Clients
ReaderGroups == {S \in SUBSET Threads : Cardinality(S) <= m_nbMaxReaders}

PathOps == {"ComputePaths", "ComputeCost"}

ASSUME OpsAssumption ==
  /\ Flow \notin Clients
  /\ ClientOps \subseteq PathOps
  /\ FlowOps \subseteq PathOps \cup {"UpdateCosts", "ForbidLinks", "ExcludeType", "Step"}

VARIABLES readers, writers,   \* m_Lock
          m_Mutex,            \* how many times each thread holds the recursive mutex
          network,            \* number of changes made to the network
          notified,           \* history: those the manager has been told of
          m_bInvalid,
          graph,              \* m_pGraph: none, empty (being built) or built
          m_mapSubPopulations,\* the address of each vehicle type's sub-population
          costs,              \* link costs of each type: whose they are, and when
          penalties,          \* instant of the costs of each type's movements
          assigned,           \* history: instant of each type's last assignment
          moved,              \* history: types whose sub-population has changed
                              \* address at a rebuild since their last assignment
          m_dbInstSimu,
          op, pc,             \* what each thread executes, and where it is
          saved,              \* local "costs" of CheckGraph: address |-> costs
          asked               \* history: changes notified before the thread's call

vars == <<readers, writers, m_Mutex, network, notified, m_bInvalid, graph,
          m_mapSubPopulations, costs, penalties, assigned, moved, m_dbInstSimu,
          op, pc, saved, asked>>
net    == <<network, notified, m_dbInstSimu>>
dated  == <<costs, penalties, assigned, moved>>
data   == <<net, m_bInvalid, graph, m_mapSubPopulations, dated>>
locals == <<op, saved, asked>>

m_Lock == INSTANCE SharedLock

NoGraph       == [state |-> "none", network |-> 0]
EmptyGraph    == [state |-> "empty", network |-> 0]
BuiltGraph(n) == [state |-> "built", network |-> n]
GraphExists   == graph.state # "none"

(* The costs computed at an instant: those of each type are its own.         *)
CostsAt(i)  == [v \in Types |-> [of |-> v, at |-> i]]
Nothing     == [a \in {} |-> 0]

(* The objects that live at a time have different addresses; a freed address  *)
(* may be given again, to any of them.                                       *)
Placements == {p \in [Types -> Addresses] : \A v, w \in Types : p[v] = p[w] => v = w}

(* The constructor leaves m_bInvalid uninitialised: either value.            *)
Init == /\ m_Lock!Init
        /\ m_Mutex = [t \in Threads |-> 0]
        /\ network = 0 /\ notified = 0
        /\ m_bInvalid \in BOOLEAN
        /\ graph = NoGraph
        /\ m_mapSubPopulations \in Placements
        /\ costs = CostsAt(0) /\ penalties = [v \in Types |-> 0]
        /\ assigned = [v \in Types |-> 0] /\ moved = {} /\ m_dbInstSimu = 0
        /\ op = [t \in Threads |-> "none"]
        /\ pc = [t \in Threads |-> "idle"]
        /\ saved = [t \in Threads |-> Nothing]
        /\ asked = [t \in Threads |-> 0]

-----------------------------------------------------------------------------
Goto(t, l) == pc' = [pc EXCEPT ![t] = l]
At(t, l)   == pc[t] = l

(* m_Mutex is recursive: its holder may take it again.                       *)
Available(t) == \A u \in Threads \ {t} : m_Mutex[u] = 0
LockMutex(t) == Available(t) /\ m_Mutex' = [m_Mutex EXCEPT ![t] = @ + 1]
UnlockMutex(t) == m_Mutex' = [m_Mutex EXCEPT ![t] = @ - 1]

KeepLock == UNCHANGED <<readers, writers>>

-----------------------------------------------------------------------------
(* Calls.                                                                    *)

(* ComputePaths and ComputePathsPublicTransport start with CheckGraph.       *)
CallComputePaths(t) ==
  /\ At(t, "idle") /\ Goto(t, "checkGraph")
  /\ op' = [op EXCEPT ![t] = "ComputePaths"]
  /\ asked' = [asked EXCEPT ![t] = notified]
  /\ UNCHANGED <<readers, writers, m_Mutex, data, saved>>

(* ComputeCost holds m_Mutex from its first line to its last.                *)
CallComputeCost(t) ==
  /\ At(t, "idle") /\ LockMutex(t) /\ Goto(t, "checkGraph")
  /\ op' = [op EXCEPT ![t] = "ComputeCost"]
  /\ asked' = [asked EXCEPT ![t] = notified]
  /\ UNCHANGED <<readers, writers, data, saved>>

CallUpdateCosts(t) ==
  /\ At(t, "idle") /\ LockMutex(t) /\ Goto(t, "updateWrite")
  /\ op' = [op EXCEPT ![t] = "UpdateCosts"]
  /\ UNCHANGED <<readers, writers, data, saved, asked>>

(* Reseau::ForbidLinks and AllowLinks change the links, then call            *)
(* ForceGraphRefresh.                                                        *)
ForbidLinks(t) ==
  /\ At(t, "idle") /\ network < MaxNetwork
  /\ network' = network + 1
  /\ op' = [op EXCEPT ![t] = "ForbidLinks"]
  /\ Goto(t, "forceWrite")
  /\ UNCHANGED <<readers, writers, m_Mutex, notified, m_bInvalid, graph,
                 m_mapSubPopulations, dated, m_dbInstSimu, saved, asked>>

(* MouvementsSortie::AddTypeExclu and RemoveTypeExclu change the allowed     *)
(* movements, then call Invalidate.                                          *)
ExcludeType(t) ==
  /\ At(t, "idle") /\ network < MaxNetwork
  /\ network' = network + 1
  /\ op' = [op EXCEPT ![t] = "ExcludeType"]
  /\ Goto(t, "invalidate")
  /\ UNCHANGED <<readers, writers, m_Mutex, notified, m_bInvalid, graph,
                 m_mapSubPopulations, dated, m_dbInstSimu, saved, asked>>

(* Invalidate takes no lock.                                                 *)
Invalidate(t) ==
  /\ At(t, "invalidate") /\ Goto(t, "idle")
  /\ m_bInvalid' = TRUE /\ notified' = network
  /\ KeepLock /\ UNCHANGED <<m_Mutex, network, graph, m_mapSubPopulations, dated,
                             m_dbInstSimu, locals>>

(* A time step of the simulation.                                            *)
Step(t) ==
  /\ At(t, "idle") /\ m_dbInstSimu < MaxInstant
  /\ m_dbInstSimu' = m_dbInstSimu + 1
  /\ KeepLock /\ UNCHANGED <<m_Mutex, network, notified, m_bInvalid, graph,
                             m_mapSubPopulations, dated, locals, pc>>

-----------------------------------------------------------------------------
(* CheckGraph: rebuild under the write lock when there is no graph yet or    *)
(* the network has changed since it was built.                               *)
CheckGraphExistsOnly(t) ==   \* faulty variant: ignores m_bInvalid
  /\ At(t, "checkGraph") /\ Available(t)
  /\ GraphExists
  /\ Goto(t, "beginRead")
  /\ KeepLock /\ UNCHANGED <<m_Mutex, data, locals>>

CheckGraphUnneeded(t) ==
  /\ At(t, "checkGraph") /\ Available(t)
  /\ GraphExists /\ ~m_bInvalid
  /\ Goto(t, "beginRead")
  /\ KeepLock /\ UNCHANGED <<m_Mutex, data, locals>>

CheckGraph(t) ==
  /\ At(t, "checkGraph") /\ LockMutex(t)
  /\ GraphExists => m_bInvalid
  /\ Goto(t, "rebuildWrite")
  /\ KeepLock /\ UNCHANGED <<data, locals>>

(* The link costs of a graph that is about to be replaced (the patterns of   *)
(* m_MapTuyauxToPatterns, every driving link has one) are noted, under the   *)
(* addresses of the sub-populations; the penalties of the movements are not. *)
Noted == IF ~GraphExists THEN Nothing
         ELSE [a \in {m_mapSubPopulations[v] : v \in Types} |->
                 costs[CHOOSE v \in Types : m_mapSubPopulations[v] = a]]

RebuildUnlocked(t) ==   \* faulty variant: does not wait for the readers
  /\ At(t, "rebuildWrite") /\ writers = {} /\ writers' = {t} /\ Goto(t, "initialize")
  /\ saved' = [saved EXCEPT ![t] = Noted]
  /\ UNCHANGED <<readers, m_Mutex, data, op, asked>>

RebuildBeginWrite(t) ==
  /\ At(t, "rebuildWrite") /\ m_Lock!BeginWrite(t) /\ Goto(t, "initialize")
  /\ saved' = [saved EXCEPT ![t] = Noted]
  /\ UNCHANGED <<m_Mutex, data, op, asked>>

(* Faulty variant: the costs of the old graph are forgotten.                 *)
RebuildEndWriteForgetting(t) ==
  /\ At(t, "initialized") /\ op[t] \in PathOps
  /\ m_Lock!EndWrite(t) /\ UnlockMutex(t) /\ Goto(t, "beginRead")
  /\ saved' = [saved EXCEPT ![t] = Nothing]
  /\ UNCHANGED <<data, op, asked>>

(* ... and given back to the new one, looked up under the addresses of the   *)
(* new sub-populations; the penalties stay as Initialize computed them.      *)
Restorable(t) == \A v \in Types : m_mapSubPopulations[v] \in DOMAIN saved[t]

RebuildEndWrite(t) ==
  /\ At(t, "initialized") /\ op[t] \in PathOps
  /\ \/ saved[t] = Nothing /\ UNCHANGED costs
     \/ /\ saved[t] # Nothing /\ Restorable(t)
        /\ costs' = [v \in Types |-> saved[t][m_mapSubPopulations[v]]]
  /\ m_Lock!EndWrite(t) /\ UnlockMutex(t) /\ Goto(t, "beginRead")
  /\ saved' = [saved EXCEPT ![t] = Nothing]
  /\ UNCHANGED <<net, m_bInvalid, graph, m_mapSubPopulations, penalties, assigned,
                 moved, op, asked>>

(* std::map::at throws out_of_range, which nobody catches: the thread's holds *)
(* on m_Mutex end with their scopes, the write section stays open.           *)
RebuildThrows(t) ==
  /\ At(t, "initialized") /\ op[t] \in PathOps
  /\ saved[t] # Nothing /\ ~Restorable(t)
  /\ m_Mutex' = [m_Mutex EXCEPT ![t] = 0]
  /\ Goto(t, "thrown")
  /\ KeepLock /\ UNCHANGED <<data, locals>>

-----------------------------------------------------------------------------
(* Initialize: drop the old graph, build one from the network as it is,      *)
(* compute its costs, clear m_bInvalid.  The network may change meanwhile.   *)
InitializeStart(t) ==
  /\ At(t, "initialize") /\ LockMutex(t) /\ Goto(t, "build")
  /\ graph' = EmptyGraph
  /\ KeepLock /\ UNCHANGED <<net, m_bInvalid, m_mapSubPopulations, dated, locals>>

(* The graph, then new sub-populations after the old ones were freed.        *)
Build(t) ==
  /\ At(t, "build") /\ Goto(t, "built")
  /\ graph' = BuiltGraph(network)
  /\ m_mapSubPopulations' \in Placements
  /\ moved' = moved \cup {v \in Types : m_mapSubPopulations'[v] # m_mapSubPopulations[v]}
  /\ KeepLock /\ UNCHANGED <<m_Mutex, net, m_bInvalid, costs, penalties, assigned,
                             locals>>

(* UpdateCosts computes the link costs and the penalties of the listed types; *)
(* the public transport, which it always refreshes, is left out.             *)
Computed(listed) ==
  /\ costs' = [v \in Types |-> IF v \in listed THEN CostsAt(m_dbInstSimu)[v] ELSE costs[v]]
  /\ penalties' = [v \in Types |-> IF v \in listed THEN m_dbInstSimu ELSE penalties[v]]

(* The instants of the types whose costs an assignment asks for.             *)
Assigned(listed) ==
  /\ assigned' = [v \in Types |-> IF v \in listed THEN m_dbInstSimu ELSE assigned[v]]
  /\ moved' = moved \ listed

(* The recursive UpdateCosts, for every type.  It is an assignment of costs  *)
(* unless a CheckGraph that noted the link costs is going to restore them.   *)
InitializeEnd(t) ==
  /\ At(t, "built") /\ Goto(t, "initialized")
  /\ Computed(Types)
  /\ IF saved[t] = Nothing THEN Assigned(Types) ELSE UNCHANGED <<assigned, moved>>
  /\ m_bInvalid' = FALSE
  /\ UnlockMutex(t)
  /\ KeepLock /\ UNCHANGED <<net, graph, m_mapSubPopulations, locals>>

-----------------------------------------------------------------------------
(* The read section of a path or cost computation.                           *)
BeginRead(t) ==
  /\ At(t, "beginRead") /\ m_Lock!BeginRead(t) /\ Goto(t, "reading")
  /\ UNCHANGED <<m_Mutex, data, locals>>

EndRead(t) ==
  /\ At(t, "reading") /\ m_Lock!EndRead(t) /\ Goto(t, "idle")
  /\ IF op[t] = "ComputeCost" THEN UnlockMutex(t) ELSE UNCHANGED m_Mutex
  /\ UNCHANGED <<data, locals>>

-----------------------------------------------------------------------------
(* UpdateCosts, called by the assignment (Affectation::Run): for one type     *)
(* when a single origin and destination is treated (event 'A'), otherwise    *)
(* for all of them.                                                          *)
TypeLists == {Types} \cup {{v} : v \in Types}

UpdateUnlocked(t) ==   \* faulty variant: does not wait for the readers
  /\ At(t, "updateWrite") /\ writers = {} /\ writers' = {t}
  /\ Goto(t, IF GraphExists THEN "update" ELSE "initialize")
  /\ UNCHANGED <<readers, m_Mutex, data, locals>>

UpdateBeginWrite(t) ==
  /\ At(t, "updateWrite") /\ m_Lock!BeginWrite(t)
  /\ Goto(t, IF GraphExists THEN "update" ELSE "initialize")
  /\ UNCHANGED <<m_Mutex, data, locals>>

Update(t) ==
  /\ At(t, "update") \/ (At(t, "initialized") /\ op[t] = "UpdateCosts")
  /\ \E lstTypes \in TypeLists : Computed(lstTypes) /\ Assigned(lstTypes)
  /\ Goto(t, "updated")
  /\ KeepLock /\ UNCHANGED <<m_Mutex, net, m_bInvalid, graph, m_mapSubPopulations,
                             locals>>

UpdateEndKeepingMutex(t) ==   \* faulty variant: returns with the mutex held
  /\ At(t, "updated") /\ m_Lock!EndWrite(t) /\ Goto(t, "idle")
  /\ UNCHANGED <<m_Mutex, data, locals>>

UpdateEnd(t) ==
  /\ At(t, "updated") /\ m_Lock!EndWrite(t) /\ UnlockMutex(t) /\ Goto(t, "idle")
  /\ UNCHANGED <<data, locals>>

-----------------------------------------------------------------------------
(* ForceGraphRefresh: takes the write lock first and the mutex, inside       *)
(* Initialize and the assignment it runs, second.                            *)
ForceBeginWrite(t) ==
  /\ At(t, "forceWrite") /\ m_Lock!BeginWrite(t) /\ Goto(t, "initialize")
  /\ UNCHANGED <<m_Mutex, data, locals>>

(* Affectation::Run(..., true): nothing inside an assignment period,         *)
(* otherwise the recursive UpdateCosts and path computations, which take     *)
(* the mutex and leave m_Lock alone.                                         *)
ForceRun(t) ==
  /\ At(t, "initialized") /\ op[t] = "ForbidLinks" /\ Goto(t, "forced")
  /\ \/ UNCHANGED dated
     \/ Available(t) /\ Computed(Types) /\ Assigned(Types)
  /\ KeepLock /\ UNCHANGED <<m_Mutex, net, m_bInvalid, graph, m_mapSubPopulations,
                             locals>>

ForceEnd(t) ==
  /\ At(t, "forced") /\ m_Lock!EndWrite(t) /\ Goto(t, "idle")
  /\ notified' = network
  /\ UNCHANGED <<m_Mutex, network, m_bInvalid, graph, m_mapSubPopulations, dated,
                 m_dbInstSimu, locals>>

-----------------------------------------------------------------------------
Call(t) ==
  LET ops == IF t = Flow THEN FlowOps ELSE ClientOps
  IN \/ "ComputePaths" \in ops /\ CallComputePaths(t)
     \/ "ComputeCost" \in ops /\ CallComputeCost(t)
     \/ "UpdateCosts" \in ops /\ CallUpdateCosts(t)
     \/ "ForbidLinks" \in ops /\ ForbidLinks(t)
     \/ "ExcludeType" \in ops /\ ExcludeType(t)
     \/ "Step" \in ops /\ Step(t)

Continue(t) ==
  \/ Invalidate(t)
  \/ CheckGraphUnneeded(t) \/ CheckGraph(t)
  \/ RebuildBeginWrite(t) \/ RebuildEndWrite(t) \/ RebuildThrows(t)
  \/ InitializeStart(t) \/ Build(t) \/ InitializeEnd(t)
  \/ BeginRead(t) \/ EndRead(t)
  \/ UpdateBeginWrite(t) \/ Update(t) \/ UpdateEnd(t)
  \/ ForceBeginWrite(t) \/ ForceRun(t) \/ ForceEnd(t)

Next == \E t \in Threads : Call(t) \/ Continue(t)

Spec == Init /\ [][Next]_vars

-----------------------------------------------------------------------------
Labels == {"idle", "invalidate", "checkGraph", "rebuildWrite", "initialize", "build",
           "built", "initialized", "beginRead", "reading", "updateWrite", "update",
           "updated", "forceWrite", "forced", "thrown"}
CostSets == [of : Types, at : Nat]
Graphs == [state : {"none", "empty", "built"}, network : Nat]

TypeOK ==
  /\ readers \subseteq Threads /\ writers \subseteq Threads
  /\ m_Mutex \in [Threads -> 0..3]
  /\ network \in Nat /\ notified \in Nat
  /\ m_mapSubPopulations \in Placements
  /\ costs \in [Types -> CostSets] /\ penalties \in [Types -> Nat]
  /\ assigned \in [Types -> Nat] /\ moved \subseteq Types /\ m_dbInstSimu \in Nat
  /\ m_bInvalid \in BOOLEAN
  /\ graph \in Graphs
  /\ op \in [Threads -> PathOps \cup {"none", "UpdateCosts", "ForbidLinks", "ExcludeType"}]
  /\ pc \in [Threads -> Labels]
  /\ DOMAIN saved = Threads
  /\ \A t \in Threads : saved[t] = Nothing \/ saved[t] \in [DOMAIN saved[t] -> CostSets]
  /\ asked \in [Threads -> Nat]

(* A computation never works on a missing graph nor on one that is being     *)
(* built, although CheckGraph has released the mutex before BeginRead.       *)
ReadsBuiltGraph == readers # {} => graph.state = "built"

(* While a path is being computed no thread replaces the graph nor rewrites  *)
(* the costs under it.                                                       *)
StableWhileRead == [][readers # {} => UNCHANGED <<graph, costs, penalties>>]_vars

(* "On recalcul le nouveau graphe en conservant les couts actuels des         *)
(* différents liens": outside a write section, and whatever rebuilds          *)
(* CheckGraph made, the link costs of a type are its own and were computed at *)
(* the last assignment that listed it, unless its sub-population has moved    *)
(* since (it may then have got those of another type); the penalties added to *)
(* them are never older.                                                     *)
CostsDateFromAssignment ==
  writers = {} => \A v \in Types :
                    /\ v \notin moved => costs[v] = [of |-> v, at |-> assigned[v]]
                    /\ penalties[v] >= assigned[v]

(* A path is computed on a graph that contains every change of the network   *)
(* the manager was told of (Invalidate, ForceGraphRefresh) before the        *)
(* computation was asked for: what CheckGraph is there for.                  *)
FreshGraph == \A t \in readers : graph.network >= asked[t]

(* No reachable state is stuck: from each, some thread can go on.            *)
NoDeadlock == ENABLED Next
=============================================================================
