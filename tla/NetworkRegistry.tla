---------------------------- MODULE NetworkRegistry ----------------------------
(***************************************************************************)
(* The registry of simulated networks, CSymubruitApp in src/src/            *)
(* Symubruit.cpp.  Loader threads load, step and delete networks; path      *)
(* threads compute paths on them through the API.  The map is protected by  *)
(* m_NetworksAccessMutex; a path computation passes from that mutex to the  *)
(* shared lock of the instance (hand over hand), which a deletion takes in  *)
(* unique mode.                                                             *)
(*                                                                          *)
(* The comment of GetNetwork makes the caller responsible for not deleting  *)
(* a network it uses: a loader deletes only the networks it loaded itself,  *)
(* one thread quits when the other loaders are idle, and the variant of     *)
(* SymRunNextStep that ends in DeleteAllNetworks is not used in parallel.    *)
(* The functions without a network id are for a single network: one loader  *)
(* at most uses the default id.                                              *)
(***************************************************************************)
EXTENDS Integers, FiniteSets

CONSTANTS Loaders, PathCallers,
          DefaultOwners,    \* the loader, if any, that uses the default network id
          FrontEnds,        \* how the process uses the API (see frontEnd)
          MaxInstances      \* bound on the networks ever created

ASSUME RegistryAssumption == /\ DefaultOwners \subseteq Loaders
                             /\ Loaders \cap PathCallers = {}
                             /\ FrontEnds \subseteq {"launcher", "parallel"}
                             /\ MaxInstances \in Nat
                             /\ \A t, u \in DefaultOwners : t = u

DEFAULT_NETWORK_ID == -1

Threads   == Loaders \cup PathCallers
Instances == 1 .. MaxInstances

VARIABLES frontEnd,          \* "parallel": clients in threads of their own; "launcher":
                             \* one call at a time, and the SymRunNextStep that ends in
                             \* DeleteAllNetworks
          m_mapNetworks,     \* id |-> instance
          registryHolder,    \* threads holding m_NetworksAccessMutex
          sharedHolders,     \* instance |-> threads holding its shared lock
          created, deleted,  \* instances constructed so far, instances destroyed
          own,               \* loader |-> ids of the networks it loaded
          pc,
          id,                \* the id a thread works with
          inst,              \* the instance pointer it holds
          returns            \* where a deletion returns to

vars == <<frontEnd, m_mapNetworks, registryHolder, sharedHolders, created, deleted, own, pc,
          id, inst, returns>>

Init == /\ frontEnd \in FrontEnds
        /\ m_mapNetworks = [i \in {} |-> 0]
        /\ registryHolder = {}
        /\ sharedHolders = [i \in Instances |-> {}]
        /\ created = 0 /\ deleted = {}
        /\ own = [t \in Loaders |-> {}]
        /\ pc = [t \in Threads |-> "idle"]
        /\ id = [t \in Threads |-> 0]
        /\ inst = [t \in Threads |-> 0]
        /\ returns = [t \in Threads |-> "idle"]

-----------------------------------------------------------------------------
Ids == DOMAIN m_mapNetworks
Goto(t, l) == pc' = [pc EXCEPT ![t] = l]
(* A call that returns leaves no local variable behind.                      *)
Return(t) == /\ Goto(t, "idle")
             /\ id' = [id EXCEPT ![t] = 0]
             /\ inst' = [inst EXCEPT ![t] = 0]
             /\ returns' = [returns EXCEPT ![t] = "idle"]
Resume(t) == \/ returns[t] = "idle" /\ Return(t)
             \/ returns[t] # "idle" /\ Goto(t, returns[t]) /\ UNCHANGED <<id, inst, returns>>
SetId(t, i) == id' = [id EXCEPT ![t] = i]
LockRegistry(t) == registryHolder = {} /\ registryHolder' = {t}
UnlockRegistry  == registryHolder' = {}
Without(i) == [j \in Ids \ {i} |-> m_mapNetworks[j]]

Network == <<frontEnd, m_mapNetworks, sharedHolders, created, deleted>>

(* GetNetworkInstance and GetNetwork: the entry of the id, if any.           *)
Found(i) == i \in Ids

NewIdSkipping ==   \* faulty variant: leaves a gap after the greatest
  IF Ids = {} THEN 1 ELSE 2 + CHOOSE i \in Ids : \A j \in Ids : j <= i

(* CreateNetwork without the default id: one more than the greatest.         *)
NewId == IF Ids = {} THEN 1 ELSE 1 + CHOOSE i \in Ids : \A j \in Ids : j <= i

-----------------------------------------------------------------------------
(* Loading.                                                                  *)
CallLoad(t) ==
  /\ t \in Loaders /\ pc[t] = "idle" /\ created < MaxInstances
  /\ Goto(t, "create") /\ SetId(t, 0)
  /\ UNCHANGED <<Network, registryHolder, own, inst, returns>>

(* CreateNetwork(true) and SymLoadState delete the default network first.    *)
CallLoadDefault(t) ==
  /\ t \in DefaultOwners /\ pc[t] = "idle" /\ created < MaxInstances
  /\ Goto(t, "delete") /\ SetId(t, DEFAULT_NETWORK_ID)
  /\ own' = [own EXCEPT ![t] = @ \ {DEFAULT_NETWORK_ID}]
  /\ returns' = [returns EXCEPT ![t] = "create"]
  /\ UNCHANGED <<Network, registryHolder, inst>>

CreateBySize(t) ==   \* faulty variant: numbers the networks by their count
  LET i == IF id[t] = DEFAULT_NETWORK_ID THEN id[t] ELSE Cardinality(Ids) + 1
  IN /\ pc[t] = "create" /\ registryHolder = {} /\ created < MaxInstances
     /\ created' = created + 1
     /\ m_mapNetworks' = [j \in Ids \cup {i} |-> IF j = i THEN created' ELSE m_mapNetworks[j]]
     /\ SetId(t, i) /\ Goto(t, "load")
     /\ UNCHANGED <<frontEnd, registryHolder, sharedHolders, deleted, own, inst, returns>>

(* The end of CreateNetwork and AddNetwork: without assertions an entry      *)
(* already there is overwritten.                                             *)
Create(t) ==
  LET i == IF id[t] = DEFAULT_NETWORK_ID THEN id[t] ELSE NewId
  IN /\ pc[t] = "create" /\ registryHolder = {} /\ created < MaxInstances
     /\ created' = created + 1
     /\ m_mapNetworks' = [j \in Ids \cup {i} |-> IF j = i THEN created' ELSE m_mapNetworks[j]]
     /\ SetId(t, i) /\ Goto(t, "load")
     /\ UNCHANGED <<frontEnd, registryHolder, sharedHolders, deleted, own, inst, returns>>

LoadOk(t) ==
  /\ pc[t] = "load" /\ Return(t)
  /\ own' = [own EXCEPT ![t] = @ \cup {id[t]}]
  /\ UNCHANGED <<Network, registryHolder>>

(* The load of SymuMaster that fails after the network was read: it returns  *)
(* 0 and leaves the network in the map.                                      *)
InitFails(t) ==
  /\ pc[t] = "load" /\ id[t] # DEFAULT_NETWORK_ID /\ Return(t)
  /\ UNCHANGED <<Network, registryHolder, own>>

LoadFails(t) ==
  /\ pc[t] = "load" /\ Goto(t, "delete")
  /\ returns' = [returns EXCEPT ![t] = "failed"]
  /\ UNCHANGED <<Network, registryHolder, own, id, inst>>

LoadFailed(t) ==
  /\ pc[t] = "failed" /\ Return(t)
  /\ own' = [own EXCEPT ![t] = @ \ {id[t]}]
  /\ UNCHANGED <<Network, registryHolder>>

-----------------------------------------------------------------------------
(* Deletion.                                                                 *)
CallDelete(t) ==
  /\ t \in Loaders /\ pc[t] = "idle"
  /\ \E i \in own[t] : /\ SetId(t, i)
                       /\ own' = [own EXCEPT ![t] = @ \ {i}]
  /\ Goto(t, "delete")
  /\ returns' = [returns EXCEPT ![t] = "idle"]
  /\ UNCHANGED <<Network, registryHolder, inst>>

DeleteFind(t) ==
  /\ pc[t] = "delete" /\ LockRegistry(t) /\ Found(id[t])
  /\ inst' = [inst EXCEPT ![t] = m_mapNetworks[id[t]]]
  /\ Goto(t, "erase")
  /\ UNCHANGED <<Network, own, id, returns>>

DeleteNothing(t) ==
  /\ pc[t] = "delete" /\ registryHolder = {} /\ ~Found(id[t])
  /\ Resume(t)
  /\ UNCHANGED <<Network, registryHolder, own>>

EraseAtOnce(t) ==   \* faulty variant: does not take the lock of the instance
  /\ pc[t] = "erase"
  /\ m_mapNetworks' = Without(id[t])
  /\ Goto(t, "free")
  /\ UNCHANGED <<frontEnd, registryHolder, sharedHolders, created, deleted, own, id, inst, returns>>

(* The instance's lock in unique mode, for the time of the erasure.          *)
Erase(t) ==
  /\ pc[t] = "erase" /\ sharedHolders[inst[t]] = {}
  /\ m_mapNetworks' = Without(id[t])
  /\ Goto(t, "free")
  /\ UNCHANGED <<frontEnd, registryHolder, sharedHolders, created, deleted, own, id, inst, returns>>

Free(t) ==
  /\ pc[t] = "free" /\ returns[t] # "quit"
  /\ deleted' = deleted \cup {inst[t]}
  /\ UnlockRegistry /\ Resume(t)
  /\ UNCHANGED <<frontEnd, m_mapNetworks, sharedHolders, created, own>>

(* DeleteAllNetworks deletes them in the order of their ids, under one lock. *)
Least(S) == CHOOSE i \in S : \A j \in S : i <= j

DeleteAllNetworks(t) ==
  /\ Ids # {} /\ LockRegistry(t)
  /\ SetId(t, Least(Ids))
  /\ inst' = [inst EXCEPT ![t] = m_mapNetworks[Least(Ids)]]
  /\ own' = [u \in Loaders |-> {}]
  /\ Goto(t, "erase")
  /\ returns' = [returns EXCEPT ![t] = "quit"]
  /\ UNCHANGED Network

CallQuit(t) ==
  /\ t \in Loaders /\ \A u \in Loaders : pc[u] = "idle"
  /\ DeleteAllNetworks(t)

(* SymRunNextStep with a buffer, on the last step of the default network.    *)
LastStepEnd(t) ==
  /\ pc[t] = "step" /\ frontEnd = "launcher"
  /\ Found(DEFAULT_NETWORK_ID) /\ inst[t] = m_mapNetworks[DEFAULT_NETWORK_ID]
  /\ DeleteAllNetworks(t)

FreeNext(t) ==
  /\ pc[t] = "free" /\ returns[t] = "quit"
  /\ deleted' = deleted \cup {inst[t]}
  /\ \/ /\ Ids # {}
        /\ SetId(t, Least(Ids))
        /\ inst' = [inst EXCEPT ![t] = m_mapNetworks[Least(Ids)]]
        /\ Goto(t, "erase") /\ UNCHANGED <<registryHolder, returns>>
     \/ /\ Ids = {} /\ Return(t) /\ UnlockRegistry
  /\ UNCHANGED <<frontEnd, m_mapNetworks, sharedHolders, created, own>>

-----------------------------------------------------------------------------
(* A simulation step: GetNetwork, then work on the network without a lock.   *)
StepBegin(t) ==
  /\ t \in Loaders /\ pc[t] = "idle" /\ registryHolder = {}
  /\ \E i \in own[t] : Found(i) /\ inst' = [inst EXCEPT ![t] = m_mapNetworks[i]]
  /\ Goto(t, "step")
  /\ UNCHANGED <<Network, registryHolder, own, id, returns>>

StepEnd(t) ==
  /\ pc[t] = "step" /\ Return(t)
  /\ UNCHANGED <<Network, registryHolder, own>>

(* A path computation: registry lock, instance, shared lock, registry unlock.*)
PathFind(t) ==
  /\ t \in PathCallers /\ pc[t] = "idle" /\ LockRegistry(t)
  /\ \E i \in Ids : inst' = [inst EXCEPT ![t] = m_mapNetworks[i]]
  /\ Goto(t, "pathLock")
  /\ UNCHANGED <<Network, own, id, returns>>

PathLock(t) ==
  /\ pc[t] = "pathLock"
  /\ sharedHolders' = [sharedHolders EXCEPT ![inst[t]] = @ \cup {t}]
  /\ UnlockRegistry /\ Goto(t, "path")
  /\ UNCHANGED <<frontEnd, m_mapNetworks, created, deleted, own, id, inst, returns>>

PathEndKeeping(t) ==   \* faulty variant: returns without releasing the shared lock
  /\ pc[t] = "path" /\ Return(t)
  /\ UNCHANGED <<Network, registryHolder, own>>

PathEnd(t) ==
  /\ pc[t] = "path" /\ Return(t)
  /\ sharedHolders' = [sharedHolders EXCEPT ![inst[t]] = @ \ {t}]
  /\ UNCHANGED <<frontEnd, m_mapNetworks, registryHolder, created, deleted, own>>

-----------------------------------------------------------------------------
MayCall(t) == \/ frontEnd = "parallel" \/ t \in PathCallers
              \/ \A u \in Loaders : pc[u] = "idle"

Call(t) == /\ MayCall(t)
           /\ \/ CallLoad(t) \/ CallLoadDefault(t) \/ CallDelete(t) \/ CallQuit(t)
              \/ StepBegin(t) \/ PathFind(t)

Continue(t) == \/ Create(t) \/ LoadOk(t) \/ InitFails(t) \/ LoadFails(t) \/ LoadFailed(t)
               \/ DeleteFind(t) \/ DeleteNothing(t) \/ Erase(t) \/ Free(t) \/ FreeNext(t)
               \/ StepEnd(t) \/ LastStepEnd(t) \/ PathLock(t) \/ PathEnd(t)

Next == \E t \in Threads : Call(t) \/ Continue(t)

(* A thread that is not waiting for a lock goes on.                          *)
Fairness == \A t \in Threads : WF_vars(Continue(t))

Spec == Init /\ [][Next]_vars /\ Fairness

-----------------------------------------------------------------------------
TypeOK == /\ frontEnd \in FrontEnds
          /\ Ids \subseteq {DEFAULT_NETWORK_ID} \cup 0 .. MaxInstances
          /\ \A i \in Ids : m_mapNetworks[i] \in 1 .. created
          /\ registryHolder \in SUBSET Threads
          /\ sharedHolders \in [Instances -> SUBSET PathCallers]
          /\ created \in 0 .. MaxInstances /\ deleted \subseteq 1 .. created
          /\ own \in [Loaders -> SUBSET ({DEFAULT_NETWORK_ID} \cup 0 .. MaxInstances)]
          /\ pc \in [Threads -> {"idle", "create", "load", "failed", "delete", "erase",
                                 "free", "step", "pathLock", "path"}]

(* "don't remove the network while a parallel shortest path computation is   *)
(* in progress on it": nobody computes paths on, or steps, a deleted network.*)
NoUseAfterFree == \A t \in Threads : pc[t] \in {"step", "path"} => inst[t] \notin deleted

(* The map holds every network that is alive, once, and no other: a network  *)
(* that left the map is on its way to its destructor.                        *)
NoLeak == /\ \A i, j \in Ids : m_mapNetworks[i] = m_mapNetworks[j] => i = j
          /\ \A k \in 1 .. created :
               (k \in {m_mapNetworks[i] : i \in Ids})
                 <=> /\ k \notin deleted
                     /\ \A t \in Threads : pc[t] = "free" => inst[t] # k

(* An id handed out by a load denotes one network for as long as its owner   *)
(* keeps it: no other loader is given the same id, and it stays in the map.  *)
(* The default id is free when it is about to be taken:                      *)
(* assert(m_mapNetworks.find(networkId) == m_mapNetworks.end()).             *)
IdsExclusive == /\ \A t, u \in Loaders : t # u => own[t] \cap own[u] = {}
                /\ \A t \in Loaders : own[t] \subseteq Ids
                /\ \A t \in Loaders : pc[t] = "create" /\ id[t] = DEFAULT_NETWORK_ID
                                         => DEFAULT_NETWORK_ID \notin Ids

(* A deletion waits for the path computations in progress and no longer: it  *)
(* holds the registry, so that new ones cannot keep it waiting.              *)
DeletionEnds == \A t \in Loaders : pc[t] = "erase" ~> pc[t] = "free"
=============================================================================
