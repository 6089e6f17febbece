----------------------------- MODULE MesoNetwork -----------------------------
(***************************************************************************)
(* The event-driven mesoscopic simulation of src/src/reseau.cpp             *)
(* (SimuTrafic, SimuTraficMeso) with the nodes of MesoNode.cpp, the links   *)
(* of TuyauMeso.cpp and the entries of usage/SymuViaTripNode.cpp.           *)
(*                                                                          *)
(* A call of SimuTrafic advances the clock by a time step or handles the    *)
(* earliest node event.  An event lets one vehicle through a node: supply   *)
(* times postponed earlier are computed (section I), the vehicle passes     *)
(* (Ibis and II), the nodes touched get their next event (III).             *)
(*                                                                          *)
(* Links have one lane, vehicles one type, instants are integers.  The key  *)
(* NULL of a node's maps is the node itself.  Links of MicroLinks are       *)
(* microscopic: what their vehicles leave of room is not modelled, a vehicle *)
(* that enters one has left this model.                                     *)
(***************************************************************************)
EXTENDS Integers, Sequences, SequencesExt, FiniteSetsExt

CONSTANTS Nodes, Links, MicroLinks,
          Up, Down,            \* end nodes of a link; links are ordered numbers
          Routes,              \* itineraries: sequences of links
          TravelTime,          \* length / speed of a link
          Wave,                \* length / |W| of a link
          Storage,             \* length * Kx of a link
          Headway,             \* 1 / Qx
          ExitHeadway,         \* 1 / capacity of an exit
          TimeStep, Duration,
          LastCreation,        \* bound on the instants vehicles are created at
          Demands              \* bound on their itineraries, in order of creation

MesoLinks  == Links \ MicroLinks
InLinks(n)  == {l \in Links : Down[l] = n}
OutLinks(n) == {l \in Links : Up[l] = n}
Entries == {n \in Nodes : InLinks(n) = {}}
Exits   == {n \in Nodes : OutLinks(n) = {}}

\* The fundamental diagram: Qx = W Vx Kx / (W + Vx).
ASSUME NetworkAssumption ==
  /\ IsFiniteSet(Links) /\ Links \subseteq Nat /\ MicroLinks \subseteq Links
  /\ Nodes # {} /\ Nodes \cap Links = {}
  /\ \A l \in Links : Up[l] \in Nodes /\ Down[l] \in Nodes
  /\ \A l \in MesoLinks :
        /\ Storage[l] \in Nat \ {0} /\ TravelTime[l] \in Nat /\ Wave[l] \in Nat
        /\ Storage[l] * Headway = TravelTime[l] + Wave[l]
  /\ Routes \subseteq Seq(Links)
  /\ \A r \in Routes : /\ Len(r) > 0 /\ Up[r[1]] \in Entries /\ r[1] \in MesoLinks
                       /\ \A i \in 1 .. Len(r) - 1 : Down[r[i]] = Up[r[i + 1]]

ASSUME ClockAssumption ==
  /\ Headway \in Nat /\ ExitHeadway \in Nat
  /\ TimeStep \in Nat \ {0} /\ Duration \in Nat

Never   == 1000000     \* DBL_MAX
AnyTime == -1          \* -DBL_MAX
Nobody  == [time |-> Never, veh |-> 0]

VARIABLES stage,       \* where SimuTrafic is
          inst,        \* m_dbInstSimu
          now,         \* m_dbInstSimuMeso
          node,        \* m_pCurrentProcessedNode
          todo,        \* m_nodeToUpdate
          event, via,  \* m_dNextEventTime, m_pNextEventTuyauEntry of the nodes
          arrivals,    \* m_arrivals of a link, or of NULL at an entry
          nextArrival, \* m_nextArrival
          supply,      \* m_dSupplyTime of a link, m_dNextSupplyTime[NULL]
          entered,     \* m_downstreamPassingTimes, with who passed
          left,        \* m_upstreamPassingTimes, with who passed
          on,          \* m_currentVehicules
          waiting,     \* m_mapVehEnAttente
          route,       \* the itinerary of each vehicle created
          gone         \* vehicles that left the mesoscopic network

links == <<supply, entered, left, on>>
vars  == <<stage, inst, now, node, todo, event, via, arrivals, nextArrival, links,
           waiting, route, gone>>

Vehicles == DOMAIN route
Keys     == Links \cup Nodes

Init == /\ stage = "call" /\ inst = 0 /\ now = Never
        /\ node = (CHOOSE n \in Nodes : TRUE) /\ todo = <<>>
        /\ event = [n \in Nodes |-> Never] /\ via = [n \in Nodes |-> n]
        /\ arrivals = [k \in Keys |-> {}] /\ nextArrival = [k \in Keys |-> Nobody]
        /\ supply = [k \in Keys |-> AnyTime]
        /\ entered = [l \in Links |-> <<>>] /\ left = [k \in Keys |-> <<>>]
        /\ on = [l \in MesoLinks |-> {}]
        /\ waiting = [l \in MesoLinks |-> <<>>]
        /\ route = <<>> /\ gone = {}

-----------------------------------------------------------------------------
(* Lists of arrivals are kept sorted by time, then by vehicle number.        *)
Before(a, b) == a.time < b.time \/ (a.time = b.time /\ a.veh < b.veh)
FrontOf(A) == CHOOSE a \in A : \A b \in A \ {a} : Before(a, b)
\* Of an empty list only the missing vehicle is read.
MinArrival(A) == IF A = {} THEN Nobody ELSE FrontOf(A)
LastTime(A)   == Max({-1} \cup {a.time : a \in A})
Later(a, b) == Max({a, b})

\* CTuyauMeso::AddArrival, CMesoNode::AddArrival with bEnsureIsLastArrival.
AddLast(A, t, v) == A \cup {[time |-> Later(t, LastTime(A)), veh |-> v]}

\* Vehicule::CalculNextTuyau: the exit node stands for NULL after the last link.
NextLink(v, u) ==
  IF u \in Nodes THEN route[v][1]
  ELSE LET i == CHOOSE i \in DOMAIN route[v] : route[v][i] = u
       IN  IF i = Len(route[v]) THEN Down[u] ELSE route[v][i + 1]

Rank(l) == Len(entered[l])                 \* GetRankNextOutgoingVehicule
IsCongested(l) == on[l] # {} /\ Cardinality(on[l]) - Storage[l] > 1

-----------------------------------------------------------------------------
(* SimuTrafic: the earliest node, and the choice between a time step and an  *)
(* event.  When every node is blocked the postponed supply times are         *)
(* computed once more before the choice.                                     *)
NextEvent == Min({event[n] : n \in Nodes})

\* The first node only matters when its event is handled.
Dispatch ==
  /\ now' = NextEvent
  /\ IF inst + TimeStep <= now' THEN stage' = "step" /\ node' = node
     ELSE stage' = "supplies" /\ node' \in {n \in Nodes : event[n] = now'}

Call == /\ stage = "call" /\ inst < Duration
        /\ IF NextEvent = Never
           THEN stage' = "supplies" /\ now' = Never /\ node' = node
           ELSE Dispatch
        /\ UNCHANGED <<inst, todo, event, via, arrivals, nextArrival, links,
                       waiting, route, gone>>

Decide == /\ stage = "decide" /\ Dispatch
          /\ UNCHANGED <<inst, todo, event, via, arrivals, nextArrival, links,
                         waiting, route, gone>>

Step == /\ stage = "step"
        /\ inst' = inst + TimeStep
        /\ stage' = "create"
        /\ UNCHANGED <<now, node, todo, event, via, arrivals, nextArrival, links,
                       waiting, route, gone>>

\* A vehicle is created at the origin of its itinerary and queues there.
CreateVehicle(r) ==
  LET e == Up[r[1]]
      v == Len(route) + 1
  IN  /\ stage = "create" /\ inst <= LastCreation /\ Append(route, r) \in Demands
      /\ IF event[e] > inst /\ waiting[r[1]] = <<>> /\ supply[r[1]] # Never
         THEN /\ event' = [event EXCEPT ![e] = inst]
              /\ via' = [via EXCEPT ![e] = e]
              /\ nextArrival' = [nextArrival EXCEPT ![e] = [time |-> inst, veh |-> v]]
         ELSE UNCHANGED <<event, via, nextArrival>>
      /\ arrivals' = [arrivals EXCEPT ![e] = AddLast(@, inst, v)]
      /\ waiting' = [waiting EXCEPT ![r[1]] = Append(@, v)]
      /\ route' = Append(route, r)
      /\ UNCHANGED <<stage, inst, now, node, todo, links, gone>>

EndStep == /\ stage = "create" /\ stage' = "call"
           /\ UNCHANGED <<inst, now, node, todo, event, via, arrivals, nextArrival,
                          links, waiting, route, gone>>

-----------------------------------------------------------------------------
(* I - supply times that could not be computed before.                       *)

\* When the vehicle Storage places ahead has freed the end of the link.
PlaceAhead(l, rank) ==   \* faulty variant: one place too far ahead
  LET ref == rank - Storage[l] - 1
  IN  IF ref <= 1 THEN AnyTime
      ELSE IF ref >= Len(left[l]) THEN Never
      ELSE left[l][ref].time + Wave[l]
DownstreamTime(l, rank) ==
  LET ref == rank - Storage[l]
  IN  IF ref <= 1 THEN AnyTime
      ELSE IF ref >= Len(left[l]) THEN Never
      ELSE left[l][ref].time + Wave[l]

PostponedSupply(l) ==
  IF arrivals[l] = {} THEN AnyTime
  ELSE Later(entered[l][Rank(l)].time + Headway, DownstreamTime(l, Rank(l)))

\* The room a microscopic link offers: none yet, some, or an empty lane.
MicroSupplies ==
  {Never, AnyTime, Later(inst - TimeStep, IF now = Never THEN AnyTime ELSE now)}

Blocked == {l \in Links : supply[l] = Never}

\* The nodes those links leave are updated with the node of the event.
ResupplyUnqueued == <<>>   \* faulty variant: none
Resupplied == LET blocked == SetToSeq(Blocked)
              IN  [i \in DOMAIN blocked |-> Up[blocked[i]]]

\* A link whose supply just became known gives its entry an arrival again.
Reawakens(e) ==
  /\ e \in Entries /\ nextArrival[e] = Nobody
  /\ \E l \in Blocked \ MicroLinks :
        /\ Up[l] = e /\ arrivals[l] # {}
        /\ DownstreamTime(l, Rank(l)) \notin {AnyTime, Never}

Supplies ==
  /\ stage = "supplies"
  /\ \E micro \in [Blocked \cap MicroLinks -> MicroSupplies] :
        supply' = [l \in DOMAIN supply |->
                     IF l \notin Blocked THEN supply[l]
                     ELSE IF l \in MicroLinks THEN micro[l] ELSE PostponedSupply(l)]
  /\ nextArrival' = [k \in Keys |-> IF Reawakens(k) THEN MinArrival(arrivals[k])
                                    ELSE nextArrival[k]]
  /\ todo' = Resupplied
  /\ stage' = IF now # Never /\ nextArrival'[via[node]].veh # 0
              THEN "passage" ELSE "nodes"
  /\ UNCHANGED <<inst, now, node, event, via, arrivals, entered, left, on, waiting,
                 route, gone>>

-----------------------------------------------------------------------------
(* Ibis, II - the vehicle of the event passes the node.                      *)

\* SymuViaTripNode::InsertionVehEnAttenteMeso.
CanInsert(v, l) == waiting[l] # <<>> /\ waiting[l][1] = v /\ ~IsCongested(l)

\* The vehicles behind the one that passes may not follow it at once.
Delayed(A) == {[a EXCEPT !.time = Later(@, now + Headway)] : a \in A}

\* The supply time of a link once a vehicle passed, or failed to enter.
SupplyByStorage(l, rank) ==   \* faulty variant: ignores the capacity of the link
  Later(now, IF left[l] = <<>> THEN AnyTime ELSE DownstreamTime(l, rank))
NextSupplyTime(l, rank) ==
  Later(now + Headway, IF left[l] = <<>> THEN AnyTime ELSE DownstreamTime(l, rank))

\* A vehicle that is not inserted returns to the arrivals of its entry.
ForgottenArrivals(u, rest) == rest   \* faulty variant: it does not
RestoredArrivals(u, rest) == rest \cup {nextArrival[u]}

\* The nodes a vehicle that enters d concerns.
UpstreamNodeOnly(d) == <<node>>   \* faulty variant: forgets the node ahead
NodesAround(d) == <<node, Down[d]>>

\* What the vehicle does to the link or exit d it goes to.
EnterMeso(v, d, u, inserted, rest) ==
  LET arrived == AddLast(arrivals[d], now + TravelTime[d], v)
  IN  IF inserted
      THEN /\ entered' = [entered EXCEPT ![d] = Append(@, [time |-> now, veh |-> v])]
           /\ supply' = [supply EXCEPT ![d] = NextSupplyTime(d, Rank(d) + 1)]
           /\ arrivals' = [arrivals EXCEPT ![u] = rest, ![d] = arrived]
           /\ nextArrival' = [nextArrival EXCEPT ![u] = MinArrival(rest),
                                                 ![d] = MinArrival(arrived)]
           /\ todo' = todo \o NodesAround(d)
           /\ UNCHANGED gone
      ELSE /\ supply' = [supply EXCEPT ![d] = NextSupplyTime(d, Rank(d))]
           /\ arrivals' = [arrivals EXCEPT ![u] = RestoredArrivals(u, rest)]
           /\ nextArrival' = [nextArrival EXCEPT ![u] = MinArrival(rest)]
           /\ todo' = Append(todo, node)
           /\ UNCHANGED <<entered, gone>>

Leave(v, d, u, rest, supplies) ==
  /\ \E s \in supplies : supply' = [supply EXCEPT ![d] = s]
  /\ gone' = gone \cup {v}
  /\ arrivals' = [arrivals EXCEPT ![u] = rest]
  /\ nextArrival' = [nextArrival EXCEPT ![u] = MinArrival(rest)]
  /\ todo' = Append(todo, node)
  /\ UNCHANGED entered

Passage ==
  /\ stage = "passage"
  /\ LET u == via[node]
         v == nextArrival[u].veh
         d == NextLink(v, u)
         rest == Delayed(arrivals[u] \ {nextArrival[u]})
         inserted == u \in Entries => CanInsert(v, d)
     IN  /\ on' = [l \in MesoLinks |-> IF l = u THEN on[l] \ {v}
                                       ELSE IF l = d /\ inserted THEN on[l] \cup {v}
                                       ELSE on[l]]
         /\ left' = [left EXCEPT ![u] = Append(@, [time |-> now, veh |-> v])]
         /\ waiting' = IF u \in Entries /\ inserted
                       THEN [waiting EXCEPT ![d] = Tail(@)] ELSE waiting
         /\ \/ d \in MesoLinks /\ EnterMeso(v, d, u, inserted, rest)
            \/ d \in MicroLinks /\ Leave(v, d, u, rest, {Later(s, supply[d]) :
                                           s \in {Never, AnyTime, now + Headway}})
            \/ d \in Nodes /\ Leave(v, d, u, rest, {now + ExitHeadway})
  /\ stage' = "nodes"
  /\ UNCHANGED <<inst, now, node, event, via, route>>

-----------------------------------------------------------------------------
(* III - the next event of a node.                                           *)

Outgoing(n) == IF OutLinks(n) = {} THEN {n} ELSE OutLinks(n)
Incoming(n) == IF InLinks(n) = {} THEN {n} ELSE InLinks(n)

\* Incoming links whose first vehicle goes to o, and those where it waits for o.
Candidates(n, o) ==
  {u \in Incoming(n) : /\ arrivals[u] # {}
                       /\ NextLink(FrontOf(arrivals[u]).veh, u) \in {o, n}}
Congested(n, o) ==
  {u \in Candidates(n, o) : FrontOf(arrivals[u]).time <= supply[o]}

Arrival(u) == FrontOf(arrivals[u]).time

LocalEventTime(n, o) ==
  IF Congested(n, o) # {} THEN supply[o]
  ELSE Min({Never} \cup {Arrival(u) : u \in Candidates(n, o)})

\* A congested node lets any link go first, a free one the earliest arrival.
Selected(n, o) ==
  IF Congested(n, o) # {} THEN Congested(n, o)
  ELSE {u \in Candidates(n, o) : \A w \in Candidates(n, o) \ {u} :
          Arrival(u) < Arrival(w) \/ (Arrival(u) = Arrival(w) /\ u < w)}

\* The outgoing link with the earliest event, the first of equals.
EventLinks(n) ==
  {o \in Outgoing(n) :
     /\ LocalEventTime(n, o) < Never
     /\ \A p \in Outgoing(n) \ {o} :
          \/ LocalEventTime(n, o) < LocalEventTime(n, p)
          \/ LocalEventTime(n, o) = LocalEventTime(n, p) /\ o < p}

\* An event is never in the past.
EventTime(n, o) == Later(LocalEventTime(n, o), now)

ScheduleWithoutArrival(n, o, u) ==   \* faulty variant: keeps the arrival's time
  LET b == [FrontOf(arrivals[u]) EXCEPT !.time = EventTime(n, o)]
  IN  /\ event' = [event EXCEPT ![n] = b.time]
      /\ via' = [via EXCEPT ![n] = u]
      /\ nextArrival' = [nextArrival EXCEPT ![u] = b]
      /\ UNCHANGED arrivals

\* The event and the arrival it concerns get the same time.
ScheduleNode(n, o, u) ==
  LET a == FrontOf(arrivals[u])
      b == [a EXCEPT !.time = EventTime(n, o)]
  IN  /\ event' = [event EXCEPT ![n] = b.time]
      /\ via' = [via EXCEPT ![n] = u]
      /\ arrivals' = [arrivals EXCEPT ![u] = (@ \ {a}) \cup {b}]
      /\ nextArrival' = [nextArrival EXCEPT ![u] = b]

IdleNode(n) ==
  /\ event' = [event EXCEPT ![n] = Never]
  /\ via' = [via EXCEPT ![n] = n]
  /\ nextArrival' = [nextArrival EXCEPT ![n] = Nobody]
  /\ UNCHANGED arrivals

UpdateNode ==
  /\ stage = "nodes" /\ todo # <<>>
  /\ LET n == Head(todo)
     IN  IF EventLinks(n) = {} THEN IdleNode(n)
         ELSE \E o \in EventLinks(n) : \E u \in Selected(n, o) : ScheduleNode(n, o, u)
  /\ todo' = Tail(todo)
  /\ UNCHANGED <<stage, inst, now, node, links, waiting, route, gone>>

NodesUpdated ==
  /\ stage = "nodes" /\ todo = <<>>
  /\ stage' = IF now = Never THEN "decide" ELSE "call"
  /\ UNCHANGED <<inst, now, node, todo, event, via, arrivals, nextArrival, links,
                 waiting, route, gone>>

Next == \/ Call \/ Decide \/ Step \/ EndStep
        \/ \E r \in Routes : CreateVehicle(r)
        \/ Supplies \/ Passage \/ UpdateNode \/ NodesUpdated

Spec == Init /\ [][Next]_vars /\ WF_vars(Next)

-----------------------------------------------------------------------------
(* Properties.                                                               *)

Arrivals(k) == {a.veh : a \in arrivals[k]}

(* Types.                                                                    *)
TypeOK ==
  /\ stage \in {"call", "decide", "step", "create", "supplies", "passage", "nodes"}
  /\ inst \in Nat /\ now \in Nat /\ node \in Nodes /\ todo \in Seq(Nodes)
  /\ event \in [Nodes -> Nat] /\ via \in [Nodes -> Keys]
  /\ \A n \in Nodes : via[n] \in Incoming(n) \cup {n}
  /\ arrivals \in [Keys -> SUBSET [time : Nat, veh : Vehicles]]
  /\ \A k \in Keys : IsFiniteSet(arrivals[k])
  /\ nextArrival \in [Keys -> [time : Nat, veh : Vehicles \cup {0}]]
  /\ supply \in [Keys -> Nat \cup {AnyTime}]
  /\ entered \in [Links -> Seq([time : Nat, veh : Vehicles])]
  /\ left \in [Keys -> Seq([time : Nat, veh : Vehicles])]
  /\ on \in [MesoLinks -> SUBSET Vehicles] /\ waiting \in [MesoLinks -> Seq(Vehicles)]
  /\ route \in Seq(Routes) /\ gone \subseteq Vehicles

\* A vehicle created is at exactly one place until it has left, and the three
\* records of its place agree: the arrivals of the node ahead of it, the
\* vehicles on the link, the queue of its origin.
OnePlace ==
  /\ \A v \in Vehicles :
        Cardinality({k \in Keys : v \in Arrivals(k)}) = IF v \in gone THEN 0 ELSE 1
  /\ \A l \in MesoLinks : on[l] = Arrivals(l)
  /\ \A e \in Entries :
        Arrivals(e) = UNION {ToSet(waiting[l]) : l \in OutLinks(e) \cap MesoLinks}
  /\ \A k \in Keys : Cardinality(Arrivals(k)) = Cardinality(arrivals[k])

\* The vehicle of the next event of a node is in the list it is taken from
\* (the assertion of SimuTraficMeso), with the time of the event.
EventHasArrival ==
  stage = "call" =>
    \A n \in Nodes : event[n] # Never =>
       /\ nextArrival[via[n]] \in arrivals[via[n]]
       /\ nextArrival[via[n]].time = event[n]

\* A node whose first vehicle may go on has an event: only a supply time that
\* is not known yet keeps it idle.
NoNodeForgotten ==
  stage = "call" =>
    \A n \in Nodes : \A u \in Incoming(n) :
       arrivals[u] # {} =>
         \/ event[n] # Never
         \/ supply[NextLink(FrontOf(arrivals[u]).veh, u)] = Never

\* Vehicles enter a link inside the network at least a headway apart.
HeadwayKept ==
  \A l \in MesoLinks : Up[l] \notin Entries =>
    \A i \in 2 .. Rank(l) : entered[l][i].time >= entered[l][i - 1].time + Headway

\* A link from an entry never holds more than two vehicles above its storage.
\* Inside the network the storage is not looked at until a first vehicle has
\* left: a link that holds more than one vehicle above it had taken as many by
\* then, and no later order of the events overfills a link.
FirstQueue(l, count) ==
  left[l] = <<>> \/ \A i \in 1 .. count : entered[l][i].time <= left[l][1].time
StorageKept ==
  \A l \in MesoLinks :
    IF Up[l] \in Entries THEN Cardinality(on[l]) <= Storage[l] + 2
    ELSE Cardinality(on[l]) <= Storage[l] + 1 \/ FirstQueue(l, Cardinality(on[l]))

\* Once the demand stops the network empties: every vehicle created leaves it.
NetworkEmpties == <>[](gone = Vehicles)
=============================================================================
