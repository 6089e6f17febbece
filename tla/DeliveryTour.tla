---------------------------- MODULE DeliveryTour ----------------------------
(***************************************************************************)
(* Delivery tours (usage/logistic/DeliveryFleet.cpp, PointDeLivraison.cpp) *)
(* and the trips they are made of (usage/Trip.cpp, TripNode.cpp,           *)
(* AbstractFleet.cpp).  A vehicle receives a copy of the tour and of its   *)
(* loads when it is activated, stops at each delivery point as soon as the *)
(* point has a place, and leaves at the destination of the tour.  At any   *)
(* moment the exported interface may insert a point into the tour or into  *)
(* the trip of a vehicle, or remove one.                                   *)
(*                                                                         *)
(* A trip and its loads are two structures: the legs are in the order of   *)
(* the visits, the loads are kept for each point by number of passage.     *)
(* Here a load is named by the order it answers, and each leg carries as a *)
(* history the order it was created for; quantities, stop times, positions *)
(* and paths are left out.                                                 *)
(***************************************************************************)
EXTENDS Naturals, SequencesExt, FiniteSetsExt

CONSTANTS
    Vehicles,   \* vehicles of the tour
    Points,     \* delivery points (PointDeLivraison)
    Exit,       \* destination of the tour
    Places,     \* m_nNbPlaces of each point
    OffLane,    \* points beside the lane (Position::IsOutside)
    Plan,       \* points of the tour in the network file, in order
    MaxOrder    \* bound: the interface makes orders Len(Plan)+1 .. MaxOrder

ASSUME TourAssumption ==
    /\ Exit \notin Points /\ OffLane \subseteq Points
    /\ Places \in [Points -> Nat \ {0}]
    /\ Plan \in Seq(Points) /\ MaxOrder \in Nat /\ MaxOrder >= Len(Plan)

VARIABLES
    tour,       \* legs of the tour (Trip::m_Path)
    tourLoads,  \* its loads (DeliveryFleet::m_MapLoads)
    trip,       \* legs of each vehicle's own trip
    leg,        \* its current leg (m_CurrentLegIndex + 1)
    loads,      \* its loads (DeliveryFleetParameters::m_mapLoadsUnloads)
    stage,      \* "depot", "out" in the network, "left", or "lost"
    outside,    \* m_bOutside: beside the lane, at a stop or to be inserted
    listed,     \* m_LstStoppedVehicles of each point
    orders,     \* history: orders made so far
    asked,      \* history: orders each vehicle accepted, not cancelled since
    served,     \* history: loads each vehicle handled, in order
    upset       \* history: vehicles that lost their current destination

vars == <<tour, tourLoads, trip, leg, loads, stage, outside, listed,
          orders, asked, served, upset>>

(* The elements of s that belong to S, in their order. *)
Keep(s, S) ==
    FoldLeft(LAMBDA kept, e : IF e \in S THEN Append(kept, e) ELSE kept, <<>>, s)

Nothing == 0    \* GetLoadFromMap for a point without loads
Leg(p, o) == [to |-> p, order |-> o]

(* Legs of t, before position l, that end at p: Trip::GetPassageNb.  The   *)
(* origin is a centre or an entry (LogistiqueODKey in reseau.xsd), never a *)
(* point, and adds no passage.                                             *)
PassageNb(t, p, l) == Quantify(1 .. (l - 1), LAMBDA i : t[i].to = p)

LoadFromMap(q, n) ==
    CASE q = <<>> -> Nothing
      [] Len(q) = 1 -> q[1]
      [] OTHER -> q[n + 1]

(* The positions GetTripLegIndexFromDeliveryPointIndex converts the index  *)
(* of a delivery point to.  An index beyond the last point is converted to *)
(* the position after the last leg, the one of the destination.            *)
PointLegs(t) == {l \in 1 .. Len(t) : t[l].to \in Points}
Appending(t) == {Len(t) + 1}

WithLoadAtEnd(ls, t, l, o) ==   \* faulty variant: push_back
    [ls EXCEPT ![t[l].to] = Append(@, o)]
WithLoad(ls, t, l, o) ==
    [ls EXCEPT ![t[l].to] = InsertAt(@, PassageNb(t, t[l].to, l) + 1, o)]
WithoutLoad(ls, t, l) ==
    LET n == PassageNb(t, t[l].to, l) + 1 IN
    [ls EXCEPT ![t[l].to] = IF @ = <<>> THEN @ ELSE RemoveAt(@, n)]

InsertTripLeg(t, l, new) == InsertAt(t, l, new)
RemoveTripLeg(t, l) == RemoveAt(t, l)

LegKept(c, l) == c   \* faulty variant: the current leg is not updated

(* The current leg once a leg is inserted at l: one inserted just there    *)
(* becomes the current one.                                                *)
LegAfterInsert(c, l) == IF l < c THEN c + 1 ELSE c

(* The current leg once the leg at l is removed.  RemoveTripLegFromTrip    *)
(* gives leg l the destination of the next one and removes the next one,   *)
(* so that what counts is whether the next one is before the current leg.  *)
LegAfterRemove(t, c, l) ==
    LET removed == IF l < Len(t) THEN l + 1 ELSE l IN
    IF removed < c THEN c - 1 ELSE c

Dest(v) == trip[v][leg[v]].to
AtTripNode(v) == Dest(v) \in Points /\ v \in Range(listed[Dest(v)])

(* Orders a vehicle still has to answer on its way. *)
Pending(v) ==
    {trip[v][l].order : l \in {k \in PointLegs(trip[v]) :
        k > leg[v] \/ (k = leg[v] /\ ~AtTripNode(v))}}

(* Types: a vehicle that is not lost is on a leg of its trip from its     *)
(* creation on.                                                            *)
TypeOK ==
    LET Legs == [to : Points \cup {Exit}, order : 0 .. MaxOrder]
        Loads == [Points -> Seq(1 .. MaxOrder)]
    IN /\ tour \in Seq(Legs) /\ tourLoads \in Loads
       /\ trip \in [Vehicles -> Seq(Legs)] /\ loads \in [Vehicles -> Loads]
       /\ stage \in [Vehicles -> {"depot", "out", "left", "lost"}]
       /\ leg \in [Vehicles -> Nat]
       /\ \A v \in Vehicles : IF stage[v] = "depot" THEN leg[v] = 0
                              ELSE stage[v] = "lost" \/ leg[v] \in DOMAIN trip[v]
       /\ outside \in [Vehicles -> BOOLEAN]
       /\ listed \in [Points -> Seq(Vehicles)]
       /\ orders \in Len(Plan) .. MaxOrder
       /\ asked \in [Vehicles -> SUBSET (1 .. MaxOrder)]
       /\ served \in [Vehicles -> Seq(0 .. MaxOrder)]
       /\ upset \subseteq Vehicles

-----------------------------------------------------------------------------
(* DeliveryFleet::Load: one leg per point, then the destination. *)
Init ==
    /\ tour = [i \in 1 .. Len(Plan) |-> Leg(Plan[i], i)]
                  \o <<Leg(Exit, Nothing)>>
    /\ tourLoads = [p \in Points |->
           Keep([i \in DOMAIN Plan |-> i], {i \in DOMAIN Plan : Plan[i] = p})]
    /\ trip = [v \in Vehicles |-> <<>>]
    /\ leg = [v \in Vehicles |-> 0]
    /\ loads = [v \in Vehicles |-> [p \in Points |-> <<>>]]
    /\ stage = [v \in Vehicles |-> "depot"]
    /\ outside = [v \in Vehicles |-> FALSE]
    /\ listed = [p \in Points |-> <<>>]
    /\ orders = Len(Plan)
    /\ asked = [v \in Vehicles |-> {}]
    /\ served = [v \in Vehicles |-> <<>>]
    /\ upset = {}

(* A vehicle is created by the schedule of the tour or by                  *)
(* SymCreateDeliveryVehicle: it gets copies of the legs and of the loads,  *)
(* and moves to its first leg.                                             *)
ActivateVehicle(v) ==
    /\ stage[v] = "depot"
    /\ stage' = [stage EXCEPT ![v] = "out"]
    /\ trip' = [trip EXCEPT ![v] = tour]
    /\ leg' = [leg EXCEPT ![v] = 1]
    /\ loads' = [loads EXCEPT ![v] = tourLoads]
    /\ asked' = [asked EXCEPT ![v] = {tour[l].order : l \in PointLegs(tour)}]
    /\ UNCHANGED <<tour, tourLoads, outside, listed, orders, served, upset>>

Leave(v) ==
    /\ stage' = [stage EXCEPT ![v] = "left"]
    /\ UNCHANGED <<trip, leg, loads, outside, listed, served>>

HasPlaceOfFewer(p) == Len(listed[p]) + 1 < Places[p]   \* faulty variant
HasPlace(p) == Len(listed[p]) < Places[p]
VehiculeExit(list, v) == Keep(list, Vehicles \ {v})

(* DeliveryFleet::GetStopDuration handles the load of this passage. *)
WithLoadHandled(v, p) ==
    [served EXCEPT ![v] = Append(@,
        LoadFromMap(loads[v][p], PassageNb(trip[v], p, leg[v])))]

(* TripNode::VehiculeEnter at a point with a place lists the vehicle. *)
Stop(v, p) ==
    /\ HasPlace(p)
    /\ listed' = [listed EXCEPT ![p] = Append(@, v)]
    /\ outside' = [outside EXCEPT ![v] = p \in OffLane]
    /\ served' = WithLoadHandled(v, p)
    /\ UNCHANGED <<trip, leg, loads, stage>>

(* A vehicle reaches the destination of its current leg                    *)
(* (AbstractFleet::OnCurrentLegFinished).  At a full point it stays where  *)
(* it is and tries again in the next step.  It disappears at its final     *)
(* destination, whatever the current leg, and at an exit.                  *)
ReachDestination(v) ==
    /\ stage[v] = "out" /\ ~outside[v] /\ ~AtTripNode(v)
    /\ IF Dest(v) \in {Exit, Last(trip[v]).to}
       THEN /\ Dest(v) \in Points => HasPlace(Dest(v))
            /\ Leave(v)
       ELSE Stop(v, Dest(v))
    /\ UNCHANGED <<tour, tourLoads, orders, asked, upset>>

(* A vehicle without a current leg is lost: GetCurrentLeg reads m_Path out *)
(* of its bounds, or IncCurrentLegIndex asserts before.                    *)
OnLeg(v) ==
    stage' = IF leg'[v] \in DOMAIN trip'[v] THEN stage
             ELSE [stage EXCEPT ![v] = "lost"]

MoveThenExit(v) ==   \* faulty variant: leaves the list of the next destination
    /\ stage[v] = "out" /\ AtTripNode(v)
    /\ leg' = [leg EXCEPT ![v] = @ + 1]
    /\ listed' = [p \in Points |->
                     IF leg'[v] \notin DOMAIN trip[v] \/ p # trip[v][leg'[v]].to
                     THEN listed[p]
                     ELSE VehiculeExit(listed[p], v)]
    /\ UNCHANGED <<tour, tourLoads, trip, loads, outside, orders, asked,
                   served, upset>>
    /\ OnLeg(v)

(* The stop ends: TripNode::ManageStop calls Vehicule::MoveToNextLeg.  The *)
(* place is given back although a vehicle beside the lane is still there.  *)
MoveToNextLeg(v) ==
    /\ stage[v] = "out" /\ AtTripNode(v)
    /\ listed' = [listed EXCEPT ![Dest(v)] = VehiculeExit(@, v)]
    /\ leg' = [leg EXCEPT ![v] = @ + 1]
    /\ UNCHANGED <<tour, tourLoads, trip, loads, outside, orders, asked,
                   served, upset>>
    /\ OnLeg(v)

(* A vehicle whose stop has ended finds a gap on the lane. *)
InsertVehicle(v) ==
    /\ stage[v] = "out" /\ outside[v] /\ ~AtTripNode(v)
    /\ outside' = [outside EXCEPT ![v] = FALSE]
    /\ UNCHANGED <<tour, tourLoads, trip, leg, loads, stage, listed, orders,
                   asked, served, upset>>

-----------------------------------------------------------------------------
NewOrder == orders < MaxOrder /\ orders' = orders + 1

(* SymAddDeliveryPoint on the tour: for the vehicles to come. *)
AddToTour(p) ==
    /\ NewOrder
    /\ \E l \in PointLegs(tour) \cup Appending(tour) :
          /\ tour' = InsertTripLeg(tour, l, Leg(p, orders'))
          /\ tourLoads' = WithLoad(tourLoads, tour', l, orders')
    /\ UNCHANGED <<trip, leg, loads, stage, outside, listed, asked, served,
                   upset>>

(* SymRemoveDeliveryPoint on the tour. *)
RemoveFromTour ==
    /\ \E l \in PointLegs(tour) :
          /\ tour' = RemoveTripLeg(tour, l)
          /\ tourLoads' = WithoutLoad(tourLoads, tour, l)
    /\ UNCHANGED <<trip, leg, loads, stage, outside, listed, orders, asked,
                   served, upset>>

(* The positions in the trip of v an order may bear on.  The new path      *)
(* starts from the vehicle for its current leg, else from the end of the   *)
(* leg before; none starts from an exit, and an order without path changes *)
(* nothing.                                                                *)
Orderable(v) ==
    {l \in PointLegs(trip[v]) \cup Appending(trip[v]) :
        l = leg[v] \/ (l > 1 => trip[v][l - 1].to # Exit)}

(* No path is needed to remove the last leg. *)
Removable(v) == PointLegs(trip[v]) \cap (Orderable(v) \cup {Len(trip[v])})

(* An order on the leg of a vehicle that is stopped changes the node it    *)
(* stops at: the point keeps it in its list.                               *)
AtStop(v, l) == l = leg[v] /\ AtTripNode(v)

(* SymAddDeliveryPoint on the trip of a vehicle in the network.  A point   *)
(* added before the current leg is accepted and will not be visited.       *)
AddToVehicle(v, p) ==
    /\ stage[v] = "out" /\ NewOrder
    /\ \E l \in Orderable(v) :
          /\ upset' = IF AtStop(v, l) THEN upset \cup {v} ELSE upset
          /\ trip' = [trip EXCEPT ![v] = InsertTripLeg(@, l, Leg(p, orders'))]
          /\ leg' = [leg EXCEPT ![v] = LegAfterInsert(@, l)]
          /\ loads' = [loads EXCEPT ![v] = WithLoad(@, trip'[v], l, orders')]
          /\ asked' = IF l < leg[v] THEN asked
                      ELSE [asked EXCEPT ![v] = @ \cup {orders'}]
    /\ UNCHANGED <<tour, tourLoads, stage, outside, listed, served>>

(* SymRemoveDeliveryPoint on the trip of a vehicle in the network.  The    *)
(* removal of the leg just before the current one erases the current one.  *)
RemoveFromVehicle(v) ==
    /\ stage[v] = "out"
    /\ \E l \in Removable(v) :
          /\ upset' = IF l + 1 = leg[v] \/ AtStop(v, l) THEN upset \cup {v}
                      ELSE upset
          /\ trip' = [trip EXCEPT ![v] = RemoveTripLeg(@, l)]
          /\ leg' = [leg EXCEPT ![v] = LegAfterRemove(trip[v], @, l)]
          /\ loads' = [loads EXCEPT ![v] = WithoutLoad(@, trip[v], l)]
          /\ asked' = [asked EXCEPT ![v] = @ \ ({trip[v][l].order}
                                                   \ Range(served[v]))]
    /\ UNCHANGED <<tour, tourLoads, outside, listed, orders, served>>
    /\ OnLeg(v)

Drive(v) == ReachDestination(v) \/ MoveToNextLeg(v) \/ InsertVehicle(v)

Next ==
    \/ \E v \in Vehicles : ActivateVehicle(v) \/ Drive(v) \/ RemoveFromVehicle(v)
    \/ \E p \in Points : AddToTour(p) \/ (\E v \in Vehicles : AddToVehicle(v, p))
    \/ RemoveFromTour

(* Every vehicle in the network is computed in each step: one that can     *)
(* move on does so in the end.                                             *)
Spec == Init /\ [][Next]_vars /\ \A v \in Vehicles : WF_vars(Drive(v))

-----------------------------------------------------------------------------
(* Legs and loads stay in step: whatever was inserted and removed, a point *)
(* has as many loads as legs lead to it, and its n-th load answers the     *)
(* order of the n-th of these legs, in the tour and in every trip.         *)
LoadsFollowLegs ==
    LET InStep(t, ls) == \A p \in Points :
            /\ Len(ls[p]) = PassageNb(t, p, Len(t) + 1)
            /\ \A l \in DOMAIN t : t[l].to = p =>
                   ls[p][PassageNb(t, p, l) + 1] = t[l].order
    IN InStep(tour, tourLoads) /\ \A v \in Vehicles : InStep(trip[v], loads[v])

(* No order is forgotten or served twice: unless one changed the current   *)
(* destination at a stop or skipped it (upset), each order a vehicle       *)
(* accepted and nobody cancelled has been served once or is still on its   *)
(* way.  Such a vehicle keeps a current leg, and when its trip ends at the *)
(* destination of the tour it leaves there with nothing left to do; an     *)
(* order appended behind the destination ends the trip elsewhere.          *)
OrdersServed ==
    \A v \in Vehicles \ upset : stage[v] # "depot" =>
        /\ stage[v] # "lost"
        /\ asked[v] = Range(served[v]) \cup Pending(v)
        /\ Range(served[v]) \cap Pending(v) = {}
        /\ IsInjective(served[v])
        /\ stage[v] = "left" /\ Last(trip[v]).to = Exit =>
               Dest(v) = Exit /\ Pending(v) = {}

StoppedAt(v, p) == stage[v] = "out" /\ Dest(v) = p

(* No place of a delivery point is lost: the vehicles a point lists are    *)
(* listed once, in the network and on their way from it, so that the end   *)
(* of their stop gives the place back.  Only a vehicle that an order took  *)
(* its current destination from is listed where it does not stop.          *)
NoPlaceLost ==
    \A p \in Points :
        /\ IsInjective(listed[p])
        /\ \A v \in Range(listed[p]) : StoppedAt(v, p) \/ v \in upset

(* Every vehicle in the network ends its tour, although it waits on the    *)
(* lane for the places others hold, or an order makes it lose its trip, or *)
(* a point lists a vehicle that does not stop there.                       *)
ToursEnd ==
    \A v \in Vehicles : stage[v] = "out" ~>
        \/ stage[v] # "out"
        \/ \E p \in Points : \E w \in Range(listed[p]) : ~StoppedAt(w, p)
=============================================================================
