---------------------------- MODULE ParkingSearch ----------------------------
(***************************************************************************)
(* The end of a trip in a termination zone: ZoneDeTerminaison.cpp and       *)
(* usage/SymuViaFleet.cpp.  A vehicle that enters its zone is sent to a     *)
(* street (it is resident there, or it looks for a place from there on) or  *)
(* to a car park; it parks in the first street it enters that has room, or  *)
(* after a distance in simplified mode, changes its mind from time to time  *)
(* and gives up in the end.  Parked vehicles come out again as new demand   *)
(* of the zone, and take the place of any parked vehicle.                   *)
(*                                                                          *)
(* Vehicles are handled one after another in each step: the fleet is told   *)
(* of every link that the vehicle has entered, one after another, and the   *)
(* leg is ended last.  The zone has one plate or none (Near is the plate,   *)
(* or the search radius), one car park; each place is one vehicle long.     *)
(* Random draws are choices; paths come from the path graph.                *)
(***************************************************************************)
EXTENDS Integers, Sequences, SequencesExt, FiniteSetsExt

CONSTANTS Vehicles,        \* how many, handled in the order of their numbers
          Links,           \* the streets of the zone
          Near,            \* those of the normal search perimeter
          Exits,           \* those that lead to an exit of the network
          Capacity,        \* GetCapaciteStationnement of each, 0 for none
          Park,            \* the car park, and
          Access,          \* the streets that lead to its entry node,
          Leaving,         \* those that leave its exit node, and
          Approach,        \* those that lead to an access
          StockMax,        \* its capacity
          Path,            \* Path[l][d]: links after l on the way to d, if any
          Gate,            \* the street by which vehicles enter the zone
          MaxCrossed,      \* bound on the links a vehicle enters in one step
          ReroutingPeriod, WideningDelay, UpdateGoalPeriod, MaxSearch,
                           \* of ParkingParametersVariation, in steps
          MaxGoal,         \* bound on the distances drawn, in links
          MaxWaiting       \* bound on the queue of the barrier

ASSUME ParkingAssumption ==
  /\ {Vehicles, StockMax, WideningDelay, MaxSearch, MaxWaiting} \subseteq Nat
  /\ {MaxCrossed, ReroutingPeriod, UpdateGoalPeriod, MaxGoal} \subseteq Nat \ {0}
  /\ Near \cup Exits \cup Access \cup Leaving \cup Approach \cup {Gate} \subseteq Links
  /\ Capacity \in [Links -> Nat]
  /\ Park \notin Links

\* The park is entered from an access, and an access from an approach.
EndsAtPark(l, leg) ==
  LET way == <<l>> \o leg
  IN  /\ way[Len(way)] \in Access
      /\ Len(way) > 1 => way[Len(way) - 1] \in Approach

ASSUME PathAssumption ==
  \A l \in Links :
    /\ \A d \in DOMAIN Path[l] : Path[l][d] \in Seq(Links)
    /\ Park \in DOMAIN Path[l] => EndsAtPark(l, Path[l][Park])

VARIABLES veh,        \* the vehicles: see Coming
          stock,      \* m_dbStockStationnement of the streets, m_nStock of the park
          waiting,    \* vehicles at the barrier of the park, on their way out
          exits,      \* m_lstSortiesStationnement: the exits to come
          announced,  \* those that were ever in the list
          turn,       \* vehicle handled now, 0 at the start of a step
          move,       \* its movement in this step: see NoMove
          simplified  \* UseSimplifiedSurcaficMode

vars == <<veh, stock, waiting, exits, announced, turn, move, simplified>>

Numbers  == 1 .. Vehicles
Infinity == MaxGoal + 1     \* DBL_MAX

\* SymuViaFleetParameters, and what its vehicle's trip says.  A clock stops
\* where the value no longer matters; goal is what is left of the distance.
Coming == [phase |-> "coming", link |-> Gate, leg |-> <<>>, dest |-> Gate,
           residential |-> TRUE, street |-> TRUE, searching |-> FALSE, redo |-> FALSE,
           sinceStart |-> 0, sinceArbitrage |-> 0, sinceGoal |-> 0, tried |-> {},
           widened |-> FALSE, goal |-> Infinity, choice |-> {}]

Gone == [Coming EXCEPT !.phase = "gone"]
GoneResident == [Coming EXCEPT !.phase = "home"]
Lost == [Coming EXCEPT !.phase = "lost"]     \* see SetLinkUsed

\* The links entered in the step, how many of them the fleet has been told of
\* (m_LstUsedLanes), and m_bEndCurrentLeg.
NoMove == [links |-> 0, told |-> 0, end |-> FALSE]

Init == /\ veh = [v \in Numbers |-> Coming]
        /\ stock \in [Links \cup {Park} -> {0, 1}]
        /\ \A l \in Links : stock[l] <= Capacity[l]
        /\ stock[Park] <= StockMax
        /\ waiting = 0 /\ exits = 0 /\ announced = 0 /\ turn = 0 /\ move = NoMove
        /\ simplified \in BOOLEAN

(***************************************************************************)
(* Where one can go, and where there is room.                               *)
(***************************************************************************)
Room(l, st) == st[l] < Capacity[l]

IsPerimetreElargi(x) == x.widened \/ (x.searching /\ x.sinceStart >= WideningDelay)

Perimeter(wide) == IF wide THEN Links ELSE Near

GetAccessibleLinksToEnd(x, wide) ==
  {l \in Perimeter(wide) : l = x.link \/ l \in DOMAIN Path[x.link]}

\* Links that lead to an exit are used when there is nothing else.
Preferred(links) == IF links \subseteq Exits THEN links ELSE links \ Exits

Total(f, S) == FoldSet(LAMBDA l, sum : f[l] + sum, 0, S)

HasStreetRoom(links, st) == Total(st, links) < Total(Capacity, links)

\* The park belongs to links that enter it and to links that leave it.
SeesPark(links) == links \cap (Access \cup Leaving) # {}

HasParkRoom(links, st) == SeesPark(links) /\ st[Park] < StockMax

\* TirageTypeParkingSurfaciqueDestination: street or not.
TirageType(links, st) == IF ~HasParkRoom(links, st) THEN {TRUE}
                         ELSE IF ~HasStreetRoom(links, st) THEN {FALSE} ELSE BOOLEAN

(***************************************************************************)
(* A turn works on one vehicle x and the stocks.                            *)
(***************************************************************************)
World(x, st, n, end) == [x |-> x, stock |-> st, exits |-> n, end |-> end]

GestionDemandeStationnement(w) == [w EXCEPT !.exits = @ + 1]

\* The stock of a street is limited, that of the park is not.
IncStock(w, l) == [w EXCEPT !.stock[l] = IF l = Park THEN @ + 1 ELSE Min({@ + 1, Capacity[l]})]

\* The vehicle is taken out of the network, its leg is not to be continued.
\* Its flags stay as they are: it may be handled again in this turn.
Destroyed(w) == GestionDemandeStationnement([w EXCEPT !.x.phase = "gone", !.end = FALSE])

\* A mutant: the loop is not left after the first street.
IncEveryStock(w) ==
  [w EXCEPT !.stock = [l \in DOMAIN @ |-> IF l \in w.x.choice /\ Room(l, @) THEN @[l] + 1 ELSE @[l]]]

\* ZoneDeTerminaison::IncStockStationnement: the first street with room among
\* those noted with the distance; the vehicle goes even when there is none.
IncStockStationnement(w) ==
  LET free == {l \in w.x.choice : Room(l, w.stock)}
  IN  IF free = {} THEN w ELSE IncStock(w, CHOOSE l \in free : TRUE)

\* UpdateGoalDistance, for the streets noted: some distance beyond the one
\* covered, infinite when they are full.
UpdateGoalDistance(w) ==
  LET x     == w.x
      goals == IF HasStreetRoom(x.choice, w.stock)
               THEN 1 .. MaxGoal ELSE {Infinity}
  IN  {[w EXCEPT !.x.goal = g, !.x.sinceGoal = 0] : g \in goals}

\* The same, after noting the accessible streets (of those, the ones that have
\* places); in simplified mode only.
WithGoal(w, links) ==
  IF simplified THEN UpdateGoalDistance([w EXCEPT !.x.choice = {l \in links : Capacity[l] > 0}])
  ELSE {w}

\* The trip goes on to d.
AddLeg(w, d) ==
  [w EXCEPT !.x.dest = d, !.x.leg = IF d = w.x.link THEN <<>> ELSE Path[w.x.link][d]]

\* On an access the path names that street twice.  A park that is seen by a
\* street that leaves it may be out of reach: an error is logged, and the trip
\* is left as it is (the assertion is not compiled in).
NoWayToPark(l) == l \notin Access /\ Park \notin DOMAIN Path[l]

\* A mutant: the leg is added without its destination.
AddPathOnly(w) ==
  {IF w.x.link \in Access THEN [w EXCEPT !.x.leg = <<w.x.link>>]
   ELSE IF NoWayToPark(w.x.link) THEN w ELSE [AddLeg(w, Park) EXCEPT !.x.dest = w.x.dest]}

AddFinalPathToParking(w) ==
  {IF w.x.link \in Access THEN [w EXCEPT !.x.dest = Park, !.x.leg = <<w.x.link>>]
   ELSE IF NoWayToPark(w.x.link) THEN w ELSE AddLeg(w, Park)}

\* With no section to go to the trip is left as it is.
AddFinalPathToSection(w, links) ==
  IF links = {} THEN {w} ELSE {AddLeg(w, l) : l \in Preferred(links)}

\* The destination of a vehicle that parks: street or park are drawn again.
ToStreetOrPark(w, links) ==
  UNION {IF street
         THEN UNION {AddFinalPathToSection(g, links) :
                       g \in WithGoal([w EXCEPT !.x.street = TRUE], links)}
         ELSE AddFinalPathToParking([w EXCEPT !.x.street = FALSE])
         : street \in TirageType(links, w.stock)}

\* ReaffecteVehicule: the junction of the zone is reached.
ReaffecteVehicule(w) ==
  LET in    == [w EXCEPT !.x.phase = "zone"]
      links == GetAccessibleLinksToEnd(w.x, FALSE)
  IN  AddFinalPathToSection(in, links)
      \cup ToStreetOrPark([in EXCEPT !.x.residential = FALSE], links)

ReaffecteVehiculeStationnementDestination(w) ==
  ToStreetOrPark([w EXCEPT !.x.redo = FALSE],
                 GetAccessibleLinksToEnd(w.x, IsPerimetreElargi(w.x)))

\* ReaffecteVehiculeTroncon: a street not tried, in the wider perimeter when
\* there is none left; then the vehicle gives up.
ReaffecteVehiculeTroncon(w) ==
  LET near == GetAccessibleLinksToEnd(w.x, IsPerimetreElargi(w.x)) \ w.x.tried
      wide == [w EXCEPT !.x.widened = TRUE]
      all  == GetAccessibleLinksToEnd(w.x, TRUE) \ w.x.tried
  IN  IF near # {} THEN {AddLeg(w, l) : l \in Preferred(near)}
      ELSE IF all # {} THEN {AddLeg(wide, l) : l \in Preferred(all)}
      ELSE {Destroyed(w)}

SetIsRechercheStationnement(w) ==
  IF w.x.searching THEN w
  ELSE [w EXCEPT !.x.searching = TRUE, !.x.sinceStart = 0, !.x.sinceArbitrage = 0]

\* A mutant: the park announces no exit.
ArrivedForGood(w) == IF w.x.dest # Park THEN [w EXCEPT !.x = GoneResident]
                     ELSE [IncStock(w, Park) EXCEPT !.x = Gone]

\* The destination of the leg takes the vehicle (VehiculeEnter); a park counts
\* it in.
Arrived(w) == IF w.x.dest # Park THEN [w EXCEPT !.x = GoneResident]
              ELSE [GestionDemandeStationnement(IncStock(w, Park)) EXCEPT !.x = Gone]

OnCurrentLegFinished(w) ==
  CASE w.x.phase = "coming" -> ReaffecteVehicule(w)
    [] w.x.phase = "zone" /\ ~w.x.residential /\ w.x.street ->
         IF w.x.redo THEN ReaffecteVehiculeStationnementDestination(SetIsRechercheStationnement(w))
                     ELSE ReaffecteVehiculeTroncon(SetIsRechercheStationnement(w))
    [] w.x.phase = "zone" /\ ~w.x.street /\ w.x.redo ->
         ReaffecteVehiculeStationnementDestination(SetIsRechercheStationnement(w))
    [] OTHER -> {Arrived(w)}

(***************************************************************************)
(* SetLinkUsed: the vehicle has entered link l.                             *)
(***************************************************************************)
StreetSearch(x) == x.street /\ x.searching

FindsPlace(w, l) == IF simplified THEN w.x.goal = 0 ELSE Room(l, w.stock)

Redirected(w) == [w EXCEPT !.x.redo = TRUE, !.end = TRUE]

\* A mutant: the longest search is not limited.
EndlessSearch(x) == FALSE
IsMaxSurfaciqueDureeReached(x) == x.sinceStart > MaxSearch

SearchedLink(w, l) ==
  CASE FindsPlace(w, l) ->
         {Destroyed(IF simplified THEN IncStockStationnement(w) ELSE IncStock(w, l))}
    [] ~FindsPlace(w, l) /\ w.x.sinceArbitrage >= ReroutingPeriod ->
         {Redirected([w EXCEPT !.x.sinceArbitrage = 0])}
    [] OTHER -> IF simplified /\ w.x.sinceGoal >= UpdateGoalPeriod THEN UpdateGoalDistance(w)
                ELSE IF IsMaxSurfaciqueDureeReached(w.x) THEN {Destroyed(w)} ELSE {w}

\* A mutant: full is more than full.
Overfull(w, l) ==
  w.x.phase = "zone" /\ ~w.x.street /\ w.stock[Park] > StockMax /\ l \in Approach

\* The park is full, and the next link is the last one before it.
FullAhead(w, l) ==
  w.x.phase = "zone" /\ ~w.x.street /\ w.stock[Park] >= StockMax /\ l \in Approach

\* Not bound for a street, and the destination is no park: the cast is wrong,
\* what follows is undefined, and the vehicle is followed no further.
CastFails(x) == x.phase = "zone" /\ ~x.street /\ x.dest # Park

SetLinkUsed(w, l) ==
  IF StreetSearch(w.x) THEN SearchedLink([w EXCEPT !.x.tried = @ \cup {l}], l)
  ELSE IF CastFails(w.x) THEN {[w EXCEPT !.x.phase = "lost", !.end = FALSE]}
  ELSE IF FullAhead(w, l) THEN {Redirected(w)} ELSE {w}

(***************************************************************************)
(* A turn: FinCalculTrafic of a vehicle.  Nothing else runs before the turn *)
(* is over.                                                                 *)
(***************************************************************************)
\* On a street that it is sent to once more, a vehicle is there at its end.
CanMove(x, n, ends) == IF x.leg = <<x.link>> THEN n = 0 ELSE ends => n = Len(x.leg)

\* The distance covered in the step is counted first.
IncDistanceParcourue(x, n) ==
  [x EXCEPT !.goal = IF x.searching /\ @ # Infinity THEN Max({@ - n, 0}) ELSE @]

Moved(x, n) ==
  [x EXCEPT !.link = IF n = 0 THEN @ ELSE x.leg[n], !.leg = SubSeq(@, n + 1, Len(@))]

\* The next vehicle on the network; 0 ends the step.
NextTurn(t) ==
  LET left == {v \in Numbers : v > t /\ veh[v].phase \in {"coming", "zone"}}
  IN  IF left = {} THEN 0 ELSE Min(left)

\* The turn goes to vehicle t of f, which has entered up to MaxCrossed links
\* or stayed where it was, and has or has not come to the end of its leg.
TakeTurn(f, t) ==
  /\ turn' = t
  /\ IF t = 0 THEN veh' = f /\ move' = NoMove
     ELSE \E n \in 0 .. Min({MaxCrossed, Len(f[t].leg)}), ends \in BOOLEAN :
            /\ CanMove(f[t], n, ends)
            /\ veh'  = [f EXCEPT ![t] = IncDistanceParcourue(@, n)]
            /\ move' = [links |-> n, told |-> 0, end |-> ends]

\* What is left of the turn is the end of the leg.  The links on the way are
\* told of even when the vehicle has disappeared, the one it is on is not.
AllTold == \/ move.told = move.links
           \/ veh[turn].phase = "gone" /\ move.told + 1 = move.links

Results(w) == /\ stock'     = w.stock
              /\ exits'     = w.exits
              /\ announced' = announced + (w.exits - exits)
              /\ UNCHANGED <<waiting, simplified>>

AddTuyauParcouru ==
  /\ turn > 0 /\ ~AllTold
  /\ \E w \in SetLinkUsed(World(veh[turn], stock, exits, move.end),
                           veh[turn].leg[move.told + 1]) :
       /\ veh'  = [veh EXCEPT ![turn] = w.x]
       /\ move' = [move EXCEPT !.told = @ + 1, !.end = w.end]
       /\ Results(w)
  /\ UNCHANGED turn

\* Who has disappeared is forgotten: a leg ended for it has no effect.
LegEnded(w) ==
  CASE w.x.phase = "gone" -> {[w EXCEPT !.x = Gone]}
    [] w.x.phase = "lost" -> {[w EXCEPT !.x = Lost]}
    [] OTHER -> IF w.end THEN OnCurrentLegFinished(w) ELSE {w}

EndTurn ==
  /\ turn > 0 /\ AllTold
  /\ \E w \in LegEnded(World(Moved(veh[turn], move.links), stock, exits, move.end)) :
       /\ TakeTurn([veh EXCEPT ![turn] = w.x], NextTurn(turn))
       /\ Results(w)

(***************************************************************************)
(* Departures, at the start of a step: SymuViaTripNode::CreationVehicules   *)
(* for the demand of the zone and for exits from parking (forced), which    *)
(* are never residential and of which the time is not modelled.             *)
(***************************************************************************)
HasStock(links, st) == Total(st, links) > 0 \/ (SeesPark(links) /\ st[Park] > 0)

\* TirageTypeParkingSurfaciqueOrigin, in the wider perimeter when the plate
\* has no stock.
OriginLinks(st) == IF HasStock(Near, st) THEN Near ELSE Links

OriginTypes(links, st) == IF ~SeesPark(links) \/ st[Park] = 0 THEN {TRUE}
                          ELSE IF Total(st, links) = 0 THEN {FALSE} ELSE BOOLEAN

OriginSections(links, st) ==
  LET full == {l \in links : st[l] > 0} IN IF full = {} THEN links ELSE full

DecStock(l) == stock' = [stock EXCEPT ![l] = Max({0, @ - 1})]

\* bSortieStationnement: TiragePlaqueOrigine when the departure is from a
\* plate, AddInitialPathToLeg when it is from the zone.
FreesPlace(plate, residential) == IF plate THEN residential ELSE ~residential

FromStreet(plate, residential, links) ==
  /\ \E l \in links : IF FreesPlace(plate, residential) THEN DecStock(l) ELSE UNCHANGED stock
  /\ UNCHANGED waiting

\* GenerateVehicle: at once, or behind those that wait for the barrier.
FromPark == \/ waiting = 0 /\ DecStock(Park) /\ UNCHANGED waiting
            \/ waiting' = waiting + 1 /\ UNCHANGED stock

\* DoCreateVehiclesWithoutParkingStock: with no stock anywhere the vehicle is
\* created in some street, or not created.
FromPlace(plate) ==
  LET links == OriginLinks(stock)
  IN  \/ /\ ~HasStock(links, stock)
         /\ UNCHANGED <<stock, waiting>>
      \/ \E street \in OriginTypes(links, stock) :
           IF street THEN FromStreet(plate, FALSE, OriginSections(links, stock)) ELSE FromPark

SortieStationnement == /\ turn = 0 /\ exits > 0
                       /\ \E plate \in BOOLEAN : FromPlace(plate)
                       /\ exits' = exits - 1
                       /\ UNCHANGED <<veh, announced, turn, move, simplified>>

Resident == /\ turn = 0
            /\ \E plate \in BOOLEAN : FromStreet(plate, TRUE, Near)
            /\ UNCHANGED <<veh, exits, announced, turn, move, simplified>>

NonResident == /\ turn = 0 /\ waiting < MaxWaiting
               /\ \E plate \in BOOLEAN : FromPlace(plate)
               /\ UNCHANGED <<veh, exits, announced, turn, move, simplified>>

\* InsertionVehEnAttente: the barrier lets the first one out.
BarrierOpens == /\ turn = 0 /\ waiting > 0
                /\ waiting' = waiting - 1
                /\ DecStock(Park)
                /\ UNCHANGED <<veh, exits, announced, turn, move, simplified>>

Older(clock, end) == Min({clock + 1, end})

Aged(x) ==
  IF x.phase # "zone" THEN x
  ELSE [x EXCEPT
    !.sinceStart = IF x.searching THEN Older(@, Max({WideningDelay, MaxSearch + 1})) ELSE @,
    !.sinceArbitrage = IF x.searching THEN Older(@, ReroutingPeriod) ELSE @,
    !.sinceGoal = IF simplified THEN Older(@, UpdateGoalPeriod) ELSE @]

StepTraffic == /\ turn = 0
               /\ TakeTurn([v \in Numbers |-> Aged(veh[v])], NextTurn(0))
               /\ UNCHANGED <<stock, waiting, exits, announced, simplified>>

Next == \/ StepTraffic \/ AddTuyauParcouru \/ EndTurn
        \/ SortieStationnement \/ Resident \/ NonResident \/ BarrierOpens

Spec == Init /\ [][Next]_vars

(***************************************************************************)
(* Properties.                                                              *)
(***************************************************************************)
\* Types.
TypeOK ==
  /\ \A v \in Numbers :
       /\ veh[v].phase \in {"coming", "zone", "gone", "home", "lost"}
       /\ {veh[v].link} \cup veh[v].tried \cup veh[v].choice \subseteq Links
       /\ veh[v].dest \in Links \cup {Park}
       /\ veh[v].sinceArbitrage \in 0 .. ReroutingPeriod
       /\ veh[v].sinceGoal \in 0 .. UpdateGoalPeriod
       /\ veh[v].goal \in 0 .. Infinity
  /\ \A l \in Links : stock[l] \in 0 .. Capacity[l]
  /\ stock[Park] \in 0 .. StockMax + announced
  /\ waiting \in 0 .. MaxWaiting + announced /\ exits \in 0 .. announced
  /\ turn \in 0 .. Vehicles /\ simplified \in BOOLEAN
  /\ move.links \in 0 .. MaxCrossed /\ move.told \in 0 .. move.links

\* SetLinkUsed casts the final destination to a park when the vehicle is not
\* bound for a street, and asserts that who looks for a place is not resident:
\* the flags, set in five places, agree with the trip.  There is one exception,
\* a park seen by the street that leaves it, to which there is no way: the cast
\* goes wrong on the next link then.
FlagsMatchTrip ==
  \A v \in Numbers : veh[v].phase = "zone" =>
    /\ veh[v].dest = Park => ~veh[v].street
    /\ ~veh[v].street => veh[v].dest = Park \/ NoWayToPark(veh[v].link)
    /\ veh[v].searching \/ ~veh[v].street => ~veh[v].residential

\* A trip that ends outside the home of its vehicle announces one exit when it
\* ends, by whatever way it ends: parked, in the park, out of time or of
\* streets; nothing else does.  The exception is a vehicle that has jumped over
\* a link in the step: SetLinkUsed goes on with it after it was destroyed, and
\* it can end once more on every further link but the last.
Ends == \E v \in Numbers : veh[v].phase # "gone" /\ veh'[v].phase = "gone"
EndsAgain == turn > 0 /\ veh[turn].phase = "gone" /\ move.told + 1 < move.links

OneExitPerEnd ==
  [][/\ announced' \in {announced, announced + 1}
     /\ Ends => announced' # announced
     /\ announced' # announced => Ends \/ EndsAgain]_vars

\* The park is looked at when the street before the last is entered, and when
\* it is drawn: only who had already passed there enters a full one.
FullOnlyPastCheck ==
  [][stock'[Park] > StockMax /\ stock'[Park] > stock[Park] =>
       veh[turn].link \in Approach \cup Access]_vars

\* Places are taken one at a time, and never without an exit announced, which
\* gives the place back later: the stocks of the zone cannot fill for good.
Fuller == {l \in DOMAIN stock : stock'[l] > stock[l]}

OnePlacePerExit ==
  [][Fuller # {} =>
       /\ \E l \in DOMAIN stock : Fuller = {l} /\ stock'[l] = stock[l] + 1
       /\ announced' = announced + 1 /\ veh'[turn].phase = "gone"]_vars

\* The tests of a link are a chain, and the longest duration is the last one.
DurationNotReached(x) ==
  x.sinceArbitrage >= ReroutingPeriod \/ (simplified /\ x.sinceGoal >= UpdateGoalPeriod)

\* However places come and go, no vehicle drives around for ever, but for one
\* case: from some point on it enters every link at a moment when a period (of
\* rerouting, or of the goal) is over, so that its duration is not looked at.
SearchEnds ==
  \A v \in Numbers :
    <>[][turn = v /\ move'.told > move.told => DurationNotReached(veh[v])]_vars
=============================================================================
