------------------------- MODULE ParkingSearch_proofs -------------------------
(***************************************************************************)
(* Proofs about ParkingSearch, for every zone, every park, any number of   *)
(* vehicles and any number of links entered in a step.                     *)
(***************************************************************************)
EXTENDS ParkingSearch, SequenceTheorems, WellFoundedInduction, TLAPS

Searchers ==
  [phase : {"coming", "zone", "gone", "home", "lost"}, link : Links, leg : Seq(Links),
   dest : Links \cup {Park}, residential : BOOLEAN, street : BOOLEAN,
   searching : BOOLEAN, redo : BOOLEAN, sinceStart : Nat,
   sinceArbitrage : 0 .. ReroutingPeriod, sinceGoal : 0 .. UpdateGoalPeriod,
   tried : SUBSET Links, widened : BOOLEAN, goal : 0 .. Infinity,
   choice : SUBSET Links]

Stocks == {st \in [Links \cup {Park} -> Nat] : \A l \in Links : st[l] <= Capacity[l]}

Worlds == [x : Searchers, stock : Stocks, exits : Nat, end : BOOLEAN]

(* Some street of the perimeter is accessible from each street of the zone. *)
Connected == \A l \in Links : Near \cap ({l} \cup DOMAIN Path[l]) # {}

(* The leg to the park passes its check, or names an access once more.      *)
ParkAhead(l, leg) == EndsAtPark(l, leg) \/ (leg = <<l>> /\ l \in Access)

(* The flags of a vehicle agree with its trip.                              *)
Sound(x) ==
  /\ x.phase = "coming" => x.street /\ ~x.searching /\ x.dest # Park /\ x.leg = <<>>
  /\ x.phase = "lost" => ~StreetSearch(x)
  /\ x.phase = "zone" =>
       /\ ~x.street => x.dest = Park \/ NoWayToPark(x.link)
       /\ x.searching \/ ~x.street \/ x.dest = Park => ~x.residential
       /\ Connected /\ x.dest = Park => ~x.street
       /\ x.dest = Park => ParkAhead(x.link, x.leg)

(***************************************************************************)
(* Destinations.                                                           *)
(***************************************************************************)
LEMMA Constants ==
  /\ Coming \in Searchers /\ Gone \in Searchers /\ GoneResident \in Searchers
  /\ Lost \in Searchers
  /\ Sound(Coming) /\ Sound(Gone) /\ Sound(GoneResident) /\ Sound(Lost)
  /\ Coming.phase = "coming" /\ Gone.phase = "gone" /\ GoneResident.phase = "home"
  /\ Lost.phase = "lost"
<1>1. /\ Gate \in Links /\ Park \notin Links /\ ReroutingPeriod \in Nat \ {0}
      /\ UpdateGoalPeriod \in Nat \ {0} /\ Infinity \in Nat /\ <<>> \in Seq(Links)
  BY ParkingAssumption DEF Infinity
<1>2. Coming \in Searchers
  BY <1>1 DEF Coming, Searchers
<1>3. Gone \in Searchers /\ GoneResident \in Searchers /\ Lost \in Searchers
  BY <1>2 DEF Gone, GoneResident, Lost, Searchers
<1>4. /\ Coming.phase = "coming" /\ Gone.phase = "gone" /\ GoneResident.phase = "home"
      /\ Lost.phase = "lost" /\ Lost.searching = FALSE
  BY DEF Gone, GoneResident, Lost, Coming
<1>5. Sound(Gone) /\ Sound(GoneResident) /\ Sound(Lost)
  BY <1>4 DEF Sound, StreetSearch
<1> QED
  BY <1>1, <1>2, <1>3, <1>4, <1>5 DEF Coming, Sound

(* A step of a turn that leaves the vehicle where it is.                    *)
SameSearch(x, y) ==
  /\ y.phase = x.phase /\ y.link = x.link /\ y.residential = x.residential
  /\ y.searching = x.searching
SameWorld(w, u) == u.stock = w.stock /\ u.exits = w.exits /\ u.end = w.end

(* A leg added to a trip leads to its destination.                         *)
LEMMA LegAdded ==
  ASSUME NEW w \in Worlds, NEW d \in Links \cup {Park},
         d = w.x.link \/ d \in DOMAIN Path[w.x.link]
  PROVE  /\ AddLeg(w, d) \in Worlds /\ SameWorld(w, AddLeg(w, d))
         /\ SameSearch(w.x, AddLeg(w, d).x) /\ AddLeg(w, d).x.dest = d
         /\ AddLeg(w, d).x.street = w.x.street /\ AddLeg(w, d).x.redo = w.x.redo
         /\ d = Park => EndsAtPark(w.x.link, AddLeg(w, d).x.leg)
<1> DEFINE leg == IF d = w.x.link THEN <<>> ELSE Path[w.x.link][d]
           y == [w.x EXCEPT !.dest = d, !.leg = leg]
<1>1. w.x \in Searchers /\ w.x.link \in Links
  BY DEF Worlds, Searchers
<1>2. leg \in Seq(Links)
  BY <1>1, PathAssumption
<1>3. y \in Searchers
  BY <1>1, <1>2 DEF Searchers
<1>4. /\ SameSearch(w.x, y) /\ y.dest = d /\ y.street = w.x.street
      /\ y.redo = w.x.redo /\ y.leg = leg
  BY <1>1 DEF Searchers, SameSearch
<1>5. AddLeg(w, d) = [w EXCEPT !.x = y]
  BY DEF AddLeg, Worlds
<1>6. d = Park => EndsAtPark(w.x.link, leg)
  BY <1>1, ParkingAssumption, PathAssumption
<1> HIDE DEF y, leg
<1>7. /\ AddLeg(w, d) \in Worlds /\ AddLeg(w, d).x = y /\ SameWorld(w, AddLeg(w, d))
  BY <1>3, <1>5 DEF Worlds, SameWorld
<1> QED
  BY <1>4, <1>6, <1>7

(* The links a search may go on to.                                        *)
LEMMA Accessible ==
  ASSUME NEW x \in Searchers, NEW wide
  PROVE  /\ GetAccessibleLinksToEnd(x, wide) \subseteq Links
         /\ \A l \in GetAccessibleLinksToEnd(x, wide) :
              l = x.link \/ l \in DOMAIN Path[x.link]
         /\ Connected => GetAccessibleLinksToEnd(x, wide) # {}
<1>1. Near \subseteq Links /\ x.link \in Links
  BY ParkingAssumption DEF Searchers
<1>2. Connected => \E l \in Near : l = x.link \/ l \in DOMAIN Path[x.link]
  BY <1>1 DEF Connected
<1> QED
  BY <1>1, <1>2 DEF GetAccessibleLinksToEnd, Perimeter

(* The streets a vehicle may be sent to.                                    *)
Reachable(x, links) ==
  /\ links \subseteq Links
  /\ \A l \in links : l = x.link \/ l \in DOMAIN Path[x.link]

(* A final path to a section is followed or not found.                     *)
LEMMA SectionAdded ==
  ASSUME NEW w \in Worlds, NEW links, Reachable(w.x, links),
         NEW u \in AddFinalPathToSection(w, links)
  PROVE  /\ u \in Worlds /\ SameWorld(w, u) /\ SameSearch(w.x, u.x)
         /\ u.x.street = w.x.street /\ u.x.redo = w.x.redo
         /\ \/ u.x.dest \in Links
            \/ links = {} /\ u.x.dest = w.x.dest /\ u.x.leg = w.x.leg
<1>1. CASE links = {}
  <2>1. u = w
    BY <1>1 DEF AddFinalPathToSection
  <2> QED
    BY <1>1, <2>1 DEF SameWorld, SameSearch
<1>2. CASE links # {}
  <2>1. PICK l \in links : u = AddLeg(w, l)
    BY <1>2 DEF AddFinalPathToSection, Preferred
  <2>2. l \in Links \cup {Park} /\ l \in Links /\ (l = w.x.link \/ l \in DOMAIN Path[w.x.link])
    BY <2>1 DEF Reachable
  <2> QED
    BY <2>1, <2>2, LegAdded
<1> QED
  BY <1>1, <1>2

(* A world whose searcher changed.                                         *)
LEMMA WithX ==
  ASSUME NEW w \in Worlds, NEW y \in Searchers
  PROVE  LET u == [w EXCEPT !.x = y]
         IN  u \in Worlds /\ u.x = y /\ SameWorld(w, u)
BY DEF Worlds, SameWorld

(* The goal distance is a matter of the search only.                       *)
LEMMA GoalUpdated ==
  ASSUME NEW w \in Worlds, NEW u \in UpdateGoalDistance(w)
  PROVE  /\ u \in Worlds /\ SameWorld(w, u) /\ SameSearch(w.x, u.x)
         /\ u.x.street = w.x.street /\ u.x.redo = w.x.redo
         /\ u.x.dest = w.x.dest /\ u.x.leg = w.x.leg
<1>1. PICK g \in (1 .. MaxGoal) \cup {Infinity} :
        u = [w EXCEPT !.x.goal = g, !.x.sinceGoal = 0]
  BY DEF UpdateGoalDistance
<1>2. g \in 0 .. Infinity /\ 0 \in 0 .. UpdateGoalPeriod
  BY ParkingAssumption DEF Infinity
<1> DEFINE y == [w.x EXCEPT !.goal = g, !.sinceGoal = 0]
<1>3. w.x \in Searchers /\ u = [w EXCEPT !.x = y]
  BY <1>1 DEF Worlds
<1>4. /\ y \in Searchers /\ SameSearch(w.x, y) /\ y.street = w.x.street
      /\ y.redo = w.x.redo /\ y.dest = w.x.dest /\ y.leg = w.x.leg
  BY <1>2, <1>3 DEF Searchers, SameSearch
<1> HIDE DEF y
<1> QED
  BY <1>3, <1>4, WithX

(* The goal of a set of links is a matter of the search only.              *)
LEMMA GoalNoted ==
  ASSUME NEW w \in Worlds, NEW links \in SUBSET Links, NEW u \in WithGoal(w, links)
  PROVE  /\ u \in Worlds /\ SameWorld(w, u) /\ SameSearch(w.x, u.x)
         /\ u.x.street = w.x.street /\ u.x.redo = w.x.redo
         /\ u.x.dest = w.x.dest /\ u.x.leg = w.x.leg
<1> DEFINE c == {l \in links : Capacity[l] > 0}
           y == [w.x EXCEPT !.choice = c]
           z == [w EXCEPT !.x = y]
<1>1. w.x \in Searchers
  BY DEF Worlds
<1>2. /\ y \in Searchers /\ SameSearch(w.x, y) /\ y.street = w.x.street
      /\ y.redo = w.x.redo /\ y.dest = w.x.dest /\ y.leg = w.x.leg
  BY <1>1 DEF Searchers, SameSearch
<1>3. u = w \/ u \in UpdateGoalDistance(z)
  <2>1. z = [w EXCEPT !.x.choice = c]
    BY DEF Worlds
  <2> QED
    BY <2>1 DEF WithGoal
<1> HIDE DEF y
<1>4. z \in Worlds /\ z.x = y /\ SameWorld(w, z)
  BY <1>2, WithX
<1> HIDE DEF z
<1> QED
  BY <1>2, <1>3, <1>4, GoalUpdated DEF SameWorld, SameSearch

(***************************************************************************)
(* The end of a leg.                                                       *)
(***************************************************************************)
(* A vehicle that parks is sent to a street or to the park.                 *)
LEMMA StreetOrPark ==
  ASSUME NEW w \in Worlds, NEW links, Reachable(w.x, links),
         Connected => links # {}, ~w.x.residential, w.x.dest = Park => ParkAhead(w.x.link, w.x.leg),
         w.x.phase = "zone", NEW u \in ToStreetOrPark(w, links)
  PROVE  /\ u \in Worlds /\ SameWorld(w, u) /\ SameSearch(w.x, u.x)
         /\ Sound(u.x)
<1>1. PICK street \in TirageType(links, w.stock) :
        u \in IF street
              THEN UNION {AddFinalPathToSection(g, links) :
                            g \in WithGoal([w EXCEPT !.x.street = TRUE], links)}
              ELSE AddFinalPathToParking([w EXCEPT !.x.street = FALSE])
  BY DEF ToStreetOrPark
<1>2. street \in BOOLEAN
  BY <1>1 DEF TirageType
<1>3. w.x \in Searchers /\ Park \notin Links
  BY ParkingAssumption DEF Worlds
<1> DEFINE y == [w.x EXCEPT !.street = street]
           z == [w EXCEPT !.x = y]
<1>4. /\ y \in Searchers /\ SameSearch(w.x, y) /\ y.street = street
      /\ y.dest = w.x.dest /\ y.leg = w.x.leg
  BY <1>2, <1>3 DEF Searchers, SameSearch
<1> HIDE DEF y
<1>5. z \in Worlds /\ z.x = y /\ SameWorld(w, z)
  BY <1>4, WithX
<1>6. z = [w EXCEPT !.x.street = street]
  BY DEF Worlds, y
<1> HIDE DEF z
<1>7. CASE street = TRUE
  <2>1. PICK g \in WithGoal(z, links) : u \in AddFinalPathToSection(g, links)
    BY <1>1, <1>6, <1>7
  <2>2. links \in SUBSET Links
    BY DEF Reachable
  <2>3. /\ g \in Worlds /\ SameWorld(z, g) /\ SameSearch(z.x, g.x)
        /\ g.x.street = z.x.street /\ g.x.dest = z.x.dest /\ g.x.leg = z.x.leg
    BY <1>5, <2>1, <2>2, GoalNoted
  <2>4. Reachable(g.x, links)
    BY <1>4, <1>5, <2>3 DEF Reachable, SameSearch
  <2>5. /\ u \in Worlds /\ SameWorld(g, u) /\ SameSearch(g.x, u.x)
        /\ u.x.street = g.x.street
        /\ \/ u.x.dest \in Links
           \/ links = {} /\ u.x.dest = g.x.dest /\ u.x.leg = g.x.leg
    BY <2>1, <2>3, <2>4, SectionAdded
  <2>6. SameWorld(w, u) /\ SameSearch(w.x, u.x) /\ u.x.street
    BY <1>4, <1>5, <1>7, <2>3, <2>5 DEF SameWorld, SameSearch
  <2>7. Sound(u.x)
    BY <1>3, <1>4, <1>5, <2>3, <2>5, <2>6 DEF Sound, SameSearch
  <2> QED
    BY <2>5, <2>6, <2>7
<1>8. CASE street = FALSE
  <2>1. u \in AddFinalPathToParking(z)
    BY <1>1, <1>6, <1>8
  <2>2. w.x.link \in Links /\ z.x.link = w.x.link /\ z.x.street = FALSE
    BY <1>3, <1>4, <1>5, <1>8 DEF Searchers, SameSearch
  <2>3. CASE z.x.link \in Access
    <3> DEFINE p == [z.x EXCEPT !.dest = Park, !.leg = <<z.x.link>>]
    <3>1. u = [z EXCEPT !.x = p]
      BY <1>5, <2>1, <2>3 DEF AddFinalPathToParking, Worlds
    <3>2. /\ p \in Searchers /\ SameSearch(z.x, p) /\ p.dest = Park /\ p.leg = <<z.x.link>>
          /\ p.street = FALSE
      <4>1. z.x \in Searchers /\ <<z.x.link>> \in Seq(Links)
        BY <1>5, <2>2 DEF Worlds
      <4> QED
        BY <2>2, <4>1 DEF Searchers, SameSearch
    <3> HIDE DEF p
    <3>3. u \in Worlds /\ u.x = p /\ SameWorld(z, u)
      BY <1>5, <3>1, <3>2, WithX
    <3>4. SameWorld(w, u) /\ SameSearch(w.x, u.x) /\ u.x.street = FALSE
      BY <1>4, <1>5, <3>2, <3>3 DEF SameWorld, SameSearch
    <3>5. ParkAhead(u.x.link, u.x.leg) /\ u.x.dest = Park
      BY <2>3, <3>2, <3>3 DEF ParkAhead, SameSearch
    <3>6. Sound(u.x)
      BY <3>4, <3>5 DEF Sound, SameSearch
    <3> QED
      BY <3>3, <3>4, <3>6
  <2>4. CASE NoWayToPark(z.x.link)
    <3>1. u = z
      BY <2>1, <2>4 DEF AddFinalPathToParking, NoWayToPark
    <3>2. Sound(u.x)
      BY <1>4, <1>5, <2>2, <2>4, <3>1 DEF Sound, SameSearch
    <3> QED
      BY <1>4, <1>5, <3>1, <3>2
  <2>5. CASE z.x.link \notin Access /\ ~NoWayToPark(z.x.link)
    <3>1. u = AddLeg(z, Park) /\ Park \in DOMAIN Path[z.x.link]
      BY <2>1, <2>5 DEF AddFinalPathToParking, NoWayToPark
    <3>2. /\ u \in Worlds /\ SameWorld(z, u) /\ SameSearch(z.x, u.x) /\ u.x.dest = Park
          /\ u.x.street = z.x.street /\ EndsAtPark(z.x.link, u.x.leg)
      BY <1>5, <3>1, LegAdded
    <3>3. SameWorld(w, u) /\ SameSearch(w.x, u.x) /\ u.x.street = FALSE
      BY <1>4, <1>5, <2>2, <3>2 DEF SameWorld, SameSearch
    <3>4. ParkAhead(u.x.link, u.x.leg)
      BY <2>2, <3>2 DEF ParkAhead, SameSearch
    <3>5. Sound(u.x)
      BY <3>2, <3>3, <3>4 DEF Sound, SameSearch
    <3> QED
      BY <3>2, <3>3, <3>5
  <2> QED
    BY <2>3, <2>4, <2>5
<1> QED
  BY <1>2, <1>7, <1>8

(* Where the vehicle is and where it goes to.                              *)
SameTrip(x, y) ==
  y.link = x.link /\ y.leg = x.leg /\ y.dest = x.dest /\ y.street = x.street /\ y.redo = x.redo

(* A vehicle that is destroyed announces an exit.                          *)
LEMMA GivesUp ==
  ASSUME NEW w \in Worlds
  PROVE  LET u == Destroyed(w)
         IN  /\ u \in Worlds /\ u.x.phase = "gone" /\ Sound(u.x) /\ SameTrip(w.x, u.x)
             /\ u.stock = w.stock /\ u.exits = w.exits + 1 /\ u.end = FALSE
<1> DEFINE y == [w.x EXCEPT !.phase = "gone"]
           v == [w EXCEPT !.x = y]
           u == [v EXCEPT !.end = FALSE]
<1>1. w.x \in Searchers
  BY DEF Worlds
<1>2. y \in Searchers /\ y.phase = "gone" /\ Sound(y) /\ SameTrip(w.x, y)
  BY <1>1 DEF Searchers, Sound, SameTrip
<1>3. Destroyed(w) = [u EXCEPT !.exits = @ + 1]
  <2>1. u = [w EXCEPT !.x.phase = "gone", !.end = FALSE]
    BY DEF Worlds
  <2> QED
    BY <2>1 DEF Destroyed, GestionDemandeStationnement
<1> HIDE DEF y
<1>4. v \in Worlds /\ v.x = y /\ v.stock = w.stock /\ v.exits = w.exits
  BY <1>2 DEF Worlds
<1> HIDE DEF v
<1>5. u \in Worlds /\ u.x = y /\ u.stock = w.stock /\ u.exits = w.exits /\ u.end = FALSE
  BY <1>4 DEF Worlds
<1> HIDE DEF u
<1> QED
  BY <1>2, <1>3, <1>5 DEF Worlds

(* How a leg may end.                                                       *)
Ended(w, u) ==
  /\ u \in Worlds /\ Sound(u.x)
  /\ \/ u.stock = w.stock /\ u.exits = w.exits /\ u.x.phase \in {"zone", "home"}
     \/ u.stock = w.stock /\ u.exits = w.exits + 1 /\ u.x.phase = "gone"
     \/ /\ u.stock = [w.stock EXCEPT ![Park] = @ + 1] /\ u.exits = w.exits + 1
        /\ u.x.phase = "gone"
        /\ w.x.phase = "zone" /\ w.x.dest = Park /\ ~w.x.street /\ ~w.x.redo

(* The turn of a vehicle that enters its zone.                             *)
LEMMA ZoneEntered ==
  ASSUME NEW w \in Worlds, Sound(w.x), w.x.phase = "coming", NEW u \in ReaffecteVehicule(w)
  PROVE  Ended(w, u)
<1> DEFINE y == [w.x EXCEPT !.phase = "zone"]
           in == [w EXCEPT !.x = y]
           z == [w.x EXCEPT !.phase = "zone", !.residential = FALSE]
           out == [w EXCEPT !.x = z]
           links == GetAccessibleLinksToEnd(w.x, FALSE)
<1>1. w.x \in Searchers
  BY DEF Worlds
<1>2. in = [w EXCEPT !.x.phase = "zone"] /\ out = [in EXCEPT !.x.residential = FALSE]
  BY DEF Worlds
<1>3. /\ y \in Searchers /\ y.phase = "zone" /\ y.link = w.x.link /\ y.street = w.x.street
      /\ y.searching = w.x.searching /\ y.dest = w.x.dest /\ y.leg = w.x.leg
      /\ z \in Searchers /\ z.phase = "zone" /\ z.link = w.x.link /\ z.dest = w.x.dest
      /\ z.residential = FALSE
  BY <1>1 DEF Searchers
<1>4. u \in AddFinalPathToSection(in, links) \cup ToStreetOrPark(out, links)
  BY <1>2 DEF ReaffecteVehicule
<1>5. Reachable(w.x, links) /\ (Connected => links # {})
  BY <1>1, Accessible DEF Reachable
<1> HIDE DEF y, z, links
<1>6. in \in Worlds /\ in.x = y /\ SameWorld(w, in)
      /\ out \in Worlds /\ out.x = z /\ SameWorld(w, out)
  BY <1>3, WithX
<1> HIDE DEF in, out
<1>7. Reachable(in.x, links) /\ Reachable(out.x, links)
  BY <1>3, <1>5, <1>6 DEF Reachable
<1>8. w.x.dest # Park /\ Park \notin Links
  BY ParkingAssumption DEF Sound
<1>9. CASE u \in AddFinalPathToSection(in, links)
  <2>1. /\ u \in Worlds /\ SameWorld(in, u) /\ SameSearch(in.x, u.x)
        /\ u.x.street = in.x.street
        /\ u.x.dest \in Links \/ u.x.dest = in.x.dest
    BY <1>6, <1>7, <1>9, SectionAdded
  <2>2. u.x.phase = "zone" /\ u.x.dest # Park /\ u.x.street /\ ~u.x.searching
    BY <1>3, <1>6, <1>8, <2>1 DEF SameSearch, Sound
  <2> QED
    BY <1>6, <2>1, <2>2 DEF Ended, Sound, SameWorld
<1>10. CASE u \in ToStreetOrPark(out, links)
  <2>1. ~out.x.residential /\ out.x.dest # Park /\ out.x.phase = "zone"
    BY <1>3, <1>6, <1>8
  <2>2. /\ u \in Worlds /\ SameWorld(out, u) /\ SameSearch(out.x, u.x) /\ Sound(u.x)
    BY <1>5, <1>6, <1>7, <1>10, <2>1, StreetOrPark
  <2> QED
    BY <1>3, <1>6, <2>2 DEF Ended, SameWorld, SameSearch
<1> QED
  BY <1>4, <1>9, <1>10

(* A search starts with sound flags.                                       *)
LEMMA SearchStarted ==
  ASSUME NEW w \in Worlds, Sound(w.x), w.x.phase = "zone", ~w.x.residential
  PROVE  LET u == SetIsRechercheStationnement(w)
         IN  /\ u \in Worlds /\ Sound(u.x) /\ SameWorld(w, u) /\ u.x.phase = "zone"
             /\ ~u.x.residential /\ u.x.street = w.x.street /\ u.x.redo = w.x.redo
             /\ u.x.dest = w.x.dest
<1> DEFINE y == [w.x EXCEPT !.searching = TRUE, !.sinceStart = 0, !.sinceArbitrage = 0]
           u == SetIsRechercheStationnement(w)
<1>1. w.x \in Searchers /\ 0 \in 0 .. ReroutingPeriod
  BY ParkingAssumption DEF Worlds
<1>2. /\ y \in Searchers /\ y.phase = w.x.phase /\ y.residential = w.x.residential
      /\ y.street = w.x.street /\ y.dest = w.x.dest /\ y.link = w.x.link /\ y.leg = w.x.leg
      /\ y.redo = w.x.redo
  BY <1>1 DEF Searchers
<1>3. u = w \/ u = [w EXCEPT !.x = y]
  BY DEF SetIsRechercheStationnement, Worlds
<1>4. Sound(y)
  BY <1>2 DEF Sound
<1> HIDE DEF y, u
<1>5. [w EXCEPT !.x = y] \in Worlds /\ [w EXCEPT !.x = y].x = y /\ SameWorld(w, [w EXCEPT !.x = y])
  BY <1>2, WithX
<1>6. SameWorld(w, w)
  BY DEF SameWorld
<1> QED
  BY <1>2, <1>3, <1>4, <1>5, <1>6 DEF u

(* The turn of a vehicle whose destination is drawn again.                 *)
LEMMA DrawnAgain ==
  ASSUME NEW w \in Worlds, Sound(w.x), w.x.phase = "zone", ~w.x.residential,
         NEW u \in ReaffecteVehiculeStationnementDestination(w)
  PROVE  Ended(w, u)
<1> DEFINE y == [w.x EXCEPT !.redo = FALSE]
           z == [w EXCEPT !.x = y]
           links == GetAccessibleLinksToEnd(w.x, IsPerimetreElargi(w.x))
<1>1. w.x \in Searchers
  BY DEF Worlds
<1>2. /\ y \in Searchers /\ SameSearch(w.x, y) /\ y.dest = w.x.dest /\ y.leg = w.x.leg
  BY <1>1 DEF Searchers, SameSearch
<1>3. u \in ToStreetOrPark(z, links)
  <2>1. z = [w EXCEPT !.x.redo = FALSE]
    BY DEF Worlds
  <2> QED
    BY <2>1 DEF ReaffecteVehiculeStationnementDestination
<1>4. Reachable(w.x, links) /\ (Connected => links # {})
  BY <1>1, Accessible DEF Reachable
<1> HIDE DEF y, links
<1>5. z \in Worlds /\ z.x = y /\ SameWorld(w, z)
  BY <1>2, WithX
<1> HIDE DEF z
<1>6. Reachable(z.x, links) /\ ~z.x.residential /\ z.x.phase = "zone"
      /\ (z.x.dest = Park => ParkAhead(z.x.link, z.x.leg))
  BY <1>2, <1>4, <1>5 DEF Reachable, SameSearch, Sound
<1>7. u \in Worlds /\ SameWorld(z, u) /\ SameSearch(z.x, u.x) /\ Sound(u.x)
  BY <1>3, <1>4, <1>5, <1>6, StreetOrPark
<1> QED
  BY <1>5, <1>6, <1>7 DEF Ended, SameWorld, SameSearch

(* The turn of a vehicle sent to another street.                           *)
LEMMA AnotherStreet ==
  ASSUME NEW w \in Worlds, Sound(w.x), w.x.phase = "zone", ~w.x.residential, w.x.street,
         NEW u \in ReaffecteVehiculeTroncon(w)
  PROVE  Ended(w, u)
<1> DEFINE near == GetAccessibleLinksToEnd(w.x, IsPerimetreElargi(w.x)) \ w.x.tried
           all == GetAccessibleLinksToEnd(w.x, TRUE) \ w.x.tried
           y == [w.x EXCEPT !.widened = TRUE]
           wide == [w EXCEPT !.x = y]
<1>1. w.x \in Searchers
  BY DEF Worlds
<1>2. /\ y \in Searchers /\ SameSearch(w.x, y) /\ y.street = w.x.street
  BY <1>1 DEF Searchers, SameSearch
<1>3. /\ near \subseteq Links /\ \A l \in near : l = w.x.link \/ l \in DOMAIN Path[w.x.link]
      /\ all \subseteq Links /\ \A l \in all : l = w.x.link \/ l \in DOMAIN Path[w.x.link]
  BY <1>1, Accessible
<1>4. \/ \E l \in near : u = AddLeg(w, l)
      \/ \E l \in all : u = AddLeg(wide, l)
      \/ u = Destroyed(w)
  <2>1. wide = [w EXCEPT !.x.widened = TRUE]
    BY DEF Worlds
  <2> QED
    BY <2>1 DEF ReaffecteVehiculeTroncon, Preferred
<1> HIDE DEF near, all, y
<1>5. wide \in Worlds /\ wide.x = y /\ SameWorld(w, wide)
  BY <1>2, WithX
<1> HIDE DEF wide
<1>6. ASSUME NEW v \in {w, wide}, NEW l \in Links, u = AddLeg(v, l),
             l = w.x.link \/ l \in DOMAIN Path[w.x.link]
      PROVE  Ended(w, u)
  <2>1. v \in Worlds /\ SameWorld(w, v) /\ SameSearch(w.x, v.x) /\ v.x.street
    BY <1>2, <1>5 DEF SameWorld, SameSearch
  <2>2. l = v.x.link \/ l \in DOMAIN Path[v.x.link]
    BY <1>6, <2>1 DEF SameSearch
  <2>3. l \in Links \cup {Park} /\ l # Park
    BY ParkingAssumption
  <2>4. /\ u \in Worlds /\ SameWorld(v, u) /\ SameSearch(v.x, u.x) /\ u.x.dest = l
        /\ u.x.street = v.x.street
    BY <1>6, <2>1, <2>2, <2>3, LegAdded
  <2> QED
    BY <2>1, <2>3, <2>4 DEF Ended, Sound, SameWorld, SameSearch
<1>7. ASSUME u = Destroyed(w) PROVE Ended(w, u)
  BY <1>7, GivesUp DEF Ended
<1> QED
  BY <1>3, <1>4, <1>6, <1>7

(* The turn of a vehicle that parks.                                       *)
LEMMA ArrivedFacts ==
  ASSUME NEW w \in Worlds, w.x.phase = "zone", w.x.dest = Park => ~w.x.street /\ ~w.x.redo
  PROVE  Ended(w, Arrived(w))
<1>1. CASE w.x.dest # Park
  <2>1. Arrived(w) = [w EXCEPT !.x = GoneResident]
    BY <1>1 DEF Arrived
  <2>2. LET u == [w EXCEPT !.x = GoneResident]
        IN  u \in Worlds /\ u.x = GoneResident /\ SameWorld(w, u)
    BY Constants, WithX
  <2> QED
    BY <2>1, <2>2, Constants DEF Ended, SameWorld
<1>2. CASE w.x.dest = Park
  <2> DEFINE st == [w.stock EXCEPT ![Park] = @ + 1]
             u == [x |-> Gone, stock |-> st, exits |-> w.exits + 1, end |-> w.end]
  <2>1. Arrived(w) = u
    BY <1>2 DEF Arrived, IncStock, GestionDemandeStationnement, Worlds
  <2>2. st \in Stocks
    BY ParkingAssumption DEF Worlds, Stocks
  <2> HIDE DEF st
  <2>3. u \in Worlds
    BY <2>2, Constants DEF Worlds
  <2> QED
    BY <1>2, <2>1, <2>3, Constants DEF Ended, st
<1> QED
  BY <1>1, <1>2

(* The turn of a vehicle at the end of its leg.                            *)
LEMMA LegFinished ==
  ASSUME NEW w \in Worlds, Sound(w.x), w.x.phase \in {"coming", "zone"},
         NEW u \in OnCurrentLegFinished(w)
  PROVE  Ended(w, u)
<1> DEFINE s == SetIsRechercheStationnement(w)
<1>1. CASE w.x.phase = "coming"
  <2>1. u \in ReaffecteVehicule(w)
    BY <1>1 DEF OnCurrentLegFinished
  <2> QED
    BY <1>1, <2>1, ZoneEntered
<1>2. CASE w.x.phase = "zone" /\ ~w.x.residential /\ (w.x.street \/ w.x.redo)
  <2>1. /\ s \in Worlds /\ Sound(s.x) /\ SameWorld(w, s) /\ s.x.phase = "zone"
        /\ ~s.x.residential /\ s.x.street = w.x.street /\ s.x.redo = w.x.redo
        /\ s.x.dest = w.x.dest
    BY <1>2, SearchStarted
  <2>2. u \in ReaffecteVehiculeStationnementDestination(s)
        \/ (w.x.street /\ u \in ReaffecteVehiculeTroncon(s))
    BY <1>2 DEF OnCurrentLegFinished
  <2>3. Ended(s, u)
    <3> HIDE DEF s
    <3> QED
      BY <2>1, <2>2, DrawnAgain, AnotherStreet
  <2> HIDE DEF s
  <2> QED
    BY <1>2, <2>1, <2>3 DEF Ended, SameWorld
<1>3. CASE w.x.phase = "zone" /\ (w.x.residential \/ (~w.x.street /\ ~w.x.redo))
  <2>1. w.x.residential => w.x.street /\ w.x.dest # Park
    BY <1>3 DEF Sound
  <2>2. u = Arrived(w)
    BY <1>3, <2>1 DEF OnCurrentLegFinished
  <2> QED
    BY <1>3, <2>1, <2>2, ArrivedFacts
<1> QED
  BY <1>1, <1>2, <1>3


(***************************************************************************)
(* The links told of in a turn.                                            *)
(***************************************************************************)
LEMMA MinMax ==
  ASSUME NEW a \in Int, NEW b \in Int
  PROVE  /\ Min({a, b}) = IF a <= b THEN a ELSE b
         /\ Max({a, b}) = IF a >= b THEN a ELSE b
<1> DEFINE m == IF a <= b THEN a ELSE b
           n == IF a >= b THEN a ELSE b
<1>1. m \in {a, b} /\ \A y \in {a, b} : m <= y
  OBVIOUS
<1>2. ASSUME NEW c \in {a, b}, \A y \in {a, b} : c <= y PROVE c = m
  BY <1>2
<1>3. n \in {a, b} /\ \A y \in {a, b} : n >= y
  OBVIOUS
<1>4. ASSUME NEW c \in {a, b}, \A y \in {a, b} : c >= y PROVE c = n
  BY <1>4
<1> HIDE DEF m, n
<1>5. Min({a, b}) = m
  BY <1>1, <1>2 DEF Min
<1>6. Max({a, b}) = n
  BY <1>3, <1>4 DEF Max
<1> QED
  BY <1>5, <1>6 DEF m, n

(* One place is taken, of street or park l, or none.                        *)
OneMore(st, st2, S) == \E l \in S : st2 = [st EXCEPT ![l] = @ + 1]

(* A street takes at most one vehicle more.                                *)
LEMMA StreetTaken ==
  ASSUME NEW w \in Worlds, NEW l \in Links
  PROVE  LET u == IncStock(w, l)
         IN  /\ u \in Worlds /\ u.x = w.x /\ u.exits = w.exits /\ u.end = w.end
             /\ u.stock = w.stock \/ OneMore(w.stock, u.stock, Links)
             /\ u.stock[Park] = w.stock[Park]
<1> DEFINE k == Min({w.stock[l] + 1, Capacity[l]})
           st == [w.stock EXCEPT ![l] = k]
<1>1. /\ w.stock \in Stocks /\ w.stock[l] \in Nat /\ Capacity[l] \in Nat
      /\ w.stock[l] <= Capacity[l] /\ l # Park
  BY ParkingAssumption DEF Worlds, Stocks
<1>2. k = IF w.stock[l] + 1 <= Capacity[l] THEN w.stock[l] + 1 ELSE Capacity[l]
  BY <1>1, MinMax
<1>3. k \in Nat /\ k <= Capacity[l] /\ (k = w.stock[l] + 1 \/ k = w.stock[l])
  BY <1>1, <1>2
<1>4. IncStock(w, l) = [w EXCEPT !.stock = st]
  BY <1>1 DEF IncStock, Worlds
<1> HIDE DEF k
<1>5. st \in Stocks /\ st[Park] = w.stock[Park]
      /\ (st = w.stock \/ st = [w.stock EXCEPT ![l] = @ + 1])
  BY <1>1, <1>3 DEF Stocks
<1> HIDE DEF st
<1> QED
  BY <1>4, <1>5 DEF Worlds, OneMore

(* The park was found full, one street ahead of it.                         *)
Warned(w, l) == w.x.phase = "zone" /\ ~w.x.street /\ w.stock[Park] >= StockMax /\ l \in Approach

(* What a link told of does: the vehicle goes on, or disappears and takes a *)
(* place of a street or none, or is lost.  Its trip stays the same.         *)
SameWay(x, y) ==
  /\ y.link = x.link /\ y.leg = x.leg /\ y.dest = x.dest /\ y.street = x.street
  /\ x.redo => y.redo

Kept(w, u) ==
  /\ u.x.phase = w.x.phase /\ u.stock = w.stock /\ u.exits = w.exits
  /\ u.end => w.end \/ u.x.redo

Parked(w, u) ==
  /\ u.x.phase = "gone" /\ u.exits = w.exits + 1
  /\ u.stock = w.stock \/ OneMore(w.stock, u.stock, Links)

Used(w, u) ==
  /\ u \in Worlds /\ Sound(u.x) /\ SameWay(w.x, u.x) /\ u.stock[Park] = w.stock[Park]
  /\ \/ Kept(w, u) \/ Parked(w, u)
     \/ u.x.phase = "lost" /\ u.stock = w.stock /\ u.exits = w.exits

(* The search of a vehicle is a matter of flags that its trip ignores.      *)
LEMMA FlagsChanged ==
  ASSUME NEW x \in Searchers, Sound(x), NEW y \in Searchers, y.phase = x.phase,
         y.searching = x.searching, y.residential = x.residential, SameWay(x, y)
  PROVE  Sound(y)
BY DEF Sound, SameWay, StreetSearch

(* A vehicle warned on its way is sent elsewhere later.                    *)
LEMMA Redirection ==
  ASSUME NEW w \in Worlds, Sound(w.x)
  PROVE  Used(w, Redirected(w)) /\ Kept(w, Redirected(w)) /\ Redirected(w).x.redo
<1> DEFINE y == [w.x EXCEPT !.redo = TRUE]
           v == [w EXCEPT !.x = y]
           u == [v EXCEPT !.end = TRUE]
<1>1. w.x \in Searchers
  BY DEF Worlds
<1>2. /\ y \in Searchers /\ SameWay(w.x, y) /\ y.phase = w.x.phase /\ y.redo
      /\ y.searching = w.x.searching /\ y.residential = w.x.residential
  BY <1>1 DEF Searchers, SameWay
<1>3. Redirected(w) = u
  BY DEF Redirected, Worlds
<1> HIDE DEF y
<1>4. Sound(y)
  BY <1>1, <1>2, FlagsChanged
<1>5. v \in Worlds /\ v.x = y /\ SameWorld(w, v)
  BY <1>2, WithX
<1> HIDE DEF v
<1>6. u \in Worlds /\ u.x = v.x /\ u.stock = v.stock /\ u.exits = v.exits
  BY <1>5 DEF Worlds
<1> HIDE DEF u
<1> QED
  BY <1>2, <1>3, <1>4, <1>5, <1>6 DEF Used, Kept, SameWorld

(* A link searched takes at most one vehicle.                              *)
LEMMA LinkSearched ==
  ASSUME NEW w \in Worlds, Sound(w.x), NEW l \in Links, NEW u \in SearchedLink(w, l)
  PROVE  Used(w, u) /\ (Kept(w, u) \/ Parked(w, u))
<1>1. CASE u = Destroyed(IF simplified THEN IncStockStationnement(w) ELSE IncStock(w, l))
  <2> DEFINE v == IF simplified THEN IncStockStationnement(w) ELSE IncStock(w, l)
             free == {s \in w.x.choice : Room(s, w.stock)}
  <2>1. w.x.choice \subseteq Links
    BY DEF Worlds, Searchers
  <2>2. v = w \/ \E s \in Links : v = IncStock(w, s)
    <3>1. CASE simplified /\ free # {}
      <4>1. (CHOOSE s \in free : TRUE) \in free
        BY <3>1
      <4>2. v = IncStock(w, CHOOSE s \in free : TRUE)
        BY <3>1 DEF IncStockStationnement
      <4> QED
        BY <2>1, <4>1, <4>2
    <3>2. CASE simplified /\ free = {}
      BY <3>2 DEF IncStockStationnement
    <3>3. CASE ~simplified
      BY <3>3
    <3> QED
      BY <3>1, <3>2, <3>3
  <2>3. u = Destroyed(v)
    BY <1>1
  <2> HIDE DEF v
  <2>4. /\ v \in Worlds /\ v.x = w.x /\ v.exits = w.exits
        /\ v.stock = w.stock \/ OneMore(w.stock, v.stock, Links)
        /\ v.stock[Park] = w.stock[Park]
    BY <2>2, StreetTaken
  <2>5. /\ u \in Worlds /\ u.x.phase = "gone" /\ Sound(u.x) /\ SameTrip(v.x, u.x)
        /\ u.stock = v.stock /\ u.exits = v.exits + 1
    BY <2>3, <2>4, GivesUp
  <2> QED
    BY <2>4, <2>5 DEF Used, Parked, SameTrip, SameWay
<1>2. CASE u = Redirected([w EXCEPT !.x.sinceArbitrage = 0])
  <2> DEFINE y == [w.x EXCEPT !.sinceArbitrage = 0]
             v == [w EXCEPT !.x = y]
  <2>1. w.x \in Searchers /\ 0 \in 0 .. ReroutingPeriod
    BY ParkingAssumption DEF Worlds
  <2>2. /\ y \in Searchers /\ SameWay(w.x, y) /\ y.phase = w.x.phase
        /\ y.searching = w.x.searching /\ y.residential = w.x.residential
    BY <2>1 DEF Searchers, SameWay
  <2>3. u = Redirected(v)
    BY <1>2 DEF Worlds
  <2>4. Sound(y)
    <3> HIDE DEF y
    <3> QED
      BY <2>1, <2>2, FlagsChanged
  <2> HIDE DEF y
  <2>5. v \in Worlds /\ v.x = y /\ SameWorld(w, v)
    BY <2>2, WithX
  <2> HIDE DEF v
  <2>6. Used(v, u) /\ Kept(v, u)
    BY <2>3, <2>4, <2>5, Redirection
  <2> QED
    BY <2>2, <2>5, <2>6 DEF Used, Kept, SameWorld, SameWay
<1>3. CASE u \in UpdateGoalDistance(w)
  <2>1. /\ u \in Worlds /\ SameWorld(w, u) /\ SameSearch(w.x, u.x)
        /\ u.x.street = w.x.street /\ u.x.redo = w.x.redo
        /\ u.x.dest = w.x.dest /\ u.x.leg = w.x.leg
    BY <1>3, GoalUpdated
  <2>2. SameWay(w.x, u.x) /\ w.x \in Searchers /\ u.x \in Searchers
    BY <2>1 DEF SameWay, SameSearch, Worlds
  <2>3. Sound(u.x)
    BY <2>1, <2>2, FlagsChanged DEF SameSearch
  <2> QED
    BY <2>1, <2>2, <2>3 DEF Used, Kept, SameWorld, SameSearch
<1>4. CASE u = Destroyed(w)
  BY <1>4, GivesUp DEF Used, Parked, SameTrip, SameWay
<1>5. CASE u = w
  BY <1>5 DEF Used, Kept, SameWay
<1>6. CASE FindsPlace(w, l)
  BY <1>1, <1>6 DEF SearchedLink
<1>7. CASE ~FindsPlace(w, l)
  BY <1>2, <1>3, <1>4, <1>5, <1>7 DEF SearchedLink
<1> QED
  BY <1>6, <1>7

(* A link told of takes at most one vehicle, and warns; whoever has no way  *)
(* to the park goes on no further.                                          *)
LEMMA LinkUsed ==
  ASSUME NEW w \in Worlds, Sound(w.x), NEW l \in Links, NEW u \in SetLinkUsed(w, l)
  PROVE  Used(w, u) /\ (Warned(w, l) => u.x.redo \/ u.x.phase = "lost") /\ ~CastFails(u.x)
<1>1. CASE StreetSearch(w.x)
  <2> DEFINE y == [w.x EXCEPT !.tried = @ \cup {l}]
             v == [w EXCEPT !.x = y]
  <2>1. w.x \in Searchers
    BY DEF Worlds
  <2>2. /\ y \in Searchers /\ SameWay(w.x, y) /\ y.phase = w.x.phase
        /\ y.searching = w.x.searching /\ y.residential = w.x.residential
    BY <2>1 DEF Searchers, SameWay
  <2>3. u \in SearchedLink(v, l)
    BY <1>1 DEF SetLinkUsed, Worlds
  <2> HIDE DEF y
  <2>4. Sound(y)
    BY <2>1, <2>2, FlagsChanged
  <2>5. v \in Worlds /\ v.x = y /\ SameWorld(w, v)
    BY <2>2, WithX
  <2> HIDE DEF v
  <2>6. Used(v, u) /\ (Kept(v, u) \/ Parked(v, u))
    BY <2>3, <2>4, <2>5, LinkSearched
  <2>7. Used(w, u)
    BY <2>2, <2>5, <2>6 DEF Used, Kept, Parked, SameWorld, SameWay
  <2>8. u.x.street
    BY <1>1, <2>7 DEF Used, SameWay, StreetSearch
  <2> QED
    BY <1>1, <2>7, <2>8 DEF Warned, StreetSearch, CastFails
<1>2. CASE ~StreetSearch(w.x) /\ CastFails(w.x)
  <2> DEFINE y == [w.x EXCEPT !.phase = "lost"]
             v == [w EXCEPT !.x = y]
  <2>1. w.x \in Searchers /\ ~w.x.street
    BY <1>2 DEF Worlds, CastFails
  <2>2. y \in Searchers /\ SameWay(w.x, y) /\ y.phase = "lost"
    BY <2>1 DEF Searchers, SameWay
  <2>3. u = [v EXCEPT !.end = FALSE]
    BY <1>2 DEF SetLinkUsed, Worlds
  <2> HIDE DEF y
  <2>4. Sound(y)
    BY <2>1, <2>2 DEF Sound, StreetSearch, SameWay
  <2>5. v \in Worlds /\ v.x = y /\ SameWorld(w, v)
    BY <2>2, WithX
  <2> HIDE DEF v
  <2>6. u \in Worlds /\ u.x = y /\ u.stock = v.stock /\ u.exits = v.exits
    BY <2>3, <2>5 DEF Worlds
  <2> QED
    BY <2>2, <2>4, <2>5, <2>6 DEF Used, SameWorld, CastFails
<1>3. CASE ~StreetSearch(w.x) /\ ~CastFails(w.x) /\ FullAhead(w, l)
  <2>1. u = Redirected(w)
    BY <1>3 DEF SetLinkUsed
  <2>2. Used(w, u) /\ Kept(w, u) /\ u.x.redo
    BY <2>1, Redirection
  <2> QED
    BY <1>3, <2>2 DEF Used, Kept, SameWay, CastFails
<1>4. CASE ~StreetSearch(w.x) /\ ~CastFails(w.x) /\ ~FullAhead(w, l)
  <2>1. u = w
    BY <1>4 DEF SetLinkUsed
  <2> QED
    BY <1>4, <2>1 DEF Used, Kept, SameWay, Warned, FullAhead
<1> QED
  BY <1>1, <1>2, <1>3, <1>4

(***************************************************************************)
(* A turn.                                                                 *)
(***************************************************************************)
LEMMA WayOn ==
  ASSUME NEW l \in Links, NEW leg \in Seq(Links), EndsAtPark(l, leg), NEW n \in 0 .. Len(leg)
  PROVE  EndsAtPark(IF n = 0 THEN l ELSE leg[n], SubSeq(leg, n + 1, Len(leg)))
<1> DEFINE k == Len(leg)
           m == IF n = 0 THEN l ELSE leg[n]
           rest == SubSeq(leg, n + 1, k)
           way == <<l>> \o leg
           next == <<m>> \o rest
<1>1. k \in Nat /\ \A i \in n + 1 .. k : leg[i] \in Links
  OBVIOUS
<1>2. /\ rest \in Seq(Links) /\ Len(rest) = k - n
      /\ \A i \in 1 .. k - n : rest[i] = leg[n + i]
  <2>1. /\ rest \in Seq(Links) /\ Len(rest) = IF n + 1 <= k THEN k - (n + 1) + 1 ELSE 0
        /\ \A i \in 1 .. k - (n + 1) + 1 : rest[i] = leg[n + 1 + i - 1]
    BY <1>1, SubSeqProperties
  <2>2. k - (n + 1) + 1 = k - n /\ (n + 1 <= k <=> n < k) /\ n <= k
    BY <1>1
  <2>3. \A i \in 1 .. k - n : n + 1 + i - 1 = n + i
    BY <1>1
  <2> HIDE DEF rest, k
  <2>4. Len(rest) = k - n
    BY <1>1, <2>1, <2>2
  <2>5. ASSUME NEW i \in 1 .. k - n PROVE rest[i] = leg[n + i]
    BY <2>1, <2>2, <2>3
  <2> QED
    BY <2>1, <2>4, <2>5
<1>3. m \in Links
  OBVIOUS
<1>4. /\ way \in Seq(Links) /\ Len(way) = k + 1 /\ way[1] = l
      /\ \A i \in 1 .. k : way[i + 1] = leg[i]
  OBVIOUS
<1> HIDE DEF rest, way
<1>5. /\ next \in Seq(Links) /\ Len(next) = k - n + 1 /\ next[1] = m
      /\ \A i \in 1 .. k - n : next[i + 1] = rest[i]
  BY <1>2, <1>3
<1>6. way[k + 1] \in Access /\ (k + 1 > 1 => way[k] \in Approach)
  BY <1>1, <1>4 DEF EndsAtPark, way
<1> HIDE DEF k, next
<1>7. \A i \in 1 .. k - n + 1 : next[i] = way[n + i]
  <2> SUFFICES ASSUME NEW i \in 1 .. k - n + 1 PROVE next[i] = way[n + i]
    OBVIOUS
  <2>1. CASE i = 1
    BY <1>1, <1>4, <1>5, <2>1 DEF k
  <2>2. CASE i # 1
    <3>1. i - 1 \in 1 .. k - n /\ n + (i - 1) \in 1 .. k /\ (i - 1) + 1 = i
          /\ n + (i - 1) + 1 = n + i
      BY <1>1, <2>2
    <3>2. next[(i - 1) + 1] = rest[i - 1] /\ rest[i - 1] = leg[n + (i - 1)]
      BY <1>2, <1>5, <3>1
    <3>3. way[n + (i - 1) + 1] = leg[n + (i - 1)]
      BY <1>4, <3>1
    <3> QED
      BY <3>1, <3>2, <3>3
  <2> QED
    BY <2>1, <2>2
<1>8. next[Len(next)] \in Access
  <2>1. k - n + 1 \in 1 .. k - n + 1 /\ n + (k - n + 1) = k + 1
    BY <1>1 DEF k
  <2> QED
    BY <1>5, <1>6, <1>7, <2>1
<1>9. Len(next) > 1 => next[Len(next) - 1] \in Approach
  <2> SUFFICES ASSUME Len(next) > 1 PROVE next[Len(next) - 1] \in Approach
    OBVIOUS
  <2>1. /\ Len(next) - 1 = k - n /\ k - n \in 1 .. k - n + 1 /\ n + (k - n) = k /\ k + 1 > 1
    BY <1>1, <1>5 DEF k
  <2> QED
    BY <1>6, <1>7, <2>1
<1> QED
  BY <1>8, <1>9 DEF EndsAtPark, next, rest, k

(* Where the vehicle is in the step, when its leg goes on to the park.      *)
AtEnd(x, n) == IF x.leg = <<x.link>> THEN n = 0 ELSE n = Len(x.leg)

(* A move along a leg keeps the flags.                                     *)
LEMMA MovedFacts ==
  ASSUME NEW x \in Searchers, Sound(x), NEW n \in 0 .. Len(x.leg),
         x.leg = <<x.link>> => n = 0, n > 0 => ~CastFails(x)
  PROVE  LET y == Moved(x, n)
         IN  /\ y \in Searchers /\ Sound(y) /\ y.phase = x.phase /\ y.street = x.street
             /\ y.redo = x.redo /\ y.dest = x.dest
<1> DEFINE m == IF n = 0 THEN x.link ELSE x.leg[n]
           rest == SubSeq(x.leg, n + 1, Len(x.leg))
           y == Moved(x, n)
<1>1. /\ x.leg \in Seq(Links) /\ x.link \in Links
  BY DEF Searchers
<1>2. m \in Links /\ n \in Nat /\ Len(x.leg) \in Nat
  BY <1>1
<1>3. rest \in Seq(Links)
  <2>1. \A i \in n + 1 .. Len(x.leg) : x.leg[i] \in Links
    BY <1>1
  <2> QED
    BY <1>2, <2>1, SubSeqProperties
<1>4. y = [x EXCEPT !.link = m, !.leg = rest]
  BY DEF Moved, Searchers
<1>5. n = 0 => m = x.link /\ rest = x.leg
  <2> SUFFICES ASSUME n = 0 PROVE rest = x.leg
    OBVIOUS
  <2>1. rest = SubSeq(x.leg, 1, Len(x.leg))
    OBVIOUS
  <2> HIDE DEF rest
  <2> QED
    BY <1>1, <2>1, SubSeqFull
<1>6. EndsAtPark(x.link, x.leg) => EndsAtPark(m, rest)
  BY <1>1, WayOn
<1>7. x.leg = <<>> => rest = <<>> /\ n = 0
  <2> SUFFICES ASSUME x.leg = <<>> PROVE rest = <<>> /\ n = 0
    OBVIOUS
  <2>1. Len(x.leg) = 0
    BY EmptySeq
  <2>2. n = 0
    BY <2>1
  <2> QED
    BY <1>5, <2>2
<1> HIDE DEF m, rest, y
<1>8. /\ y \in Searchers /\ y.phase = x.phase /\ y.street = x.street /\ y.redo = x.redo
      /\ y.dest = x.dest /\ y.residential = x.residential /\ y.searching = x.searching
      /\ y.link = m /\ y.leg = rest
  BY <1>2, <1>3, <1>4 DEF Searchers
<1>9. ParkAhead(x.link, x.leg) => ParkAhead(m, rest)
  BY <1>5, <1>6 DEF ParkAhead
<1>10. Sound(y)
  <2>1. y.phase = "zone" /\ ~y.street => y.dest = Park \/ NoWayToPark(y.link)
    <3>1. CASE n = 0
      BY <1>5, <1>8, <3>1 DEF Sound
    <3>2. CASE n > 0
      BY <1>8, <3>2 DEF CastFails
    <3> QED
      BY <1>2, <3>1, <3>2
  <2> QED
    BY <1>7, <1>8, <1>9, <2>1 DEF Sound, StreetSearch
<1> QED
  BY <1>8, <1>10 DEF y

(* A set of naturals that is not empty has a smallest element.             *)
LEMMA SmallestOfSet ==
  ASSUME NEW S, S \subseteq Nat, S # {}
  PROVE  \E i \in S : \A j \in S : i <= j
<1> DEFINE R == {p \in Nat \X Nat : p[1] < p[2]}
<1>1. IsWellFoundedOn(R, Nat)
  BY NatLessThanWellFounded DEF OpToRel
<1> HIDE DEF R
<1>2. PICK i \in S : \A j \in S : <<j, i>> \notin R
  BY <1>1, WFMin
<1>3. ASSUME NEW j \in S PROVE i <= j
  <2>1. <<j, i>> \in R <=> j < i
    BY DEF R
  <2> QED BY <1>2, <2>1
<1> QED BY <1>3


(***************************************************************************)
(* The inductive invariant.                                                *)
(***************************************************************************)
OnNetwork(v) == veh[v].phase \in {"coming", "zone"}

Moves == {m \in [links : 0 .. MaxCrossed, told : Nat, end : BOOLEAN] : m.told <= m.links}

(* In a turn: a leg is ended by a redirection or where it ends, who has no  *)
(* way to the park has not moved on, and the check of a full park was not   *)
(* missed.                                                                  *)
Turning ==
  LET x == veh[turn]
  IN  /\ x.phase \in {"coming", "zone", "gone", "lost"}
      /\ move.links \in 0 .. Len(x.leg)
      /\ x.leg = <<x.link>> => move.links = 0
      /\ x.phase = "zone" =>
           /\ move.end => x.redo \/ AtEnd(x, move.links)
           /\ move.told > 0 => ~CastFails(x)
           /\ ~x.street /\ stock[Park] >= StockMax =>
                \A i \in 1 .. move.told : x.leg[i] \in Approach => x.redo

IInv ==
  /\ veh \in [Numbers -> Searchers] /\ \A v \in Numbers : Sound(veh[v])
  /\ stock \in Stocks /\ stock[Park] <= StockMax + announced
  /\ waiting \in Nat /\ exits \in Nat /\ announced \in Nat
  /\ exits <= announced /\ waiting + exits <= MaxWaiting + announced
  /\ turn \in 0 .. Vehicles /\ move \in Moves /\ (turn > 0 => Turning)
  /\ simplified \in BOOLEAN

(* The invariant holds at first.                                           *)
LEMMA InitInv == Init => IInv
<1> SUFFICES ASSUME Init PROVE IInv
  OBVIOUS
<1>1. /\ veh = [v \in Numbers |-> Coming] /\ stock \in [Links \cup {Park} -> {0, 1}]
      /\ \A l \in Links : stock[l] <= Capacity[l]
      /\ stock[Park] <= StockMax
      /\ waiting = 0 /\ exits = 0 /\ announced = 0 /\ turn = 0 /\ move = NoMove
      /\ simplified \in BOOLEAN
  BY DEF Init
<1>2. stock \in Stocks
  <2>1. stock \in [Links \cup {Park} -> Nat]
    BY <1>1
  <2> QED
    BY <1>1, <2>1 DEF Stocks
<1>3. veh \in [Numbers -> Searchers] /\ \A v \in Numbers : Sound(veh[v])
  BY <1>1, Constants
<1>4. Vehicles \in Nat /\ MaxWaiting \in Nat /\ StockMax \in Nat /\ MaxCrossed \in Nat
  BY ParkingAssumption
<1>5. move \in Moves
  BY <1>1, <1>4 DEF Moves, NoMove
<1> QED
  BY <1>1, <1>2, <1>3, <1>4, <1>5 DEF IInv

(* The next vehicle of a step.                                              *)
LEMMA NextTurnFacts ==
  ASSUME NEW t \in Nat
  PROVE  /\ NextTurn(t) \in 0 .. Vehicles
         /\ NextTurn(t) > 0 => NextTurn(t) > t /\ OnNetwork(NextTurn(t))
<1> DEFINE left == {v \in Numbers : v > t /\ veh[v].phase \in {"coming", "zone"}}
<1>1. Vehicles \in Nat
  BY ParkingAssumption
<1>2. CASE left = {}
  <2>1. NextTurn(t) = 0
    BY <1>2 DEF NextTurn
  <2> QED
    BY <1>1, <2>1
<1>3. CASE left # {}
  <2>1. left \subseteq Nat
    BY <1>1 DEF Numbers
  <2>2. \E i \in left : \A j \in left : i <= j
    <3> HIDE DEF left
    <3> QED
      BY <1>3, <2>1, SmallestOfSet
  <2>3. NextTurn(t) = Min(left)
    BY <1>3 DEF NextTurn
  <2>4. Min(left) \in left
    <3> HIDE DEF left
    <3> QED
      BY <2>2 DEF Min
  <2> QED
    BY <1>1, <2>3, <2>4 DEF Numbers, OnNetwork
<1> QED
  BY <1>2, <1>3

(* The distance covered is counted.                                        *)
LEMMA DistanceCounted ==
  ASSUME NEW x \in Searchers, NEW n \in Nat
  PROVE  LET y == IncDistanceParcourue(x, n)
         IN  /\ y \in Searchers /\ y.phase = x.phase /\ y.link = x.link
             /\ y.residential = x.residential /\ y.searching = x.searching /\ SameTrip(x, y)
<1> DEFINE g == IF x.searching /\ x.goal # Infinity THEN Max({x.goal - n, 0}) ELSE x.goal
           y == IncDistanceParcourue(x, n)
<1>1. x.goal \in 0 .. Infinity /\ Infinity \in Nat
  BY ParkingAssumption DEF Searchers, Infinity
<1>2. g \in 0 .. Infinity
  <2> DEFINE a == x.goal - n
  <2>1. a \in Int /\ 0 \in Int
    BY <1>1
  <2>2. Max({x.goal - n, 0}) = IF x.goal - n >= 0 THEN x.goal - n ELSE 0
    <3>1. Max({a, 0}) = IF a >= 0 THEN a ELSE 0
      <4> HIDE DEF a
      <4> QED
        BY <2>1, MinMax
    <3> QED
      BY <3>1
  <2> QED
    BY <1>1, <2>2
<1>3. y = [x EXCEPT !.goal = g]
  BY DEF IncDistanceParcourue, Searchers
<1> HIDE DEF g, y
<1>4. /\ y \in Searchers /\ y.phase = x.phase /\ y.link = x.link
      /\ y.residential = x.residential /\ y.searching = x.searching /\ SameTrip(x, y)
  BY <1>2, <1>3 DEF Searchers, SameTrip
<1> QED
  BY <1>4 DEF y

(* A turn begins with a move along the leg.                                *)
LEMMA TurnTaken ==
  ASSUME NEW f \in [Numbers -> Searchers], \A v \in Numbers : Sound(f[v]),
         NEW t \in 0 .. Vehicles, t > 0 => f[t].phase \in {"coming", "zone"},
         TakeTurn(f, t)
  PROVE  /\ veh' \in [Numbers -> Searchers]
         /\ \A v \in Numbers : Sound(veh'[v]) /\ veh'[v].phase = f[v].phase
         /\ turn' = t /\ move' \in Moves /\ (turn' > 0 => Turning')
<1>1. MaxCrossed \in Nat /\ Vehicles \in Nat
  BY ParkingAssumption
<1>2. CASE t = 0
  <2>1. veh' = f /\ turn' = 0 /\ move' = NoMove
    BY <1>2 DEF TakeTurn
  <2>2. move' \in Moves
    BY <1>1, <2>1 DEF Moves, NoMove
  <2> QED
    BY <1>2, <2>1, <2>2
<1>3. CASE t > 0
  <2>1. PICK n \in 0 .. Min({MaxCrossed, Len(f[t].leg)}), ends \in BOOLEAN :
          /\ CanMove(f[t], n, ends)
          /\ veh'  = [f EXCEPT ![t] = IncDistanceParcourue(@, n)]
          /\ move' = [links |-> n, told |-> 0, end |-> ends]
    <3>1. t # 0
      BY <1>1, <1>3
    <3> QED
      BY <3>1 DEF TakeTurn
  <2> DEFINE x == f[t]
             y == IncDistanceParcourue(x, n)
  <2>2. t \in Numbers /\ x \in Searchers /\ x.leg \in Seq(Links) /\ Sound(x)
    BY <1>1, <1>3 DEF Numbers, Searchers
  <2>3. n \in 0 .. Len(x.leg) /\ n <= MaxCrossed /\ n \in Nat
    <3> DEFINE k == Len(x.leg)
               c == MaxCrossed
    <3>1. k \in Nat /\ c \in Nat
      BY <1>1, <2>2
    <3>2. Min({c, k}) = IF c <= k THEN c ELSE k
      <4> HIDE DEF c, k
      <4> QED
        BY <3>1, MinMax
    <3>3. n \in 0 .. Min({c, k})
      OBVIOUS
    <3> HIDE DEF c, k
    <3>4. n \in 0 .. k /\ n <= c
      BY <3>1, <3>2, <3>3
    <3> QED
      BY <3>1, <3>4 DEF k, c
  <2>4. /\ y \in Searchers /\ y.phase = x.phase /\ y.link = x.link
        /\ y.residential = x.residential /\ y.searching = x.searching /\ SameTrip(x, y)
    <3> HIDE DEF x
    <3> QED
      BY <2>2, <2>3, DistanceCounted
  <2>5. veh' = [f EXCEPT ![t] = y] /\ turn' = t
    BY <2>1 DEF TakeTurn
  <2>6. CanMove(x, n, ends) /\ x.phase \in {"coming", "zone"}
    BY <1>3, <2>1
  <2> HIDE DEF x, y
  <2>7. Sound(y)
    BY <2>2, <2>4, FlagsChanged DEF SameTrip, SameWay
  <2>8. veh' \in [Numbers -> Searchers] /\ veh'[t] = y
    BY <2>2, <2>4, <2>5
  <2>9. \A v \in Numbers : Sound(veh'[v]) /\ veh'[v].phase = f[v].phase
    BY <2>2, <2>4, <2>5, <2>7 DEF x
  <2>10. move' \in Moves
    BY <1>1, <2>1, <2>3 DEF Moves
  <2>11. Turning'
    <3>1. y.leg = x.leg /\ y.link = x.link
      BY <2>4 DEF SameTrip
    <3>2. move'.links = n /\ move'.told = 0 /\ (move'.end => ends)
      BY <2>1
    <3>3. 1 .. move'.told = {}
      BY <3>2
    <3>4. /\ y.phase \in {"coming", "zone"} /\ n \in 0 .. Len(y.leg)
          /\ y.leg = <<y.link>> => n = 0
          /\ ends => AtEnd(y, n)
      BY <2>3, <2>4, <2>6, <3>1 DEF CanMove, AtEnd
    <3>5. y.phase = "zone" =>
            /\ move'.end => y.redo \/ AtEnd(y, move'.links)
            /\ move'.told > 0 => ~CastFails(y)
            /\ ~y.street /\ stock'[Park] >= StockMax =>
                 \A i \in 1 .. move'.told : y.leg[i] \in Approach => y.redo
      BY <3>2, <3>3, <3>4
    <3>6. turn' = t /\ veh'[turn'] = y
      BY <2>5, <2>8
    <3> QED
      BY <3>2, <3>4, <3>5, <3>6 DEF Turning
  <2> QED
    BY <2>5, <2>8, <2>9, <2>10, <2>11
<1> QED
  BY <1>2, <1>3

(* The end of a leg at the park was seen coming.                            *)
LEMMA CheckPassed ==
  ASSUME IInv, turn > 0, veh[turn].phase = "zone", veh[turn].dest = Park, ~veh[turn].street,
         ~veh[turn].redo, move.end, move.told = move.links, stock[Park] >= StockMax
  PROVE  veh[turn].link \in Approach \cup Access
<1> DEFINE x == veh[turn]
           k == Len(x.leg)
           way == <<x.link>> \o x.leg
<1>1. x \in Searchers /\ Sound(x) /\ turn \in Numbers
  <2>1. Vehicles \in Nat
    BY ParkingAssumption
  <2> QED
    BY <2>1 DEF IInv, Numbers
<1>2. /\ x.leg \in Seq(Links) /\ x.link \in Links /\ k \in Nat
      /\ Len(way) = k + 1 /\ way[1] = x.link /\ \A i \in 1 .. k : way[i + 1] = x.leg[i]
  <2>1. x.leg \in Seq(Links) /\ x.link \in Links
    BY <1>1 DEF Searchers
  <2> HIDE DEF x
  <2> QED
    BY <2>1
<1>3. AtEnd(x, move.links) /\ \A i \in 1 .. move.links : x.leg[i] \notin Approach
  BY DEF IInv, Turning
<1>4. ParkAhead(x.link, x.leg)
  BY <1>1 DEF Sound
<1> HIDE DEF x
<1>5. CASE x.leg = <<x.link>> /\ x.link \in Access
  BY <1>5 DEF x
<1>6. CASE EndsAtPark(x.link, x.leg)
  <2>1. way[Len(way)] \in Access /\ (Len(way) > 1 => way[Len(way) - 1] \in Approach)
    BY <1>6 DEF EndsAtPark
  <2> HIDE DEF way
  <2>2. CASE k = 0
    <3> HIDE DEF k
    <3> QED
      BY <1>2, <2>1, <2>2 DEF x
  <2>3. CASE k = 1
    <3> HIDE DEF k
    <3> QED
      BY <1>2, <2>1, <2>3 DEF x
  <2>4. CASE k > 1
    <3>1. x.leg # <<x.link>>
      <4> SUFFICES ASSUME x.leg = <<x.link>> PROVE FALSE
        OBVIOUS
      <4>1. k = 1
        BY <1>2
      <4> QED
        BY <2>4, <4>1
    <3>2. move.links = k
      BY <1>3, <3>1 DEF AtEnd
    <3> HIDE DEF k
    <3>3. k - 1 \in 1 .. move.links /\ k - 1 \in 1 .. k /\ Len(way) - 1 = (k - 1) + 1
          /\ Len(way) > 1
      BY <1>2, <2>4, <3>2
    <3>4. way[(k - 1) + 1] = x.leg[k - 1]
      BY <1>2, <3>3
    <3>5. x.leg[k - 1] \in Approach
      BY <2>1, <3>3, <3>4
    <3> QED
      BY <1>3, <3>3, <3>5
  <2>5. k = 0 \/ k = 1 \/ k > 1
    <3> HIDE DEF k
    <3> QED
      BY <1>2
  <2> QED
    BY <2>2, <2>3, <2>4, <2>5
<1> QED
  BY <1>4, <1>5, <1>6 DEF ParkAhead

(***************************************************************************)
(* The steps.                                                              *)
(***************************************************************************)
(* What the action properties say of a step.                                *)
OneExit == /\ announced' \in {announced, announced + 1}
           /\ Ends => announced' # announced
           /\ announced' # announced => Ends \/ EndsAgain
PastCheck == stock'[Park] > StockMax /\ stock'[Park] > stock[Park] =>
               veh[turn].link \in Approach \cup Access
OneTaken == Fuller # {} =>
              /\ \E l \in DOMAIN stock : Fuller = {l} /\ stock'[l] = stock[l] + 1
              /\ announced' = announced + 1 /\ veh'[turn].phase = "gone"

StepFacts == OneExit /\ PastCheck /\ OneTaken

(* Counters after a step of a turn.                                        *)
LEMMA CountersKept ==
  ASSUME IInv, NEW one \in {0, 1}, exits' = exits + one,
         announced' = announced + (exits' - exits), waiting' = waiting,
         stock' \in Stocks, stock'[Park] <= stock[Park] + one
  PROVE  /\ waiting' \in Nat /\ exits' \in Nat /\ announced' \in Nat
         /\ exits' <= announced' /\ waiting' + exits' <= MaxWaiting + announced'
         /\ stock'[Park] <= StockMax + announced' /\ announced' = announced + one
<1>1. /\ MaxWaiting \in Nat /\ StockMax \in Nat /\ stock[Park] \in Nat /\ stock'[Park] \in Nat
  BY ParkingAssumption DEF IInv, Stocks
<1>2. /\ announced \in Nat /\ exits \in Nat /\ waiting \in Nat /\ exits <= announced
      /\ waiting + exits <= MaxWaiting + announced /\ stock[Park] <= StockMax + announced
  BY DEF IInv
<1>3. announced' = announced + one
  BY <1>2
<1> QED
  BY <1>1, <1>2, <1>3

(* One vehicle more somewhere is one place taken there.                    *)
LEMMA PlaceTaken ==
  ASSUME stock \in Stocks, NEW S, S \subseteq Links \cup {Park}, OneMore(stock, stock', S)
  PROVE  /\ \E l \in DOMAIN stock : Fuller = {l} /\ stock'[l] = stock[l] + 1
         /\ stock'[Park] <= stock[Park] + 1
<1>1. DOMAIN stock = Links \cup {Park} /\ \A l \in Links \cup {Park} : stock[l] \in Nat
  BY DEF Stocks
<1>2. PICK l \in S : stock' = [stock EXCEPT ![l] = @ + 1]
  BY DEF OneMore
<1>3. l \in DOMAIN stock /\ stock'[l] = stock[l] + 1
  BY <1>1, <1>2
<1>4. \A k \in DOMAIN stock : k # l => stock'[k] = stock[k]
  BY <1>1, <1>2
<1>5. Fuller = {l}
  BY <1>1, <1>3, <1>4 DEF Fuller
<1> QED
  BY <1>1, <1>3, <1>4, <1>5

(* Where no place is taken.                                                 *)
LEMMA NoPlaceTaken ==
  ASSUME stock \in Stocks, stock' = stock
  PROVE  PastCheck /\ OneTaken
<1>1. DOMAIN stock = Links \cup {Park} /\ \A l \in Links \cup {Park} : ~(stock[l] > stock[l])
  BY DEF Stocks
<1> QED
  BY <1>1 DEF PastCheck, OneTaken, Fuller

(* The fleet is told of a link.                                            *)
LEMMA LinkInv ==
  ASSUME IInv, AddTuyauParcouru
  PROVE  IInv' /\ StepFacts
<1> DEFINE x == veh[turn]
           l == x.leg[move.told + 1]
           w == World(x, stock, exits, move.end)
<1>1. PICK u \in SetLinkUsed(w, l) :
        /\ veh'  = [veh EXCEPT ![turn] = u.x]
        /\ move' = [move EXCEPT !.told = @ + 1, !.end = u.end]
        /\ Results(u)
  BY DEF AddTuyauParcouru
<1>2. /\ turn \in Numbers /\ turn > 0 /\ turn' = turn /\ ~AllTold /\ Turning
      /\ Vehicles \in Nat
  <2>1. Vehicles \in Nat
    BY ParkingAssumption
  <2> QED
    BY <2>1 DEF AddTuyauParcouru, IInv, Numbers
<1>3. /\ stock' = u.stock /\ exits' = u.exits /\ announced' = announced + (exits' - exits)
      /\ waiting' = waiting /\ simplified' = simplified
  BY <1>1 DEF Results
<1>4. x \in Searchers /\ Sound(x) /\ x.leg \in Seq(Links)
  BY <1>2 DEF IInv, Searchers
<1>5. /\ move \in Moves /\ move.links \in Nat /\ move.told \in Nat /\ move.end \in BOOLEAN
      /\ move.told <= move.links /\ move.links <= Len(x.leg) /\ move.links <= MaxCrossed
      /\ MaxCrossed \in Nat
  <2>1. MaxCrossed \in Nat /\ Len(x.leg) \in Nat
    BY <1>4, ParkingAssumption
  <2>2. move \in Moves /\ move.links \in 0 .. Len(x.leg)
    BY <1>2 DEF IInv, Turning
  <2> HIDE DEF x
  <2> QED
    BY <2>1, <2>2 DEF Moves
<1>6. move.told < move.links /\ move.told + 1 \in 1 .. Len(x.leg)
  <2>1. Len(x.leg) \in Nat
    BY <1>4
  <2>2. move.told # move.links
    BY <1>2 DEF AllTold
  <2> HIDE DEF x
  <2> QED
    BY <1>5, <2>1, <2>2
<1>7. l \in Links
  <2> HIDE DEF x
  <2> QED
    BY <1>4, <1>6
<1>8. w \in Worlds /\ w.x = x /\ w.stock = stock /\ w.exits = exits /\ w.end = move.end
  <2> HIDE DEF x
  <2> QED
    BY <1>4, <1>5 DEF World, Worlds, IInv
<1> HIDE DEF w
<1>9. Used(w, u) /\ (Warned(w, l) => u.x.redo \/ u.x.phase = "lost") /\ ~CastFails(u.x)
  <2> HIDE DEF l, x
  <2> QED
    BY <1>1, <1>4, <1>7, <1>8, LinkUsed
<1>10. /\ u.x \in Searchers /\ Sound(u.x) /\ u.stock \in Stocks /\ u.end \in BOOLEAN
       /\ SameWay(x, u.x) /\ u.stock[Park] = stock[Park]
  BY <1>8, <1>9 DEF Used, Worlds
<1>11. /\ veh' \in [Numbers -> Searchers] /\ \A v \in Numbers : Sound(veh'[v])
       /\ veh'[turn] = u.x /\ \A v \in Numbers : v # turn => veh'[v] = veh[v]
  BY <1>1, <1>2, <1>10 DEF IInv
<1>12. /\ move'.links = move.links /\ move'.told = move.told + 1 /\ move'.end = u.end
       /\ move' \in Moves
  <2>1. move \in [links : 0 .. MaxCrossed, told : Nat, end : BOOLEAN]
    BY <1>5 DEF Moves
  <2>2. /\ move'.links = move.links /\ move'.told = move.told + 1 /\ move'.end = u.end
        /\ move' \in [links : 0 .. MaxCrossed, told : Nat, end : BOOLEAN]
    <3>1. move.told + 1 \in Nat
      BY <1>5
    <3> DEFINE next == move.told + 1
    <3>2. move' = [move EXCEPT !.told = next, !.end = u.end]
      BY <1>1
    <3> HIDE DEF next
    <3>3. /\ move'.links = move.links /\ move'.told = next /\ move'.end = u.end
          /\ (next \in Nat => move' \in [links : 0 .. MaxCrossed, told : Nat, end : BOOLEAN])
      BY <1>10, <2>1, <3>2
    <3> QED
      BY <3>1, <3>3 DEF next
  <2> QED
    BY <1>5, <1>6, <2>2 DEF Moves
<1>13. Turning'
  <2>1. u.x.link = x.link /\ u.x.leg = x.leg /\ u.x.street = x.street /\ (x.redo => u.x.redo)
    BY <1>10 DEF SameWay
  <2>2. u.x.phase \in {"coming", "zone", "gone", "lost"}
    BY <1>2, <1>8, <1>9 DEF Turning, Used, Kept, Parked
  <2>3. ASSUME u.x.phase = "zone"
        PROVE  /\ u.end => u.x.redo \/ AtEnd(u.x, move.links)
               /\ ~u.x.street /\ stock'[Park] >= StockMax =>
                    \A i \in 1 .. move.told + 1 : u.x.leg[i] \in Approach => u.x.redo
    <3>1. Kept(w, u) /\ x.phase = "zone"
      BY <1>8, <1>9, <2>3 DEF Used, Kept, Parked
    <3>2. u.end => u.x.redo \/ AtEnd(u.x, move.links)
      BY <1>2, <1>8, <2>1, <3>1 DEF Kept, Turning, AtEnd
    <3>3. ASSUME ~u.x.street, stock'[Park] >= StockMax, NEW i \in 1 .. move.told + 1,
                 u.x.leg[i] \in Approach
          PROVE  u.x.redo
      <4>1. ~x.street /\ stock[Park] >= StockMax /\ x.leg[i] \in Approach
        BY <1>3, <1>10, <2>1, <3>3
      <4>2. CASE i = move.told + 1
        <5>1. Warned(w, l)
          BY <1>8, <3>1, <4>1, <4>2 DEF Warned
        <5> QED
          BY <1>9, <2>3, <5>1
      <4>3. CASE i \in 1 .. move.told
        BY <1>2, <2>1, <3>1, <4>1, <4>3 DEF Turning
      <4> QED
        BY <1>5, <4>2, <4>3
    <3> QED
      BY <3>2, <3>3
  <2>4. veh'[turn'] = u.x /\ move'.links \in 0 .. Len(u.x.leg)
        /\ (u.x.leg = <<u.x.link>> => move'.links = 0)
    BY <1>2, <1>11, <1>12, <2>1 DEF Turning
  <2> HIDE DEF x, l
  <2> QED
    BY <1>9, <1>12, <2>2, <2>3, <2>4 DEF Turning
<1>14. CASE Parked(w, u)
  <2>1. exits' = exits + 1 /\ u.x.phase = "gone"
        /\ (stock' = stock \/ OneMore(stock, stock', Links))
    BY <1>3, <1>8, <1>14 DEF Parked
  <2>2. stock' \in Stocks /\ stock'[Park] = stock[Park] /\ stock[Park] \in Nat
    BY <1>3, <1>10 DEF Stocks
  <2>3. stock'[Park] <= stock[Park] + 1 /\ ~(stock'[Park] > stock[Park])
    BY <2>2
  <2>4. /\ waiting' \in Nat /\ exits' \in Nat /\ announced' \in Nat
        /\ exits' <= announced' /\ waiting' + exits' <= MaxWaiting + announced'
        /\ stock'[Park] <= StockMax + announced' /\ announced' = announced + 1
    BY <1>3, <2>1, <2>2, <2>3, CountersKept
  <2>5. IInv'
    BY <1>2, <1>3, <1>11, <1>12, <1>13, <2>2, <2>4 DEF IInv
  <2>6. OneExit
    <3>1. announced \in Nat
      BY DEF IInv
    <3>2. Ends \/ EndsAgain
      <4>1. x.phase = "gone" => EndsAgain
        <5>1. x.phase = "gone" => move.told + 1 # move.links
          BY <1>2 DEF AllTold
        <5> HIDE DEF x
        <5> QED
          BY <1>2, <1>5, <1>6, <5>1 DEF EndsAgain, x
      <4>2. x.phase # "gone" => Ends
        BY <1>2, <1>11, <2>1 DEF Ends
      <4> QED
        BY <4>1, <4>2
    <3> QED
      BY <2>4, <3>1, <3>2 DEF OneExit
  <2>7. PastCheck
    BY <2>3 DEF PastCheck
  <2>8. OneTaken
    <3>1. CASE stock' = stock
      BY <3>1, NoPlaceTaken DEF IInv
    <3>2. CASE OneMore(stock, stock', Links)
      <4>1. \E s \in DOMAIN stock : Fuller = {s} /\ stock'[s] = stock[s] + 1
        BY <3>2, PlaceTaken DEF IInv
      <4> QED
        BY <1>11, <2>1, <2>4, <4>1 DEF OneTaken
    <3> QED
      BY <2>1, <3>1, <3>2
  <2> QED
    BY <2>5, <2>6, <2>7, <2>8 DEF StepFacts
<1>15. CASE u.stock = w.stock /\ u.exits = w.exits /\ (u.x.phase = w.x.phase \/ u.x.phase = "lost")
  <2>1. stock' = stock /\ exits' = exits /\ stock[Park] \in Nat /\ exits \in Nat
    BY <1>3, <1>8, <1>15 DEF IInv, Stocks
  <2>2. exits' = exits + 0 /\ stock' \in Stocks /\ stock'[Park] <= stock[Park] + 0
    BY <2>1 DEF IInv
  <2>3. /\ waiting' \in Nat /\ exits' \in Nat /\ announced' \in Nat
        /\ exits' <= announced' /\ waiting' + exits' <= MaxWaiting + announced'
        /\ stock'[Park] <= StockMax + announced' /\ announced' = announced + 0
    BY <1>3, <2>2, CountersKept
  <2>4. IInv'
    BY <1>2, <1>3, <1>11, <1>12, <1>13, <2>2, <2>3 DEF IInv
  <2>5. announced' = announced
    BY <2>3 DEF IInv
  <2>6. ~Ends
    BY <1>8, <1>11, <1>15 DEF Ends
  <2> QED
    BY <2>1, <2>4, <2>5, <2>6, NoPlaceTaken DEF StepFacts, OneExit, IInv
<1> QED
  BY <1>9, <1>14, <1>15 DEF Used, Kept

(* How a turn may end: nobody leaves, or somebody gives up, or the park     *)
(* takes one.                                                               *)
Leaves(u) == u.exits = exits + 1 /\ u.x.phase = "gone" /\ veh[turn].phase # "gone"

EndedTurn(u) ==
  /\ u.x \in Searchers /\ Sound(u.x)
  /\ \/ /\ u.stock = stock /\ u.exits = exits
        /\ u.x.phase = "gone" => veh[turn].phase = "gone"
     \/ u.stock = stock /\ Leaves(u)
     \/ /\ u.stock = [stock EXCEPT ![Park] = @ + 1] /\ Leaves(u)
        /\ stock[Park] >= StockMax => veh[turn].link \in Approach \cup Access

LEMMA EndFacts ==
  ASSUME IInv, turn > 0, AllTold,
         NEW u \in LegEnded(World(Moved(veh[turn], move.links), stock, exits, move.end))
  PROVE  EndedTurn(u)
<1> DEFINE x == veh[turn]
           n == move.links
           y == Moved(x, n)
           w == World(y, stock, exits, move.end)
<1>1. turn \in Numbers /\ Turning /\ x \in Searchers /\ Sound(x)
  <2>1. Vehicles \in Nat
    BY ParkingAssumption
  <2> QED
    BY <2>1 DEF IInv, Numbers
<1>2. /\ n \in 0 .. Len(x.leg) /\ (x.leg = <<x.link>> => n = 0) /\ move.told \in Nat
      /\ n \in Nat /\ move.end \in BOOLEAN
  <2>1. n \in 0 .. Len(x.leg) /\ (x.leg = <<x.link>> => n = 0) /\ move.told \in Nat
        /\ move.end \in BOOLEAN
    BY <1>1 DEF Turning, IInv, Moves
  <2> QED
    BY <2>1
<1>3. x.phase # "gone" => move.told = n
  BY DEF AllTold
<1>4. n > 0 => ~CastFails(x)
  BY <1>1, <1>2, <1>3 DEF Turning, CastFails
<1>5. /\ y \in Searchers /\ Sound(y) /\ y.phase = x.phase /\ y.street = x.street
      /\ y.redo = x.redo /\ y.dest = x.dest
  <2> HIDE DEF x, n
  <2> QED
    BY <1>1, <1>2, <1>4, MovedFacts
<1> HIDE DEF y
<1>6. w \in Worlds /\ w.x = y /\ w.stock = stock /\ w.exits = exits /\ w.end = move.end
  BY <1>2, <1>5 DEF World, Worlds, IInv
<1> HIDE DEF w
<1>7. u \in LegEnded(w)
  BY DEF w, y
<1>8. CASE x.phase = "gone"
  <2>1. u = [w EXCEPT !.x = Gone]
    BY <1>5, <1>6, <1>7, <1>8 DEF LegEnded
  <2>2. u.x = Gone /\ SameWorld(w, u)
    BY <1>6, <2>1, Constants, WithX
  <2> QED
    BY <1>6, <1>8, <2>2, Constants DEF EndedTurn, SameWorld
<1>9. CASE x.phase = "lost"
  <2>1. u = [w EXCEPT !.x = Lost]
    BY <1>5, <1>6, <1>7, <1>9 DEF LegEnded
  <2>2. u.x = Lost /\ SameWorld(w, u)
    BY <1>6, <2>1, Constants, WithX
  <2> QED
    BY <1>6, <2>2, Constants DEF EndedTurn, SameWorld
<1>10. CASE x.phase \in {"coming", "zone"} /\ ~move.end
  <2>1. u = w
    BY <1>5, <1>6, <1>7, <1>10 DEF LegEnded
  <2> QED
    BY <1>5, <1>6, <1>10, <2>1 DEF EndedTurn
<1>11. CASE x.phase \in {"coming", "zone"} /\ move.end
  <2>1. u \in OnCurrentLegFinished(w)
    BY <1>5, <1>6, <1>7, <1>11 DEF LegEnded
  <2>2. Ended(w, u)
    BY <1>5, <1>6, <1>11, <2>1, LegFinished
  <2>3. u.x \in Searchers
    BY <2>2 DEF Ended, Worlds
  <2>4. CASE u.stock = stock
    BY <1>6, <1>11, <2>2, <2>3, <2>4 DEF EndedTurn, Ended, Leaves
  <2>5. CASE u.stock # stock
    <3>1. /\ u.stock = [stock EXCEPT ![Park] = @ + 1] /\ Leaves(u)
          /\ x.phase = "zone" /\ x.dest = Park /\ ~x.street /\ ~x.redo
      BY <1>5, <1>6, <1>11, <2>2, <2>5 DEF Ended, Leaves
    <3>2. stock[Park] >= StockMax => x.link \in Approach \cup Access
      BY <1>3, <1>11, <3>1, CheckPassed
    <3> QED
      BY <2>2, <2>3, <3>1, <3>2 DEF EndedTurn, Ended
  <2> QED
    BY <2>4, <2>5
<1> QED
  BY <1>1, <1>8, <1>9, <1>10, <1>11 DEF Turning

(* The turn goes to the next vehicle.                                      *)
LEMMA TurnInv ==
  ASSUME IInv, EndTurn
  PROVE  IInv' /\ StepFacts
<1>1. PICK u \in LegEnded(World(Moved(veh[turn], move.links), stock, exits, move.end)) :
        TakeTurn([veh EXCEPT ![turn] = u.x], NextTurn(turn)) /\ Results(u)
  BY DEF EndTurn
<1>2. turn \in Numbers /\ turn > 0 /\ turn \in Nat /\ AllTold /\ Vehicles \in Nat
  <2>1. Vehicles \in Nat
    BY ParkingAssumption
  <2> QED
    BY <2>1 DEF EndTurn, IInv, Numbers
<1>3. EndedTurn(u)
  BY <1>1, <1>2, EndFacts
<1>4. /\ stock' = u.stock /\ exits' = u.exits /\ announced' = announced + (exits' - exits)
      /\ waiting' = waiting /\ simplified' = simplified
  BY <1>1 DEF Results
<1> DEFINE f == [veh EXCEPT ![turn] = u.x]
           t == NextTurn(turn)
<1>5. /\ f \in [Numbers -> Searchers] /\ f[turn] = u.x
      /\ \A v \in Numbers : Sound(f[v]) /\ (v # turn => f[v] = veh[v])
  BY <1>2, <1>3 DEF IInv, EndedTurn
<1>6. t \in 0 .. Vehicles /\ (t > 0 => f[t].phase \in {"coming", "zone"})
  <2>1. t \in 0 .. Vehicles /\ (t > 0 => t > turn /\ OnNetwork(t))
    BY <1>2, NextTurnFacts
  <2> HIDE DEF t
  <2>2. t > 0 => t # turn /\ t \in Numbers
    BY <1>2, <2>1 DEF Numbers
  <2> HIDE DEF f
  <2> QED
    BY <1>5, <2>1, <2>2 DEF OnNetwork
<1>7. TakeTurn(f, t)
  BY <1>1
<1> HIDE DEF f, t
<1>8. /\ veh' \in [Numbers -> Searchers]
      /\ \A v \in Numbers : Sound(veh'[v]) /\ veh'[v].phase = f[v].phase
      /\ turn' = t /\ move' \in Moves /\ (turn' > 0 => Turning')
  BY <1>5, <1>6, <1>7, TurnTaken
<1>9. veh'[turn].phase = u.x.phase /\ (Ends <=> Ends /\ u.x.phase = "gone" /\ veh[turn].phase # "gone")
  BY <1>2, <1>5, <1>8 DEF Ends
<1>10. stock \in Stocks /\ stock[Park] \in Nat /\ exits \in Nat /\ announced \in Nat
  BY DEF IInv, Stocks
<1>11. CASE Leaves(u)
  <2>1. exits' = exits + 1
    BY <1>4, <1>11 DEF Leaves
  <2>2. CASE u.stock = stock
    <3>1. stock' \in Stocks /\ stock'[Park] <= stock[Park] + 1
      BY <1>4, <1>10, <2>2
    <3>2. PastCheck /\ (Fuller # {} => FALSE)
      <4>1. \A l \in DOMAIN stock : ~(stock'[l] > stock[l])
        BY <1>4, <1>10, <2>2 DEF Stocks
      <4>2. ~(stock'[Park] > stock[Park])
        BY <1>4, <1>10, <2>2
      <4> QED
        BY <4>1, <4>2 DEF PastCheck, Fuller
    <3> QED
      <4>1. /\ waiting' \in Nat /\ exits' \in Nat /\ announced' \in Nat
            /\ exits' <= announced' /\ waiting' + exits' <= MaxWaiting + announced'
            /\ stock'[Park] <= StockMax + announced' /\ announced' = announced + 1
        BY <1>4, <2>1, <3>1, CountersKept
      <4>2. IInv'
        BY <1>4, <1>6, <1>8, <3>1, <4>1 DEF IInv
      <4>3. Ends
        BY <1>2, <1>9, <1>11 DEF Ends, Leaves
      <4>4. OneExit
        BY <1>10, <4>1, <4>3 DEF OneExit
      <4> QED
        BY <3>2, <4>2, <4>4 DEF StepFacts, OneTaken
  <2>3. CASE u.stock # stock
    <3>1. /\ u.stock = [stock EXCEPT ![Park] = @ + 1]
          /\ stock[Park] >= StockMax => veh[turn].link \in Approach \cup Access
      BY <1>3, <2>3 DEF EndedTurn, Leaves
    <3>2. stock' \in Stocks /\ stock'[Park] = stock[Park] + 1
      BY <1>4, <1>10, <3>1, ParkingAssumption DEF Stocks
    <3>3. /\ waiting' \in Nat /\ exits' \in Nat /\ announced' \in Nat
          /\ exits' <= announced' /\ waiting' + exits' <= MaxWaiting + announced'
          /\ stock'[Park] <= StockMax + announced' /\ announced' = announced + 1
      <4>1. stock'[Park] <= stock[Park] + 1
        BY <1>10, <3>2
      <4> QED
        BY <1>4, <2>1, <3>2, <4>1, CountersKept
    <3>4. IInv'
      BY <1>4, <1>6, <1>8, <3>2, <3>3 DEF IInv
    <3>5. Ends
      BY <1>2, <1>9, <1>11 DEF Ends, Leaves
    <3>6. OneExit
      BY <1>10, <3>3, <3>5 DEF OneExit
    <3>7. PastCheck
      <4>1. StockMax \in Nat
        BY ParkingAssumption
      <4> QED
        BY <1>10, <3>1, <3>2, <4>1 DEF PastCheck
    <3>8. OneTaken
      <4>1. OneMore(stock, stock', {Park})
        BY <1>4, <3>1 DEF OneMore
      <4>2. \E l \in DOMAIN stock : Fuller = {l} /\ stock'[l] = stock[l] + 1
        BY <1>10, <4>1, PlaceTaken
      <4> QED
        BY <1>9, <1>11, <3>3, <4>2 DEF OneTaken, Leaves
    <3> QED
      BY <3>4, <3>6, <3>7, <3>8 DEF StepFacts
  <2> QED
    BY <2>2, <2>3
<1>12. CASE ~Leaves(u)
  <2>1. stock' = stock /\ exits' = exits /\ (u.x.phase = "gone" => veh[turn].phase = "gone")
    BY <1>3, <1>4, <1>12 DEF EndedTurn
  <2>2. exits' = exits + 0 /\ stock' \in Stocks /\ stock'[Park] <= stock[Park] + 0
    BY <1>10, <2>1
  <2>3. /\ waiting' \in Nat /\ exits' \in Nat /\ announced' \in Nat
        /\ exits' <= announced' /\ waiting' + exits' <= MaxWaiting + announced'
        /\ stock'[Park] <= StockMax + announced' /\ announced' = announced + 0
    BY <1>4, <2>2, CountersKept
  <2>4. IInv'
    BY <1>4, <1>6, <1>8, <2>2, <2>3 DEF IInv
  <2>5. announced' = announced /\ ~Ends
    BY <1>9, <1>10, <2>1, <2>3
  <2> QED
    BY <1>10, <2>1, <2>4, <2>5, NoPlaceTaken DEF StepFacts, OneExit
<1> QED
  BY <1>11, <1>12

(* A place less, or none.                                                   *)
Fewer(st, st2) == st2 \in Stocks /\ \A l \in Links \cup {Park} : st2[l] <= st[l]

(* A place is freed.                                                       *)
LEMMA PlaceFreed ==
  ASSUME stock \in Stocks, NEW l \in Links \cup {Park}, DecStock(l)
  PROVE  Fewer(stock, stock')
<1> DEFINE k == Max({0, stock[l] - 1})
           a == stock[l] - 1
<1>1. stock[l] \in Nat /\ a \in Int
  BY DEF Stocks
<1>2. k = IF 0 >= a THEN 0 ELSE a
  <2>1. Max({0, a}) = IF 0 >= a THEN 0 ELSE a
    <3> HIDE DEF a
    <3> QED
      BY <1>1, MinMax
  <2> QED
    BY <2>1
<1>3. k \in Nat /\ k <= stock[l]
  BY <1>1, <1>2
<1>4. stock' = [stock EXCEPT ![l] = k]
  BY DEF DecStock
<1> HIDE DEF k
<1> QED
  BY <1>3, <1>4, ParkingAssumption DEF Fewer, Stocks

(* A vehicle that leaves a place waits or goes.                            *)
LEMMA PlaceLeft ==
  ASSUME IInv, NEW plate \in BOOLEAN, FromPlace(plate)
  PROVE  Fewer(stock, stock') /\ waiting' \in {waiting, waiting + 1}
<1>1. stock \in Stocks /\ Near \subseteq Links
  BY ParkingAssumption DEF IInv
<1>2. stock' = stock => Fewer(stock, stock')
  BY <1>1 DEF Fewer, Stocks
<1>3. CASE UNCHANGED <<stock, waiting>>
  BY <1>2, <1>3
<1>4. CASE \E street \in BOOLEAN :
             IF street THEN FromStreet(plate, FALSE, OriginSections(OriginLinks(stock), stock))
             ELSE FromPark
  <2>1. OriginSections(OriginLinks(stock), stock) \subseteq Links
    BY <1>1 DEF OriginSections, OriginLinks
  <2>2. CASE FromPark
    <3>1. waiting' \in {waiting, waiting + 1} /\ (stock' = stock \/ DecStock(Park))
      BY <2>2 DEF FromPark
    <3> QED
      BY <1>1, <1>2, <3>1, PlaceFreed
  <2>3. CASE FromStreet(plate, FALSE, OriginSections(OriginLinks(stock), stock))
    <3>1. waiting' = waiting /\ (stock' = stock \/ \E l \in Links : DecStock(l))
      BY <2>1, <2>3 DEF FromStreet
    <3> QED
      BY <1>1, <1>2, <3>1, PlaceFreed
  <2> QED
    BY <1>4, <2>2, <2>3
<1> QED
  BY <1>3, <1>4 DEF FromPlace, OriginTypes

(* Departures leave the vehicles alone, and take no place.                  *)
LEMMA DepartureInv ==
  ASSUME IInv, veh' = veh, announced' = announced, turn = 0, turn' = turn, move' = move,
         simplified' = simplified,
         Fewer(stock, stock'), waiting' \in Nat, exits' \in Nat, exits' <= exits,
         waiting' + exits' <= MaxWaiting + announced
  PROVE  IInv' /\ StepFacts
<1>1. /\ stock' \in Stocks /\ stock'[Park] <= StockMax + announced'
      /\ exits' <= announced'
  <2>1. stock[Park] \in Nat /\ stock'[Park] \in Nat /\ StockMax \in Nat
    BY ParkingAssumption DEF IInv, Fewer, Stocks
  <2> QED
    BY <2>1 DEF IInv, Fewer
<1>2. \A l \in Links \cup {Park} : ~(stock'[l] > stock[l])
  BY DEF IInv, Fewer, Stocks
<1>3. PastCheck /\ OneTaken
  <2>1. DOMAIN stock = Links \cup {Park}
    BY DEF IInv, Stocks
  <2> QED
    BY <1>2, <2>1 DEF PastCheck, OneTaken, Fuller
<1>4. OneExit
  BY DEF OneExit, Ends
<1>5. IInv'
  BY <1>1 DEF IInv
<1> QED
  BY <1>3, <1>4, <1>5 DEF StepFacts

(* Time passing keeps the flags.                                           *)
LEMMA AgedFacts ==
  ASSUME NEW x \in Searchers, Sound(x)
  PROVE  Aged(x) \in Searchers /\ Sound(Aged(x)) /\ Aged(x).phase = x.phase
<1>1. ASSUME NEW c \in Nat, NEW e \in Nat
      PROVE  Older(c, e) \in Nat /\ Older(c, e) <= e
  <2> DEFINE d == c + 1
  <2>1. Min({d, e}) = IF d <= e THEN d ELSE e
    <3>1. d \in Int /\ e \in Int
      OBVIOUS
    <3> HIDE DEF d
    <3> QED
      BY <3>1, MinMax
  <2> QED
    BY <2>1 DEF Older
<1>2. CASE x.phase # "zone"
  BY <1>2 DEF Aged
<1>3. CASE x.phase = "zone"
  <2> DEFINE late == Max({WideningDelay, MaxSearch + 1})
             s == IF x.searching THEN Older(x.sinceStart, late) ELSE x.sinceStart
             a == IF x.searching THEN Older(x.sinceArbitrage, ReroutingPeriod)
                  ELSE x.sinceArbitrage
             g == IF simplified THEN Older(x.sinceGoal, UpdateGoalPeriod) ELSE x.sinceGoal
             y == [x EXCEPT !.sinceStart = s, !.sinceArbitrage = a, !.sinceGoal = g]
  <2>1. Aged(x) = y
    BY <1>3 DEF Aged, Searchers
  <2>2. late \in Nat
    <3> DEFINE p == WideningDelay
               q == MaxSearch + 1
    <3>1. p \in Int /\ q \in Int /\ p \in Nat /\ q \in Nat
      BY ParkingAssumption
    <3>2. Max({p, q}) = IF p >= q THEN p ELSE q
      <4> HIDE DEF p, q
      <4> QED
        BY <3>1, MinMax
    <3> QED
      BY <3>1, <3>2
  <2>3. /\ x.sinceStart \in Nat /\ x.sinceArbitrage \in Nat /\ x.sinceGoal \in Nat
        /\ x.sinceArbitrage <= ReroutingPeriod /\ x.sinceGoal <= UpdateGoalPeriod
        /\ ReroutingPeriod \in Nat /\ UpdateGoalPeriod \in Nat
    BY ParkingAssumption DEF Searchers
  <2> HIDE DEF late
  <2>4. s \in Nat /\ a \in 0 .. ReroutingPeriod /\ g \in 0 .. UpdateGoalPeriod
    <3>1. s \in Nat
      BY <1>1, <2>2, <2>3
    <3>2. a \in 0 .. ReroutingPeriod
      <4>1. /\ Older(x.sinceArbitrage, ReroutingPeriod) \in Nat
            /\ Older(x.sinceArbitrage, ReroutingPeriod) <= ReroutingPeriod
        BY <1>1, <2>3
      <4> QED
        BY <2>3, <4>1
    <3>3. g \in 0 .. UpdateGoalPeriod
      <4>1. /\ Older(x.sinceGoal, UpdateGoalPeriod) \in Nat
            /\ Older(x.sinceGoal, UpdateGoalPeriod) <= UpdateGoalPeriod
        BY <1>1, <2>3
      <4> QED
        BY <2>3, <4>1
    <3> QED
      BY <3>1, <3>2, <3>3
  <2> HIDE DEF s, a, g
  <2>5. /\ y \in Searchers /\ y.phase = x.phase /\ y.street = x.street /\ y.dest = x.dest
        /\ y.searching = x.searching /\ y.residential = x.residential /\ y.link = x.link
        /\ y.leg = x.leg
    BY <2>4 DEF Searchers
  <2> HIDE DEF y
  <2> QED
    BY <2>1, <2>5 DEF Sound, StreetSearch
<1> QED
  BY <1>2, <1>3

(* A step begins.                                                          *)
LEMMA StepInv ==
  ASSUME IInv, StepTraffic
  PROVE  IInv' /\ StepFacts
<1> DEFINE f == [v \in Numbers |-> Aged(veh[v])]
           t == NextTurn(0)
<1>1. /\ turn = 0 /\ TakeTurn(f, t)
      /\ UNCHANGED <<stock, waiting, exits, announced, simplified>>
  BY DEF StepTraffic
<1>2. /\ f \in [Numbers -> Searchers]
      /\ \A v \in Numbers : Sound(f[v]) /\ f[v].phase = veh[v].phase
  BY AgedFacts DEF IInv
<1>3. t \in 0 .. Vehicles /\ (t > 0 => f[t].phase \in {"coming", "zone"})
  <2>1. t \in 0 .. Vehicles /\ (t > 0 => OnNetwork(t)) /\ Vehicles \in Nat
    BY NextTurnFacts, ParkingAssumption
  <2> HIDE DEF f, t
  <2>2. t > 0 => t \in Numbers
    BY <2>1 DEF Numbers
  <2> QED
    BY <1>2, <2>1, <2>2 DEF OnNetwork
<1> HIDE DEF f, t
<1>4. /\ veh' \in [Numbers -> Searchers]
      /\ \A v \in Numbers : Sound(veh'[v]) /\ veh'[v].phase = f[v].phase
      /\ turn' = t /\ move' \in Moves /\ (turn' > 0 => Turning')
  BY <1>1, <1>2, <1>3, TurnTaken
<1>5. ~Ends
  BY <1>2, <1>4 DEF Ends
<1>6. IInv'
  BY <1>1, <1>3, <1>4 DEF IInv
<1> QED
  BY <1>1, <1>5, <1>6, NoPlaceTaken DEF StepFacts, OneExit, IInv

(* Every step keeps the invariant, counts one exit and takes one place.     *)
LEMMA NextInv ==
  ASSUME IInv, [Next]_vars
  PROVE  IInv' /\ [StepFacts]_vars
<1>1. CASE AddTuyauParcouru
  BY <1>1, LinkInv
<1>2. CASE EndTurn
  BY <1>2, TurnInv
<1>3. CASE StepTraffic
  BY <1>3, StepInv
<1>4. CASE SortieStationnement
  <2>1. /\ exits > 0 /\ exits' = exits - 1 /\ turn = 0 /\ move' = move
        /\ veh' = veh /\ announced' = announced /\ turn' = turn /\ simplified' = simplified
    BY <1>4 DEF SortieStationnement
  <2>2. Fewer(stock, stock') /\ waiting' \in {waiting, waiting + 1}
    BY <1>4, PlaceLeft DEF SortieStationnement
  <2>3. /\ waiting' \in Nat /\ exits' \in Nat /\ exits' <= exits
        /\ waiting' + exits' <= MaxWaiting + announced
    <3>1. /\ MaxWaiting \in Nat /\ waiting \in Nat /\ exits \in Nat /\ announced \in Nat
          /\ exits <= announced /\ waiting + exits <= MaxWaiting + announced
      BY ParkingAssumption DEF IInv
    <3>2. waiting' = waiting \/ waiting' = waiting + 1
      BY <2>2
    <3> QED
      BY <2>1, <3>1, <3>2
  <2> QED
    BY <2>1, <2>2, <2>3, DepartureInv
<1>5. CASE Resident
  <2>1. /\ veh' = veh /\ announced' = announced /\ turn' = turn /\ simplified' = simplified
        /\ exits' = exits /\ waiting' = waiting /\ turn = 0 /\ move' = move
    BY <1>5 DEF Resident, FromStreet
  <2>2. stock' = stock \/ \E l \in Links : DecStock(l)
    BY <1>5, ParkingAssumption DEF Resident, FromStreet
  <2>3. Fewer(stock, stock')
    <3>1. stock' = stock => Fewer(stock, stock')
      BY DEF Fewer, Stocks, IInv
    <3> QED
      BY <2>2, <3>1, PlaceFreed DEF IInv
  <2>4. exits' <= exits
    BY <2>1 DEF IInv
  <2> QED
    BY <2>1, <2>3, <2>4, DepartureInv DEF IInv
<1>6. CASE NonResident
  <2>1. /\ veh' = veh /\ announced' = announced /\ turn' = turn /\ simplified' = simplified
        /\ exits' = exits /\ waiting < MaxWaiting /\ turn = 0 /\ move' = move
    BY <1>6 DEF NonResident
  <2>2. Fewer(stock, stock') /\ waiting' \in {waiting, waiting + 1}
    BY <1>6, PlaceLeft DEF NonResident
  <2>3. /\ waiting' \in Nat /\ exits' \in Nat /\ exits' <= exits
        /\ waiting' + exits' <= MaxWaiting + announced
    <3>1. /\ MaxWaiting \in Nat /\ waiting \in Nat /\ exits \in Nat /\ announced \in Nat
          /\ exits <= announced /\ waiting + exits <= MaxWaiting + announced
      BY ParkingAssumption DEF IInv
    <3>2. waiting' = waiting \/ waiting' = waiting + 1
      BY <2>2
    <3> QED
      BY <2>1, <3>1, <3>2
  <2> QED
    BY <2>1, <2>2, <2>3, DepartureInv
<1>7. CASE BarrierOpens
  <2>1. /\ waiting > 0 /\ waiting' = waiting - 1 /\ DecStock(Park)
        /\ veh' = veh /\ announced' = announced /\ turn' = turn /\ simplified' = simplified
        /\ exits' = exits /\ turn = 0 /\ move' = move
    BY <1>7 DEF BarrierOpens
  <2>2. Fewer(stock, stock')
    BY <2>1, PlaceFreed DEF IInv
  <2>3. /\ waiting' \in Nat /\ exits' \in Nat /\ exits' <= exits
        /\ waiting' + exits' <= MaxWaiting + announced
    <3>1. /\ MaxWaiting \in Nat /\ waiting \in Nat /\ exits \in Nat /\ announced \in Nat
          /\ exits <= announced /\ waiting + exits <= MaxWaiting + announced
      BY ParkingAssumption DEF IInv
    <3> QED
      BY <2>1, <3>1
  <2> QED
    BY <2>1, <2>2, <2>3, DepartureInv
<1>8. CASE UNCHANGED vars
  <2>1. /\ veh' = veh /\ stock' = stock /\ waiting' = waiting /\ exits' = exits
        /\ announced' = announced /\ turn' = turn /\ move' = move /\ simplified' = simplified
    BY <1>8 DEF vars
  <2>2. IInv'
    BY <2>1 DEF IInv, Turning
  <2> QED
    BY <1>8, <2>2
<1> QED
  BY <1>1, <1>2, <1>3, <1>4, <1>5, <1>6, <1>7, <1>8 DEF Next

(***************************************************************************)
(* The theorems.                                                           *)
(***************************************************************************)
(* The invariant holds.                                                     *)
THEOREM Invariance == Spec => []IInv
<1>1. Init => IInv
  BY InitInv
<1>2. IInv /\ [Next]_vars => IInv'
  BY NextInv
<1> QED
  BY <1>1, <1>2, PTL DEF Spec

(* The variables keep their types; the park holds at most one vehicle more  *)
(* than its capacity for each exit announced, and no queue outgrows them.   *)
THEOREM TypeCorrect == Spec => []TypeOK
<1>1. IInv => TypeOK
  <2> SUFFICES ASSUME IInv PROVE TypeOK
    OBVIOUS
  <2>1. /\ Vehicles \in Nat /\ MaxWaiting \in Nat /\ StockMax \in Nat /\ MaxCrossed \in Nat
    BY ParkingAssumption
  <2>2. /\ stock[Park] \in 0 .. StockMax + announced /\ exits \in 0 .. announced
        /\ waiting \in 0 .. MaxWaiting + announced
    <3>1. stock[Park] \in Nat
      BY DEF IInv, Stocks
    <3> QED
      BY <2>1, <3>1 DEF IInv
  <2>3. move.links \in 0 .. MaxCrossed /\ move.told \in 0 .. move.links
    BY <2>1 DEF IInv, Moves
  <2>4. \A l \in Links : stock[l] \in 0 .. Capacity[l]
    BY ParkingAssumption DEF IInv, Stocks
  <2>5. \A v \in Numbers : veh[v] \in Searchers
    BY DEF IInv
  <2> QED
    BY <2>2, <2>3, <2>4, <2>5 DEF TypeOK, IInv, Searchers
<1> QED
  BY <1>1, Invariance, PTL

(* A trip that ends outside its home announces one exit in that step, by    *)
(* whatever way it ends and however many links a step passes; only links    *)
(* told of after the vehicle was destroyed announce more.                   *)
THEOREM ExitsCounted == Spec => OneExitPerEnd
<1>1. IInv /\ [Next]_vars => [OneExit]_vars
  BY NextInv DEF StepFacts
<1> QED
  BY <1>1, Invariance, PTL DEF Spec, OneExitPerEnd, OneExit

(* When some street of the perimeter is accessible from everywhere (the     *)
(* code logs an error otherwise), the flags of a vehicle agree with its     *)
(* trip unless it has no way to the park, however often street and park are *)
(* drawn again and whatever paths there are.                                *)
THEOREM FlagsAgree ==
  ASSUME Connected
  PROVE  Spec => []FlagsMatchTrip
<1>1. IInv => FlagsMatchTrip
  BY DEF IInv, FlagsMatchTrip, Sound
<1> QED
  BY <1>1, Invariance, PTL

(* Only a vehicle that had passed the check of the park enters a full one.  *)
THEOREM FullParkPastCheck == Spec => FullOnlyPastCheck
<1>1. IInv /\ [Next]_vars => [PastCheck]_vars
  BY NextInv DEF StepFacts
<1> QED
  BY <1>1, Invariance, PTL DEF Spec, FullOnlyPastCheck, PastCheck

(* Places are taken one at a time, of one street or of the park, each with  *)
(* an exit announced, however many links a step passes.                     *)
THEOREM OnePlaceTaken == Spec => OnePlacePerExit
<1>1. IInv /\ [Next]_vars => [OneTaken]_vars
  BY NextInv DEF StepFacts
<1> QED
  BY <1>1, Invariance, PTL DEF Spec, OnePlacePerExit, OneTaken
=============================================================================
