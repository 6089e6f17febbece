------------------------ MODULE TrafficLightController ------------------------
(***************************************************************************)
(* The traffic light controller of src/src/ControleurDeFeux.cpp and the     *)
(* priority it gives to guided vehicles (VGP, buses): when a bus is seen    *)
(* upstream a plan replaces the normal one (mode O, then P once a bus is in *)
(* the zone); when the last bus has left, a return plan leads back to the   *)
(* normal cycle (mode Q, then N).                                           *)
(*                                                                          *)
(* A time step moves the buses and runs Update.  Instants are relative to   *)
(* the current one, a fractional duration is a numerator over "den"; the    *)
(* colours are reduced to the shortest green of a sequence.  The controller *)
(* has one plan of the day.                                                 *)
(***************************************************************************)
EXTENDS Integers, Sequences, FiniteSetsExt

CONSTANTS Buses,
          Plan,          \* sequences of the plan: [length, green, delay]
          VertMin,       \* m_dbDureeVertMin
          Rouge,         \* m_dbDureeRougeDegagement
          TravelTimes,   \* estimated times from the upstream sensor to the zone
          LookAheads,    \* how far ahead the mesoscopic model asks for sequences
          LineEnds       \* where a line may end before the downstream sensor

Num       == 1 .. Len(Plan)
Length(i) == Plan[i].length
CycleLength == MapThenSumSet(Length, Num)

Upstream == 0   Approach == 1   Zone == 2   Beyond == 3

ASSUME PlanAssumption ==
  /\ Plan \in Seq([length : Nat \ {0}, green : Nat, delay : Nat])
  /\ Len(Plan) >= 2 /\ VertMin \in Nat /\ Rouge \in Nat
  /\ \A i \in Num : /\ Plan[i].green >= VertMin
                    /\ Plan[i].delay + Plan[i].green <= Plan[i].length
  /\ TravelTimes \subseteq Nat /\ LookAheads \subseteq Nat
  /\ LineEnds \subseteq {Approach, Zone}

VARIABLES phase,     \* time since the cycle of the plan started
          stage,     \* how far each bus is
          gone,      \* buses that have left the network
          unseen,    \* history: buses between the sensors that the first has missed
          piloted,   \* m_PDFActif is set
          cdf        \* m_cModeFct, m_LstVGPs, m_pPDFEx, m_dbFinPDFEx (from now),
                     \* m_pSeqRetour1 and m_pSeqRetour2

vars == <<phase, stage, gone, unseen, piloted, cdf>>

NoPlan == [kind |-> "none"]

Init == /\ phase \in 0 .. CycleLength - 1
        /\ stage = [b \in Buses |-> Upstream] /\ gone = {} /\ unseen = {}
        /\ piloted = FALSE
        /\ cdf = [mode |-> "N", vgps |-> {}, plan |-> NoPlan, fin |-> 0, den |-> 1,
                  retour1 |-> 0, retour2 |-> 0]

-----------------------------------------------------------------------------
(* The normal plan.                                                          *)
Starts == [i \in Num |-> MapThenSumSet(Length, 1 .. i - 1)]
StartOf(i) == Starts[i]
SequenceAt == [p \in 0 .. CycleLength - 1 |->
                 CHOOSE i \in Num : StartOf(i) <= p /\ p < StartOf(i) + Length(i)]
GetSequence(p) == SequenceAt[p]
GetNextSequence(i) == (i % Len(Plan)) + 1
PrevSequence(i) == IF i = 1 THEN Len(Plan) ELSE i - 1
GetMinDuree(i) == Plan[i].delay + VertMin

-----------------------------------------------------------------------------
(* The plan for a bus whose arrival in the zone is estimated at time tz from *)
(* now.  "deb" is its first instant, "lengths" are those of the sequences    *)
(* before the one of the priority, which lasts until the buses are out;      *)
(* "copied" is the sequence the first one repeats.  In the first case the    *)
(* time already elapsed in it is not taken off "deb": a copy applied at once *)
(* starts over, after the sequence was shown for "before".                   *)
PriorityPlan(p, tz, seen) ==
  LET act     == GetSequence(p)
      elapsed == p - StartOf(act)
      arrival == (p + tz) % CycleLength
      zone    == GetSequence(arrival)
      apply   == tz - (arrival - StartOf(zone)) - Length(PrevSequence(zone))
      deb     == IF apply >= 0 THEN apply ELSE 0
      plan(d, lengths, i, before) ==
        [kind |-> "priority", deb |-> d, lengths |-> lengths, copied |-> i,
         before |-> before, served |-> seen]
  IN IF zone = act /\ elapsed + tz >= GetMinDuree(zone) + Rouge
     THEN plan(deb, <<tz - deb - Rouge>>, zone, IF deb = 0 THEN elapsed ELSE 0)
     ELSE IF zone = act
     THEN plan(deb - elapsed, <<GetMinDuree(zone), Rouge>>, zone, 0)
     ELSE plan(deb - elapsed, <<tz - (deb - elapsed)>>, act, 0)

(* The plan that leads from this instant to the end of sequence "retour2" of *)
(* the normal plan through stretched or shrunk copies of both sequences; a   *)
(* third one is added when shrinking breaks the minimal green.               *)
TimeToEndOf(i, act, elapsed) ==
  LET steps == IF i = act THEN Len(Plan) ELSE (i - act) % Len(Plan)
      after(j) == Length(((act + j - 1) % Len(Plan)) + 1)
  IN Length(act) - elapsed + MapThenSumSet(after, 1 .. steps)

ReturnPlanUnchecked(p, r1, r2) ==   \* faulty variant: never adds the third sequence
  LET act     == GetSequence(p)
      elapsed == p - StartOf(act)
      den     == Length(r1) + Length(r2)
      l(i)    == Length(i) * TimeToEndOf(r2, act, elapsed)
      g(i)    == Plan[i].green * den + l(i) - Length(i) * den
  IN [kind |-> "return", lengths |-> <<l(r1), l(r2)>>, greens |-> <<g(r1), g(r2)>>,
      den |-> den]

ReturnPlanWholeSequence(p, r1, r2) ==   \* faulty variant: forgets the time elapsed
  LET den     == Length(r1) + Length(r2)
      l(i)    == Length(i) * TimeToEndOf(r2, GetSequence(p), 0)
      g(i)    == Plan[i].green * den + l(i) - Length(i) * den
  IN [kind |-> "return", lengths |-> <<l(r1), l(r2)>>, greens |-> <<g(r1), g(r2)>>,
      den |-> den]

ReturnPlan(p, r1, r2) ==
  LET act     == GetSequence(p)
      elapsed == p - StartOf(act)
      retour  == TimeToEndOf(r2, act, elapsed)
      den     == Length(r1) + Length(r2)
      l(i)    == Length(i) * retour
      g(i)    == Plan[i].green * den + l(i) - Length(i) * den
      short(i) == g(i) < VertMin * den
      r3      == GetNextSequence(r2)
      \* with the third sequence: lengths and greens with the minimal green ...
      fixed(i) == IF short(i) THEN l(i) + VertMin * den - g(i) ELSE Length(i) * den
      green(i) == IF short(i) THEN VertMin * den ELSE g(i)
      retour3  == fixed(r1) + fixed(r2) + Length(r3) * den
      \* ... then all three are scaled by retour3 / seqRet
      seqRet   == den + Length(r3) - elapsed
      l3(i)    == Length(i) * retour3
      g3(i, v) == v * seqRet + l3(i) - Length(i) * den * seqRet
  IN IF retour < den /\ (short(r1) \/ short(r2))
     THEN [kind |-> "return", den |-> den * seqRet,
           lengths |-> <<l3(r1), l3(r2), l3(r3)>>,
           greens  |-> <<g3(r1, green(r1)), g3(r2, green(r2)),
                         g3(r3, Plan[r3].green * den)>>]
     ELSE [kind |-> "return", den |-> den,
           lengths |-> <<l(r1), l(r2)>>, greens |-> <<g(r1), g(r2)>>]

-----------------------------------------------------------------------------
(* GetSequence for an instant h from now drops the return plan when that     *)
(* instant is after its end.                                                 *)
LookAhead(c, h) ==
  IF ~piloted /\ c.plan.kind = "return" /\ h * c.den > c.fin
  THEN [c EXCEPT !.plan = NoPlan] ELSE c

-----------------------------------------------------------------------------
(* Update.  IsPasse: the vehicle passed the position during the time step.    *)
(* When it crossed several links it looks at the one it started from and at  *)
(* the next one only: the sensors farther than "reach" are missed, which     *)
(* matters for the buses that are handled or come.                           *)
Reaches == {r \in [Buses -> Upstream .. Beyond] :
              \A b \in Buses : \/ r[b] = stage'[b]
                              \/ /\ stage[b] <= r[b] /\ r[b] < stage'[b]
                                 /\ (stage[b] = Upstream \/ b \in cdf.vgps)}
Passes(s, reach) == {b \in Buses : stage[b] < s /\ reach[b] >= s}

DetectUnserved(c, seen, tz) ==   \* faulty variant: no signal for the following buses
  IF seen = {} THEN c
  ELSE IF c.vgps # {} THEN [c EXCEPT !.vgps = @ \cup seen]
  ELSE [c EXCEPT !.mode = "O", !.vgps = seen,
                 !.fin = 0, !.den = 1, !.plan = PriorityPlan(phase', tz, seen),
                 !.retour1 = GetNextSequence(GetSequence(phase')),
                 !.retour2 = GetNextSequence(GetNextSequence(GetSequence(phase')))]

(* The buses that passed the upstream sensor.  The first one replaces the    *)
(* plan in force; the others get a signal in its last sequence.              *)
Detect(c, seen, tz) ==
  IF seen = {} THEN c
  ELSE IF c.vgps # {}
  THEN [c EXCEPT !.vgps = @ \cup seen, !.plan.served = @ \cup seen]
  ELSE [c EXCEPT !.mode = "O", !.vgps = seen,
                 !.fin = 0, !.den = 1, !.plan = PriorityPlan(phase', tz, seen),
                 !.retour1 = GetNextSequence(GetSequence(phase')),
                 !.retour2 = GetNextSequence(GetNextSequence(GetSequence(phase')))]

Enter(c, entered) ==
  IF c.mode = "O" /\ c.vgps \cap entered # {} THEN [c EXCEPT !.mode = "P"] ELSE c

ExitByTheSensor(c, out) ==   \* faulty variant: ignores the buses that left the network
  LET left == c.vgps \ (out \ gone')
      plan == ReturnPlan(phase', c.retour1, c.retour2)
  IN IF c.mode # "P" THEN c
     ELSE IF left # {} THEN [c EXCEPT !.vgps = left]
     ELSE [c EXCEPT !.vgps = {}, !.mode = "Q", !.plan = plan, !.den = plan.den,
                    !.fin = MapThenSumSet(LAMBDA j : plan.lengths[j], DOMAIN plan.lengths)]

(* The buses that passed the downstream sensor or left the network; when     *)
(* they are all out the return plan starts.                                  *)
Exit(c, out) ==
  LET left == c.vgps \ out
      plan == ReturnPlan(phase', c.retour1, c.retour2)
  IN IF c.mode # "P" THEN c
     ELSE IF left # {} THEN [c EXCEPT !.vgps = left]
     ELSE [c EXCEPT !.vgps = {}, !.mode = "Q", !.plan = plan, !.den = plan.den,
                    !.fin = MapThenSumSet(LAMBDA j : plan.lengths[j], DOMAIN plan.lengths)]

Finish(c) ==
  IF c.mode = "Q" /\ c.fin <= 0
  THEN [c EXCEPT !.mode = "N", !.plan = NoPlan, !.fin = 0, !.den = 1, !.vgps = {}] ELSE c

(* The whole of Update at the new instant, with the recomputation of the     *)
(* mesoscopic arrivals, which looks ahead, when the plan has changed.        *)
Update(tz, reach) ==
  \E started \in {[cdf EXCEPT !.fin = IF cdf.mode = "Q" THEN @ - cdf.den ELSE @]},
     seen \in {Passes(Approach, reach)}, out \in {Passes(Beyond, reach) \cup gone'} :
  \E inside \in {Enter(Detect(started, seen, tz), Passes(Zone, reach))} :
  \E after \in {Finish(Exit(inside, out))} :
    cdf' \in IF seen # {} \/ after.mode # inside.mode
             THEN {LookAhead(after, h) : h \in LookAheads} ELSE {after}

(* Buses move on, end their line (also beyond the junction, which matters for *)
(* those still handled), or, once handled, are replaced by the next bus of   *)
(* the line.                                                                 *)
Move ==
  /\ stage' \in [Buses -> Upstream .. Beyond]
  /\ \A b \in Buses : \/ stage'[b] >= stage[b] /\ (b \in gone => stage'[b] = stage[b])
                      \/ /\ stage[b] = Beyond \/ b \in gone
                         /\ b \notin cdf.vgps /\ stage'[b] = Upstream
  /\ \E ending \in SUBSET {b \in Buses \ gone : \/ stage'[b] \in LineEnds
                                              \/ (stage[b] = Beyond /\ b \in cdf.vgps)} :
        gone' = {b \in gone : stage'[b] # Upstream} \cup ending

Step == /\ Move
        /\ phase' = (phase + 1) % CycleLength
        /\ \E reach \in Reaches :
              /\ \/ Passes(Approach, reach) = {} /\ Update(0, reach)
                 \/ Passes(Approach, reach) # {} /\ \E tz \in TravelTimes : Update(tz, reach)
              /\ unseen' = {b \in Buses \ gone' :
                              /\ stage'[b] \in {Approach, Zone}
                              /\ IF stage[b] = Upstream THEN b \notin Passes(Approach, reach)
                                 ELSE b \in unseen}
        /\ UNCHANGED piloted

(* GetInstantVertSuivant and GetInstantDebutVert, called by the mesoscopic   *)
(* model for the events to come.                                             *)
MesoQuery == /\ \E h \in LookAheads : cdf' = LookAhead(cdf, h)
             /\ UNCHANGED <<phase, stage, gone, unseen, piloted>>

(* The API gives the plan a new start and keeps it in force from then on.    *)
SendSignalPlan == /\ piloted' = TRUE /\ phase' = 0
                  /\ UNCHANGED <<stage, gone, unseen, cdf>>

Next == Step \/ MesoQuery \/ SendSignalPlan

(* A bus that has the priority moves on: its light stays green.              *)
MovesOn(b) == /\ b \in cdf.vgps \ gone
              /\ stage' \in [Buses -> Upstream .. Beyond] /\ stage'[b] > stage[b]

(* Beyond the junction a line has an end, where its bus leaves the network.  *)
LineIsOver(b) == /\ stage[b] = Beyond /\ b \in cdf.vgps \ gone
                 /\ gone' = gone \cup {b}

Spec == Init /\ [][Next]_vars
        /\ \A b \in Buses : WF_stage(MovesOn(b)) /\ WF_gone(LineIsOver(b))

-----------------------------------------------------------------------------
(* Types.                                                                    *)
TypeOK ==
  /\ phase \in 0 .. CycleLength - 1
  /\ stage \in [Buses -> Upstream .. Beyond] /\ gone \subseteq Buses /\ unseen \subseteq Buses
  /\ piloted \in BOOLEAN
  /\ cdf.mode \in {"N", "O", "P", "Q"} /\ cdf.vgps \subseteq Buses
  /\ cdf.plan.kind \in {"none", "priority", "return"}
  /\ cdf.fin \in Int /\ cdf.den \in Nat \ {0}
  /\ {cdf.retour1, cdf.retour2} \subseteq Num \cup {0}

(* The assertion of Update on a bus that is not the first: while buses are   *)
(* handled a priority plan is in place and the mode is not the return, and   *)
(* its last sequence has a signal for each of them.  Every bus between the    *)
(* two sensors that the first has not missed is handled, whichever of the    *)
(* others miss it or another: the lights do not return to normal before it   *)
(* is out.                                                                   *)
BusesServed ==
  /\ \A b \in Buses : stage[b] \in {Approach, Zone} /\ b \notin gone \cup unseen
                      => b \in cdf.vgps
  /\ cdf.mode \in {"O", "P"} <=> cdf.vgps # {}
  /\ cdf.vgps # {} => cdf.plan.kind = "priority" /\ cdf.vgps \subseteq cdf.plan.served

(* A copy that starts over turns a light with a delay red again: the green   *)
(* before and after it may both be short.                                    *)
CutsGreen(plan) == plan.before > 0 /\ Plan[plan.copied].delay > 0

(* "tous les signaux actifs doivent respecter ce temps de vert": neither a   *)
(* priority that comes early, unless its copy starts over with a delay, nor  *)
(* the shrinking of the return sequences cuts a green below                  *)
(* m_dbDureeVertMin.                                                         *)
MinimalGreen ==
  /\ cdf.plan.kind = "priority" /\ ~CutsGreen(cdf.plan) =>
       cdf.plan.before + cdf.plan.lengths[1] >= GetMinDuree(cdf.plan.copied)
  /\ cdf.plan.kind = "return" =>
       \A j \in DOMAIN cdf.plan.greens : cdf.plan.greens[j] >= VertMin * cdf.plan.den

(* A return in two sequences leads back to the normal plan at the very       *)
(* instant it starts the sequence after them: no light jumps.                *)
ReturnsInPhase ==
  [][cdf.mode = "Q" /\ cdf'.mode = "N" /\ ~piloted /\ cdf.plan.kind = "return"
     /\ Len(cdf.plan.lengths) = 2
       => phase' = StartOf(GetNextSequence(cdf.retour2))]_vars

(* "le plan de feux de VGP prioritaire est termine": the return plan is      *)
(* dropped when it is over, not before.                                      *)
ReturnPlanKept == cdf.mode = "Q" /\ ~piloted => cdf.plan.kind = "return"

(* Once a bus was seen to enter the zone, every bus that has the priority     *)
(* gives it back: at the downstream sensor or, when that one misses it, at   *)
(* the end of its line.                                                      *)
PriorityGivenBack ==
  \A b \in Buses : b \in cdf.vgps /\ cdf.mode = "P" ~> b \notin cdf.vgps
=============================================================================
