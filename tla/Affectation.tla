----------------------------- MODULE Affectation -----------------------------
(***************************************************************************)
(* The iterations of a convergent dynamic assignment (Affectation::Run of   *)
(* src/src/Affectation.cpp) around the steps of the simulation: a period is *)
(* simulated again from its start, with other route choices, until the      *)
(* travel times have converged or nNbItMax iterations were made.            *)
(*                                                                          *)
(* Under SymuMaster (master) Run is not called: the client takes, commits   *)
(* and rolls back snapshots through the API.                                *)
(***************************************************************************)
EXTENDS SimulationSnapshot

CONSTANTS Periods,        \* values of m_nPeriodeAffectation, in steps
          DureeSimu,      \* duration of the simulation, in seconds
          NbItMax,        \* m_nNbItMax
          MaxSnapshots,   \* bounds on the open snapshots and on the rollbacks of a
          MaxClientRollbacks  \* SymuMaster client

ASSUME AssignmentAssumption == /\ Periods \subseteq 1 .. LastStep /\ Periods # {}
                               /\ {DureeSimu, NbItMax, MaxSnapshots, MaxClientRollbacks} \subseteq Nat

VARIABLES master,        \* m_bSymuMaster
          period,        \* m_nPeriodeAffectation
          pc,            \* where the driver and SimuTrafic are
          nIteration,    \* m_nIteration
          bLastInstSimu  \* m_bLastInstSimu

world == <<net, copies, out, snapshots>>
vars  == <<world, master, period, pc, nIteration, bLastInstSimu>>

Init == /\ SnapshotInit
        /\ master \in BOOLEAN
        /\ period \in IF master THEN {Min(Periods)} ELSE Periods
        /\ pc = IF master THEN "start" ELSE "init"
        /\ nIteration = 0
        /\ bLastInstSimu = FALSE

(***************************************************************************)
(* Affectation::Run('P').  The routes it computes are left out: they show   *)
(* in the vehicles of the next steps.                                       *)
(***************************************************************************)
DuringPeriod     == net.inst % period # 0
UpToEnd(inst)    == inst <= DureeSimu   \* a mutant of the next line
BeforeEnd(inst)  == inst < DureeSimu

\* The start-of-step run that follows the rollback of the last period.
AlreadyRun == /\ ~DuringPeriod /\ bLastInstSimu
              /\ bLastInstSimu' = FALSE
              /\ UNCHANGED <<world, nIteration>>

\* No iteration is under way: one begins, unless the simulation is over.
FirstIteration ==
  /\ nIteration = 0
  /\ IF BeforeEnd(net.inst)
     THEN TakeSimulationSnapshot /\ nIteration' = 1
     ELSE UNCHANGED <<world, nIteration>>

\* A mutant: the snapshots committed stay in the list.
EquilibriumKept ==
  /\ nIteration > 0
  /\ out' = Commit(out, snapshots)
  /\ IF BeforeEnd(net.inst)
     THEN snapshots' = Taken(net, snapshots) /\ nIteration' = 1
     ELSE snapshots' = <<>> /\ nIteration' = 0
  /\ UNCHANGED <<net, copies>>

\* Equilibrium, or enough iterations: the period is final, the next begins.
Equilibrium ==
  /\ nIteration > 0
  /\ out' = Commit(out, snapshots)
  /\ IF BeforeEnd(net.inst)
     THEN snapshots' = Taken(net, <<>>) /\ nIteration' = 1
     ELSE snapshots' = <<>> /\ nIteration' = 0
  /\ UNCHANGED <<net, copies>>

\* A mutant: iterations without a limit.
EndlessIterations ==
  /\ nIteration > 0
  /\ net.inst > 0
  /\ SimulationRollback(1)
  /\ nIteration' = Min({NbItMax, nIteration + 1})

\* The travel times have not converged; at instant 0 the proximity index is 1.
NextIteration ==
  /\ nIteration \in 1 .. NbItMax - 1
  /\ net.inst > 0
  /\ SimulationRollback(1)
  /\ nIteration' = IF BeforeEnd(net'.inst) THEN nIteration + 1 ELSE nIteration

Run == \/ DuringPeriod /\ UNCHANGED <<world, nIteration, bLastInstSimu>>
       \/ AlreadyRun
       \/ /\ ~DuringPeriod /\ ~bLastInstSimu
          /\ bLastInstSimu' = (net.inst = DureeSimu)
          /\ FirstIteration \/ Equilibrium \/ NextIteration

(***************************************************************************)
(* The driver (Execution) and SimuTrafic.                                   *)
(***************************************************************************)
At(place)   == pc = place /\ UNCHANGED <<master, period>>
GoTo(place) == pc' = place
Counters    == <<nIteration, bLastInstSimu>>

InitialRun == At("init") /\ Run /\ GoTo("start")

StartOfStep == /\ At("start") /\ ~master /\ GoTo("step")
               /\ IF net.inst # 0 THEN Run ELSE UNCHANGED <<world, Counters>>

Step == /\ At(IF master THEN "start" ELSE "step")
        /\ TimeStep
        /\ GoTo(IF master THEN "start" ELSE IF net'.inst >= LastStep THEN "end" ELSE "start")
        /\ UNCHANGED Counters

EndOfStep == At("end") /\ Run /\ GoTo("return")

Return == /\ At("return") /\ net.inst < LastStep
          /\ GoTo("start")
          /\ UNCHANGED <<world, Counters>>

Finish == /\ At("return") /\ net.inst >= LastStep
          /\ FinSimuTrafic
          /\ GoTo("done")
          /\ UNCHANGED Counters

Client == /\ At("start") /\ master /\ UNCHANGED <<pc, Counters>>
          /\ \/ Len(snapshots) < MaxSnapshots /\ TakeSimulationSnapshot
             \/ snapshots # <<>> /\ SimulationCommit
             \/ /\ copies < MaxClientRollbacks
                /\ \E i \in DOMAIN snapshots : SimulationRollback(i)

Next == InitialRun \/ StartOfStep \/ Step \/ EndOfStep \/ Return \/ Finish \/ Client

\* The driver calls SimuTrafic until it reports the end.
Spec == Init /\ [][Next]_vars /\ WF_vars(Next)

(***************************************************************************)
(* Properties.                                                              *)
(***************************************************************************)
Objects == [id : 0 .. MaxVehicles - 1, kind : {"car", "bus"}, copy : 0 .. MaxRollbacks]

\* Types.  A first iteration is made even when NbItMax is 0.
TypeOK ==
  /\ net.inst \in 0 .. LastStep /\ net.lastId \in 0 .. MaxVehicles
  /\ net.vehs \cup ToSet(net.waiting) \subseteq Objects
  /\ net.fleet \subseteq Objects \cup {Nobody}
  /\ net.ready \in {None} \cup Ids(net.vehs)
  /\ net.lastOut \in 0 .. LastStep /\ copies \in 0 .. MaxRollbacks
  /\ ToSet(out.doc.insts) \cup ToSet(out.rows) \subseteq 1 .. LastStep
  /\ DOMAIN out.doc.vehs \subseteq 0 .. MaxVehicles - 1
  /\ master \in BOOLEAN /\ period \in Periods
  /\ pc \in {"init", "start", "step", "end", "return", "done"}
  /\ nIteration \in 0 .. NbItMax \cup {1} /\ bLastInstSimu \in BOOLEAN

\* The fleets own exactly the vehicles that run or wait, after every rollback
\* too: SimulationSnapshot::Restore builds new vehicles and the fleets find
\* them again by id, those that wait at an entry included.
FleetsMatchNetwork ==
  pc # "done" => net.fleet = net.vehs \cup ToSet(net.waiting)

\* The assertion of Affectation::Run: an iteration under way has one snapshot,
\* and none is open when a period begins.
OneSnapshot == ~master => Len(snapshots) = (IF nIteration > 0 THEN 1 ELSE 0)

\* A snapshot is a mark on the one timeline of the simulation: see Timeline.
\* The present is what a snapshot holds of the network, objects apart, and
\* what the final files would hold, documents and rows, if everything open
\* were committed; a row that converge will not find (Converged) is lost to
\* it as soon as it is written.  m_dbLastInstCreation is not brought back.
State(n) == <<n.inst, n.lastId, Ids(n.vehs), n.ready, [i \in DOMAIN n.waiting |-> n.waiting[i].id]>>

Whole(n)  == Commit(out, SubSeq(snapshots, 1, n))

History == INSTANCE Timeline WITH
  present <- [network |-> State(net), output |-> Whole(Len(snapshots))],
  marks   <- [i \in DOMAIN snapshots |->
                [network |-> State(snapshots[i].saved), output |-> Whole(i - 1)]],
  unmarked <- net.lastOut

ImplementsTimeline == History!Spec

\* What is in the final files stays there, whatever is rolled back: a restore
\* removes vehicle nodes from them by id, and ids are used again.
FilesOnlyGrow == [][History!Grows(out, out')]_vars

\* Periods that share the simulation out evenly, in more than one part.
EvenPeriods == period < LastStep /\ LastStep % period = 0

\* When the driver ends, every step is in the final files once, in order: the
\* last iteration of the last period has been committed.
OutputComplete ==
  pc = "done" /\ EvenPeriods =>
    /\ snapshots = <<>>
    /\ out.doc.insts = [i \in 1 .. LastStep |-> i]
    /\ out.rows = out.doc.insts
    /\ \A id \in DOMAIN out.doc.vehs : out.doc.vehs[id].created # Unset

\* Iterations come to an end and the simulation with them.
SimulationEnds == master \/ <>(pc = "done")
=============================================================================
