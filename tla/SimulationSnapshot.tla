-------------------------- MODULE SimulationSnapshot --------------------------
(***************************************************************************)
(* Snapshots of a running simulation: SimulationSnapshot.cpp, the functions *)
(* of Affectation.cpp that take, commit and roll back snapshots, and the    *)
(* output documents they swap (XMLDocTrafic.cpp, CSVOutputWriter.cpp).      *)
(*                                                                          *)
(* While a snapshot is open a step writes to its temporary files; a commit  *)
(* copies them to the final files, a rollback throws them away and restores *)
(* the network from copies.  A restored vehicle is a new object: lists      *)
(* elsewhere that pointed to the old one have to be rebuilt.                *)
(*                                                                          *)
(* The network is one entry (a car park when ExitGap > 0) that feeds one    *)
(* road, and a bus line.  One document stands for the outputs of a network  *)
(* with one time range; sensor rows stand for the CSV files.                *)
(***************************************************************************)
EXTENDS Integers, Sequences, SequencesExt, FiniteSetsExt

CONSTANTS LastStep,      \* steps of the simulation
          ExitGap,       \* GetInterTpsSortie, in steps
          MaxVehicles,   \* bound on the vehicles of one timeline
          MaxRollbacks   \* bound on the rollbacks told apart

ASSUME SnapshotAssumption == {LastStep, ExitGap, MaxVehicles, MaxRollbacks} \subseteq Nat

VARIABLES net,         \* the network: see NetworkType
          copies,      \* restorations so far; objects built since carry the number
          out,         \* final files
          snapshots    \* m_SimulationSnapshots

None   == -1           \* no ready vehicle; a reference to no vehicle
Unset  == 0            \* an attribute not written
Never  == LastStep + 1 \* "-1": the vehicle was in the network at the end

(***************************************************************************)
(* Output documents: INST nodes in order, VEH nodes by id.                  *)
(***************************************************************************)
EmptyDoc == [insts |-> <<>>, vehs |-> <<>>]
Node(c)  == [created |-> c, entered |-> Unset, left |-> Unset]

AddInstant(d, t) == [d EXCEPT !.insts = Append(@, t)]

\* An attribute of a node that this document does not have goes to a new,
\* otherwise empty, node.
WithNode(d, id, node) ==
  [d EXCEPT !.vehs = [i \in DOMAIN @ \cup {id} |-> IF i = id THEN node ELSE @[i]]]

NodeOf(d, id) == IF id \in DOMAIN d.vehs THEN d.vehs[id] ELSE Node(Unset)

AddVehicule(d, id, t)              == WithNode(d, id, Node(t))
UpdateInstEntreeVehicule(d, id, t) == WithNode(d, id, [NodeOf(d, id) EXCEPT !.entered = t])
UpdateInstSortieVehicule(d, id, t) == WithNode(d, id, [NodeOf(d, id) EXCEPT !.left = t])

\* A mutant: the last vehicle before the snapshot is removed too.
RemoveFromLast(d, from) ==
  [d EXCEPT !.vehs = [i \in {j \in DOMAIN @ : j + 1 < from} |-> @[i]]]

RemoveVehicules(d, from) ==
  [d EXCEPT !.vehs = [i \in {j \in DOMAIN @ : j < from} |-> @[i]]]

Updated(old, new) == IF new = Unset THEN old ELSE new

MergedNode(a, b) == [a EXCEPT !.entered = Updated(@, b.entered),
                              !.left    = Updated(@, b.left)]

Add(d, source) ==
  [insts |-> d.insts \o source.insts,
   vehs  |-> [i \in DOMAIN d.vehs \cup DOMAIN source.vehs |->
                IF i \in DOMAIN d.vehs THEN MergedNode(d.vehs[i], NodeOf(source, i))
                                       ELSE source.vehs[i]]]

(***************************************************************************)
(* The network.  A vehicle is an object; a list of vehicles is a list of    *)
(* objects, whatever their ids.                                             *)
(***************************************************************************)
Vehicle(id, kind) == [id |-> id, kind |-> kind, copy |-> copies]
Nobody            == [id |-> None, kind |-> "none", copy |-> 0]
Ids(S)            == {v.id : v \in S}

EmptyNet ==
  [inst    |-> 0,        \* m_nInstSim
   lastId  |-> 0,        \* m_nLastVehicleID
   vehs    |-> {},       \* m_LstVehicles
   ready   |-> None,     \* m_mapVehPret
   waiting |-> <<>>,     \* m_mapVehEnAttente
   lastOut |-> 0,        \* m_dbLastInstCreation
   fleet   |-> {}]       \* the vehicle lists of the fleets

CanInsertVehicle(n) == n.inst >= n.lastOut + ExitGap

\* A world is what a step changes: the network and the current document.
World(n, d) == [net |-> n, doc |-> d]

GenerateVehicle(w) ==
  LET v == Vehicle(w.net.lastId, "car")
      n == [w.net EXCEPT !.lastId = @ + 1, !.fleet = @ \cup {v}]
  IN  World(IF n.ready # None \/ n.waiting # <<>> \/ ~CanInsertVehicle(n)
            THEN [n EXCEPT !.waiting = Append(@, v)]
            ELSE [n EXCEPT !.ready = v.id, !.vehs = @ \cup {v}],
            AddVehicule(w.doc, v.id, n.inst))

ActivateBus(w) ==
  LET v == Vehicle(w.net.lastId, "bus")
  IN  World([w.net EXCEPT !.lastId = @ + 1, !.fleet = @ \cup {v}, !.vehs = @ \cup {v}],
            AddVehicule(w.doc, v.id, w.net.inst))

\* InsertionVehEnAttente: the ready vehicle has moved.
ReadyEntered(w) ==
  World([w.net EXCEPT !.ready = None, !.lastOut = w.net.inst],
        UpdateInstEntreeVehicule(w.doc, w.net.ready, w.net.inst))

\* InsertionVehEnAttente: the first waiting vehicle finds room.
FirstInserted(w) ==
  LET v == Head(w.net.waiting)
  IN  World([w.net EXCEPT !.waiting = Tail(@), !.vehs = @ \cup {v}, !.lastOut = w.net.inst],
            UpdateInstEntreeVehicule(w.doc, v.id, w.net.inst))

Left(w, v) ==
  World([w.net EXCEPT !.vehs = @ \ {v}, !.fleet = @ \ {v}],
        UpdateInstSortieVehicule(w.doc, v.id, w.net.inst))

Created(w) == {w} \cup (IF w.net.lastId = MaxVehicles THEN {}
                        ELSE {GenerateVehicle(w), ActivateBus(w)})

\* The entry is looked at once a step: a ready vehicle that does not move
\* keeps the others waiting, one that moves lets the next in at once when
\* the barrier allows it.
Inserted(w) ==
  LET afterReady == IF w.net.ready = None THEN {w} ELSE {ReadyEntered(w)}
  IN  {w} \cup afterReady \cup {FirstInserted(x) : x \in
        {y \in afterReady : y.net.waiting # <<>> /\ CanInsertVehicle(y.net)}}

Departed(w) == {w} \cup {Left(w, v) : v \in {u \in w.net.vehs : u.id # w.net.ready}}

(***************************************************************************)
(* Snapshots.                                                               *)
(***************************************************************************)
CurrentDoc == IF snapshots = <<>> THEN out.doc ELSE Last(snapshots).doc

\* CSV rows go to the temporary file of the last snapshot too.
Written(d, rows) ==
  IF snapshots = <<>>
  THEN out' = [doc |-> d, rows |-> out.rows \o rows] /\ UNCHANGED snapshots
  ELSE /\ snapshots' = [snapshots EXCEPT ![Len(snapshots)].doc = d,
                                         ![Len(snapshots)].rows = @ \o rows]
       /\ UNCHANGED out

Backup(n) == [inst |-> n.inst, lastId |-> n.lastId, vehs |-> n.vehs, ready |-> n.ready,
              waiting |-> n.waiting, fleet |-> Ids(n.fleet)]

\* SwitchToTempFiles: snapshots are numbered by their place in the list.
WithTempFiles(saved, file) ==
  [saved |-> saved, doc |-> EmptyDoc, rows |-> <<>>, file |-> file]

Taken(n, list) == Append(list, WithTempFiles(Backup(n), Len(list)))

\* CSVOutputWriter::converge reads the temporary file without a number: that
\* of snapshot 0, which is removed once snapshot 0 is validated.
Converged(rows, snapshot) == IF snapshot.file = 0 THEN rows \o snapshot.rows ELSE rows

Validated(files, snapshot) == [doc  |-> Add(files.doc, snapshot.doc),
                               rows |-> Converged(files.rows, snapshot)]

Commit(files, list) == FoldLeft(Validated, files, list)

\* The objects that Restore builds.
NextCopy  == (copies + 1) % (MaxRollbacks + 1)
Copied(v) == [v EXCEPT !.copy = NextCopy]

\* A mutant: only the vehicles of the network are searched.
FoundOnNetwork(id, here, waiting) ==
  IF id \in Ids(here) THEN CHOOSE v \in here : v.id = id ELSE Nobody

\* GetVehiculeFromID, then the vehicles that wait at an entry.
Found(id, here, waiting) ==
  LET known == {v \in here \cup ToSet(waiting) : v.id = id}
  IN  IF known = {} THEN Nobody ELSE CHOOSE v \in known : TRUE

\* A mutant: the number of the last vehicle is not brought back.
RestoredButIds(n, saved) ==
  LET here    == {Copied(v) : v \in saved.vehs}
      waiting == [i \in DOMAIN saved.waiting |-> Copied(saved.waiting[i])]
  IN  [n EXCEPT !.inst = saved.inst, !.vehs = here, !.ready = saved.ready,
                !.waiting = waiting, !.fleet = {Found(id, here, waiting) : id \in saved.fleet}]

\* The waiting vehicles are restored before the fleets look for them.
Restored(n, saved) ==
  LET here    == {Copied(v) : v \in saved.vehs}
      waiting == [i \in DOMAIN saved.waiting |-> Copied(saved.waiting[i])]
  IN  [n EXCEPT !.inst = saved.inst, !.lastId = saved.lastId, !.vehs = here,
                !.ready = saved.ready, !.waiting = waiting,
                !.fleet = {Found(id, here, waiting) : id \in saved.fleet}]

\* Older snapshots are validated, newer ones discarded; the chosen one is
\* left open with new temporary files.
SimulationRollback(i) ==
  LET older == Commit(out, SubSeq(snapshots, 1, i - 1))
      saved == snapshots[i].saved
  IN  /\ net' = Restored(net, saved)
      /\ copies' = NextCopy
      /\ out' = [older EXCEPT !.doc = RemoveVehicules(@, saved.lastId)]
      /\ snapshots' = <<WithTempFiles(saved, 0)>>

TakeSimulationSnapshot == /\ snapshots' = Taken(net, snapshots)
                          /\ UNCHANGED <<net, copies, out>>

SimulationCommit == /\ out' = Commit(out, snapshots)
                    /\ snapshots' = <<>>
                    /\ UNCHANGED <<net, copies>>

\* A step of SimuTrafic: clock and instant, creations, insertion, departures,
\* outputs.
TimeStep ==
  LET now   == net.inst + 1
      start == World([net EXCEPT !.inst = now], AddInstant(CurrentDoc, now))
  IN  /\ net.inst < LastStep
      /\ \E c \in Created(start) : \E e \in Inserted(c) : \E w \in Departed(e) :
           /\ net' = w.net
           /\ Written(w.doc, <<now>>)
      /\ UNCHANGED copies

\* FinSimuTrafic: the vehicles still there are written as never having left.
FinSimuTrafic ==
  /\ Written(FoldSet(LAMBDA v, d : UpdateInstSortieVehicule(d, v.id, Never),
                     CurrentDoc, net.vehs), <<>>)
  /\ net' = [net EXCEPT !.vehs = {}, !.waiting = <<>>, !.ready = None]
  /\ UNCHANGED copies

SnapshotInit == /\ net = EmptyNet /\ copies = 0
                /\ out = [doc |-> EmptyDoc, rows |-> <<>>]
                /\ snapshots = <<>>
=============================================================================
