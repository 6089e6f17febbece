------------------------------- MODULE Timeline -------------------------------
(***************************************************************************)
(* What snapshots promise to whoever takes them: a simulation has one       *)
(* present, the state of the network with everything the simulation has     *)
(* written so far, and a list of marks.  Time goes on by adding to what is  *)
(* written; returning to a mark brings the whole present back to what it    *)
(* was there; dropping the marks changes nothing.  What the marks do not    *)
(* hold ("unmarked") is not part of the present: a return leaves it as the  *)
(* time since the mark has made it.                                         *)
(***************************************************************************)
EXTENDS Naturals, Sequences, SequencesExt

VARIABLES present,   \* [network, output]
          marks,     \* presents to return to, oldest first
          unmarked   \* the rest of the network

timeline == <<present, marks, unmarked>>

\* A document only grows: instants are added at the end, attributes of a
\* vehicle are set once.
DocGrows(old, new) ==
  /\ IsPrefix(old.insts, new.insts)
  /\ \A id \in DOMAIN old.vehs :
       /\ id \in DOMAIN new.vehs
       /\ \A attribute \in DOMAIN old.vehs[id] :
            old.vehs[id][attribute] \in {0, new.vehs[id][attribute]}

\* And so does a table: rows are added at the end.
Grows(old, new) == DocGrows(old.doc, new.doc) /\ IsPrefix(old.rows, new.rows)

Advance == /\ Grows(present.output, present'.output)
           /\ UNCHANGED marks

Mark    == /\ marks' = Append(marks, present)
           /\ UNCHANGED <<present, unmarked>>

\* The marks are dropped, and a new one may be put at once.
Settle  == /\ marks' \in {<<>>, <<present>>}
           /\ UNCHANGED <<present, unmarked>>

Return  == \E i \in DOMAIN marks : /\ present' = marks[i]
                                   /\ marks' = <<marks[i]>>
                                   /\ UNCHANGED unmarked

Next == Advance \/ Mark \/ Settle \/ Return

Spec == marks = <<>> /\ [][Next]_timeline
=============================================================================
