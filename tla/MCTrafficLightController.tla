----------------------- MODULE MCTrafficLightController -----------------------
(***************************************************************************)
(* A cycle of three unequal sequences for TrafficLightController: a bus may *)
(* leave the zone late in the first or second one, when the return has to   *)
(* shrink the sequences below the minimal green.                            *)
(***************************************************************************)
EXTENDS TrafficLightController

ThreeSequences == <<[length |-> 3, green |-> 2, delay |-> 0],
                    [length |-> 4, green |-> 3, delay |-> 1],
                    [length |-> 2, green |-> 1, delay |-> 0]>>
=============================================================================
