--------------------------- MODULE MCDeliveryTour ---------------------------
(* Two vehicles on a tour to two points, to which the orders of the        *)
(* interface add one more passage, anywhere, and from which they remove    *)
(* any; each point has a single place, p beside the lane and q on it.      *)
EXTENDS DeliveryTour, TLC

CONSTANTS p, q

MCPlaces == p :> 1 @@ q :> 1
MCPlan == <<p, q>>
=============================================================================
