---------------------------- MODULE MCMesoNetwork ----------------------------
(***************************************************************************)
(* Two networks.  Merge: the entries E1 and E2 lead to J by the links 1 and *)
(* 2, and 3 leads from J to the exit X.  Chain: E1 leads to J1 by 1, J1 to  *)
(* J2 by 2, E2 to J2 by 3, and J2 to X by 4.  X lets vehicles out more      *)
(* slowly than a link, so that queues spill back through the merges to the  *)
(* entries.                                                                 *)
(***************************************************************************)
EXTENDS MesoNetwork

CONSTANTS E1, E2, J, J1, J2, X

MergeNodes  == {E1, E2, J, X}
MergeUp     == <<E1, E2, J>>
MergeDown   == <<J, J, X>>
MergeRoutes == {<<1, 3>>, <<2, 3>>}
MergeDemands == BoundedSeq(MergeRoutes, 3)

ChainNodes  == {E1, E2, J1, J2, X}
ChainUp     == <<E1, J1, E2, J2>>
ChainDown   == <<J1, J2, J2, X>>
Long  == <<1, 2, 4>>
Short == <<3, 4>>
ChainRoutes == {Long, Short}

\* The order matters between instants only: vehicles of two entries that are
\* created together are independent.
Some(r, m, s, n) == [i \in 1 .. m + n |-> IF i <= m THEN r ELSE s]
ChainDemands == {Some(Long, m, Short, n) : m \in 0 .. 6, n \in 0 .. 4}
           \cup {Some(Short, m, Long, n) : m \in 0 .. 3, n \in 0 .. 4}

\* Every link alike, or link 3 shorter than the others.
Times(t) == [l \in 1 .. 4 |-> t]
Storages == <<2, 2, 1, 2>>
Waves    == <<3, 3, 1, 3>>
One      == Times(1)
Two      == Times(2)
Three    == Times(3)
=============================================================================
