--------------------------- MODULE MCParkingSearch ---------------------------
(***************************************************************************)
(* A zone of five streets.  Vehicles enter by "in"; a and b are a ring; the *)
(* park is entered after b and left into c; from b one can also go to c and *)
(* then d, with no way back.                                                *)
(***************************************************************************)
EXTENDS ParkingSearch

MCLinks    == {"in", "a", "b", "c", "d"}
MCCapacity == [l \in MCLinks |-> IF l \in {"b", "c"} THEN 1 ELSE 0]

\* Where one comes from each street, in this order.
Ahead(l) == CASE l = "in" -> <<"a", "b", "c", "d">>
              [] l = "a"  -> <<"b", "c", "d">>
              [] l = "b"  -> <<"a", "c", "d">>
              [] l = "c"  -> <<"d">>
              [] OTHER    -> <<>>

\* The way to d; from b to c one does not pass by a.
UpTo(l, d) == LET s == SelectSeq(Ahead(l), LAMBDA x : l # "b" \/ d = "a" \/ x # "a")
              IN  SubSeq(s, 1, CHOOSE i \in DOMAIN s : s[i] = d)

MCPath == [l \in MCLinks |->
             [d \in ToSet(Ahead(l)) \cup (IF l \in {"in", "a"} THEN {"park"} ELSE {}) |->
                UpTo(l, IF d = "park" THEN "b" ELSE d)]]
=============================================================================
