----------------------------- MODULE MCDispatch -----------------------------
(* A depot with two packages and two driver/vehicle pairings, each with    *)
(* room for one stop, which only a dispatcher's pin exceeds.  d1 covers    *)
(* both packages and d2 one.                                               *)
EXTENDS Dispatch, TLC

CONSTANTS s1, s2, d1, d2, v1, v2, p1, p2, c1, c2, w1, w2, e1, e2

MCPairings == {<<d1, v1>>, <<d2, v2>>}
MCOnePairing == {<<d1, v1>>}
MCCovers == d1 :> {p1, p2} @@ d2 :> {p2}
MCCarries == v1 :> {p1, p2} @@ v2 :> {p1, p2}
MCGrossLimits == v1 :> 1 @@ v2 :> 1
MCFeasible(driver, vehicle, stops) == Cardinality(stops) <= MCGrossLimits[vehicle]

(* The same depot with a van that has room for both packages.              *)
MCLargerLimits == v1 :> 2 @@ v2 :> 1
MCRoomy(driver, vehicle, stops) == Cardinality(stops) <= MCLargerLimits[vehicle]
=============================================================================
