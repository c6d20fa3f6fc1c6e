------------------------------ MODULE MCTier1 ------------------------------
(* A depot with one driver/vehicle pairing assignments may open a shift    *)
(* for, and a second driver and vehicle only the dispatcher uses.  v1      *)
(* takes one stop and v2 two; d1 covers p1 and p2, d2 only p2; v2 lacks    *)
(* the skill p3 needs.                                                     *)
EXTENDS Tier1, TLC

CONSTANTS s1, s2, d1, d2, v1, v2, p1, p2, p3, c1, c2, c3

MCPairings == {<<d1, v1>>}
MCCovers == d1 :> {p1, p2} @@ d2 :> {p2}
MCCarries == v1 :> Packages @@ v2 :> {p1, p2}
MCGrossLimits == v1 :> 1 @@ v2 :> 2
MCFeasible(driver, vehicle, stops) == Cardinality(stops) <= MCGrossLimits[vehicle]

(* Calls differ in nothing but their name.                                 *)
MCSymmetry == Permutations(Calls)

(* Of the three calls one places p1, one p2, and the third any package:    *)
(* two requests for one package, or three for three.                       *)
MCInit ==
  /\ Init
  /\ {p1, p2} \subseteq {pkg[c] : c \in Calls}
=============================================================================
