----------------------------- MODULE MCOnDemand -----------------------------
(* A wizard and its retry, one at another depot for the same driver, whose *)
(* later start is the same local day there; three people at the button,    *)
(* which may find a planned shift at the warehouse.                        *)
EXTENDS OnDemand, TLC

CONSTANTS w1, w2, w3, d1, d2, v1, v2, a1, p1, p2, t1, t2, t3

MCWizard(depot, start, vehicle, packages) ==
  [depot |-> depot, start |-> start, driver |-> a1, vehicle |-> vehicle, packages |-> packages]

MCForm == w1 :> MCWizard(d1, "early", v1, {p1, p2}) @@ w2 :> MCWizard(d1, "early", v1, {p1, p2})
          @@ w3 :> MCWizard(d2, "late", v2, {})
MCLocalDay == d1 :> [early |-> 1, late |-> 2] @@ d2 :> [early |-> 0, late |-> 1]
MCHomes == {a1 :> d @@ v1 :> d1 @@ v2 :> d2 : d \in {d1, d2}}
MCPackageDepot == p1 :> d1 @@ p2 :> d1
MCAt0 == [t \in Triggers |-> d1]

ShiftThere ==
  /\ opened[w1] = NoShift
  /\ opened' = [opened EXCEPT ![w1] = [status |-> "planned", day |-> Day(w1)]]
  /\ UNCHANGED <<wizard, claims, home, depotLock, time, triggerVars>>
=============================================================================
