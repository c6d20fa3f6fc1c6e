---------------------------- MODULE Tier1_proofs ----------------------------
(***************************************************************************)
(* Instant assignment keeps the claims and the plan in agreement, for any  *)
(* number of shifts, packages and concurrent calls, whatever "feasible"    *)
(* means.                                                                  *)
(*                                                                         *)
(* The argument is the one hasMoved's comment makes.  A write either       *)
(* leaves a shift's plan alone or raises its revision (Respects), so a     *)
(* shift that still has the revision Phase A read has the plan Phase A     *)
(* read (PricedPlanIsCurrent), so rewriting it from that copy loses and    *)
(* invents nothing (ClaimsArePlanned).                                     *)
(***************************************************************************)
EXTENDS Tier1, TLAPS

(* ClaimsArePlanned and EvictionBound as predicates of the tables.         *)
Agree(d) == \A p \in Packages, s \in Shifts : d.optimisation[p] = s <=> p \in d.route[s]

Bounded(d) == \A p \in Packages : d.evictionCount[p] <= MaxEvictions

(* A row that does not exist yet has no route and no revision, and a row   *)
(* that does has one.                                                      *)
Vacant(d) ==
  \A s \in Shifts : /\ d.status[s] = "none" => d.route[s] = {} /\ d.revision[s] = 0
                    /\ d.status[s] # "none" => d.revision[s] > 0

(* A package reads PENDING exactly while it is unclaimed, and one in       *)
(* transit is on a shift that has left.                                    *)
Told(d) ==
  \A p \in Packages :
    /\ d.timeline[p] = "PENDING" <=> d.optimisation[p] = NoShift
    /\ d.timeline[p] = "IN_TRANSIT" => d.status[d.optimisation[p]] = "dispatched"

Consistent(d) == d \in Tables /\ Agree(d) /\ Bounded(d) /\ Vacant(d) /\ Told(d)

(* From tables d to tables e: an existing shift either moves its revision  *)
(* forward or keeps its status, its stops and their eviction counts; the   *)
(* stops of one that is on the road stay in either case.                   *)
Respects(d, e) ==
  \A s \in Shifts : d.status[s] # "none" =>
    /\ e.status[s] # "none"
    /\ e.revision[s] >= d.revision[s]
    /\ d.status[s] = "dispatched" =>
         e.status[s] = "dispatched" /\ e.route[s] = d.route[s]
    /\ e.revision[s] = d.revision[s] =>
         /\ e.status[s] = d.status[s]
         /\ e.route[s] = d.route[s]
         /\ \A p \in d.route[s] : e.evictionCount[p] = d.evictionCount[p]

(* A package in transit keeps its status and its shift.                    *)
KeepsCarried(d, e) ==
  \A p \in Packages : d.timeline[p] = "IN_TRANSIT" =>
    e.timeline[p] = "IN_TRANSIT" /\ e.optimisation[p] = d.optimisation[p]

Moves(d, e) == Respects(d, e) /\ KeepsCarried(d, e)

(* Only the plan of shift s was written, and its revision says so.         *)
Rewrites(d, e, s) ==
  /\ e.status = d.status
  /\ e.evictionCount = d.evictionCount
  /\ e.revision[s] = d.revision[s] + 1
  /\ \A t \in Shifts \ {s} : e.revision[t] = d.revision[t] /\ e.route[t] = d.route[t]

(* A call's first read is never ahead of the tables.                       *)
ReadBehind ==
  \A c \in Calls : pc[c] \in {"stops", "commit"} =>
    \A s \in seen[c].candidates :
      /\ db.status[s] # "none"
      /\ seen[c].revision[s] <= db.revision[s]

IInv == TypeOK /\ Consistent(db) /\ ReadBehind /\ PricedPlanIsCurrent

-----------------------------------------------------------------------------
(* What one write of ShiftPlanWriter does to each column.                  *)

(* The trigger moves one revision forward and nothing else.                *)
LEMMA TouchColumns ==
  ASSUME NEW d \in Tables, NEW s \in Shifts
  PROVE  /\ Touch(d, s) \in Tables
         /\ Touch(d, s).revision = [d.revision EXCEPT ![s] = @ + 1]
         /\ Touch(d, s).status = d.status
         /\ Touch(d, s).route = d.route
         /\ Touch(d, s).optimisation = d.optimisation
         /\ Touch(d, s).evictionCount = d.evictionCount
         /\ Touch(d, s).timeline = d.timeline
<1> DEFINE r == [d.revision EXCEPT ![s] = @ + 1]
<1>1. r \in [Shifts -> Nat]
  BY DEF Tables
<1>2. Touch(d, s) = [d EXCEPT !.revision = r]
  BY DEF Touch, Tables
<1> HIDE DEF r
<1>3. /\ [d EXCEPT !.revision = r] \in Tables
      /\ [d EXCEPT !.revision = r].revision = r
      /\ [d EXCEPT !.revision = r].status = d.status
      /\ [d EXCEPT !.revision = r].route = d.route
      /\ [d EXCEPT !.revision = r].optimisation = d.optimisation
      /\ [d EXCEPT !.revision = r].evictionCount = d.evictionCount
      /\ [d EXCEPT !.revision = r].timeline = d.timeline
  BY <1>1 DEF Tables
<1> QED BY <1>2, <1>3 DEF r

(* writePlan replaces the stops of one shift and moves its revision.       *)
LEMMA WritePlanColumns ==
  ASSUME NEW d \in Tables, NEW s \in Shifts, NEW stops \in SUBSET Packages
  PROVE  /\ WritePlan(d, s, stops) \in Tables
         /\ WritePlan(d, s, stops).revision = [d.revision EXCEPT ![s] = @ + 1]
         /\ WritePlan(d, s, stops).status = d.status
         /\ WritePlan(d, s, stops).route = [d.route EXCEPT ![s] = stops]
         /\ WritePlan(d, s, stops).optimisation = d.optimisation
         /\ WritePlan(d, s, stops).evictionCount = d.evictionCount
         /\ WritePlan(d, s, stops).timeline = d.timeline
<1> DEFINE e == [d EXCEPT !.route[s] = stops]
<1>1. /\ e \in Tables /\ e.revision = d.revision /\ e.status = d.status
      /\ e.route = [d.route EXCEPT ![s] = stops]
      /\ e.optimisation = d.optimisation /\ e.evictionCount = d.evictionCount
      /\ e.timeline = d.timeline
  BY DEF Tables
<1>2. WritePlan(d, s, stops) = Touch(e, s)
  BY DEF WritePlan
<1> HIDE DEF e
<1> QED BY <1>1, <1>2, TouchColumns

(* A snapshot changes nothing but the history.                             *)
LEMMA SnapshotColumns ==
  ASSUME NEW d \in Tables, NEW s \in Shifts
  PROVE  LET e == SnapshotRevision(d, s)
         IN  /\ e \in Tables
             /\ e.revision = d.revision
             /\ e.status = d.status
             /\ e.route = d.route
             /\ e.optimisation = d.optimisation
             /\ e.evictionCount = d.evictionCount
             /\ e.timeline = d.timeline
BY DEF SnapshotRevision, Tables

(* claimPackages writes the claim and the status of the named packages.    *)
LEMMA ClaimColumns ==
  ASSUME NEW d \in Tables, NEW s \in Shifts, NEW ids \in SUBSET Packages
  PROVE  LET e == EnqueueReplan(ClaimPackages(d, s, ids), s)
         IN  /\ e \in Tables
             /\ e.revision = d.revision
             /\ e.status = d.status
             /\ e.route = d.route
             /\ e.optimisation =
                  [p \in Packages |-> IF p \in ids THEN s ELSE d.optimisation[p]]
             /\ e.evictionCount = d.evictionCount
             /\ e.timeline =
                  [p \in Packages |-> IF p \in ids THEN "ASSIGNED" ELSE d.timeline[p]]
BY DEF ClaimPackages, EnqueueReplan, Tables, PackageStatus

(* detach clears claims and stops, and counts the eviction.                *)
LEMMA DetachColumns ==
  ASSUME NEW d \in Tables, NEW ids \in SUBSET Packages, NEW n \in Nat
  PROVE  LET e == Detach(d, ids, n)
         IN  /\ e \in Tables
             /\ e.revision = d.revision
             /\ e.status = d.status
             /\ e.route = [s \in Shifts |-> d.route[s] \ ids]
             /\ e.optimisation =
                  [p \in Packages |-> IF p \in ids THEN NoShift ELSE d.optimisation[p]]
             /\ e.evictionCount =
                  [p \in Packages |-> IF p \in ids THEN d.evictionCount[p] + n
                                      ELSE d.evictionCount[p]]
             /\ e.timeline =
                  [p \in Packages |-> IF p \in ids THEN "PENDING" ELSE d.timeline[p]]
<1> DEFINE claims == [p \in Packages |-> IF p \in ids THEN NoShift ELSE d.optimisation[p]]
           counts == [p \in Packages |-> IF p \in ids THEN d.evictionCount[p] + n
                                         ELSE d.evictionCount[p]]
           stages == [p \in Packages |-> IF p \in ids THEN "PENDING" ELSE d.timeline[p]]
           routes == [s \in Shifts |-> d.route[s] \ ids]
<1>1. /\ claims \in [Packages -> Shifts \cup {NoShift}]
      /\ stages \in [Packages -> PackageStatus]
      /\ routes \in [Shifts -> SUBSET Packages]
  BY DEF Tables, PackageStatus
<1>2. counts \in [Packages -> Nat]
  BY DEF Tables
<1>3. Detach(d, ids, n) =
        [d EXCEPT !.route = routes, !.optimisation = claims,
                  !.evictionCount = counts, !.timeline = stages]
  BY DEF Detach, Tables
<1> HIDE DEF claims, counts, stages, routes
<1> DEFINE e == [d EXCEPT !.route = routes, !.optimisation = claims,
                          !.evictionCount = counts, !.timeline = stages]
<1>4. /\ e \in Tables /\ e.revision = d.revision /\ e.status = d.status
      /\ e.route = routes /\ e.optimisation = claims /\ e.evictionCount = counts
      /\ e.timeline = stages
  BY <1>1, <1>2 DEF Tables
<1> QED BY <1>3, <1>4 DEF claims, counts, stages, routes

(* openShift fills one row that did not exist.                             *)
LEMMA InsertColumns ==
  ASSUME NEW d \in Tables, NEW s \in Shifts, NEW w \in Drivers, NEW v \in Vehicles
  PROVE  LET e == InsertShift(d, s, w, v)
         IN  /\ e \in Tables
             /\ e.revision = [d.revision EXCEPT ![s] = 1]
             /\ e.status = [d.status EXCEPT ![s] = "planned"]
             /\ e.route = d.route
             /\ e.optimisation = d.optimisation
             /\ e.evictionCount = d.evictionCount
             /\ e.timeline = d.timeline
BY DEF InsertShift, Tables, ShiftStatus

-----------------------------------------------------------------------------
(* What each kind of transaction does to the tables as a whole.            *)

(* A whole placement rewrites one shift and claims one package for it.     *)
LEMMA PlacedColumns ==
  ASSUME NEW d \in Tables, NEW c \in Calls, NEW s \in Shifts,
         NEW stops \in SUBSET Packages, pkg[c] \in Packages
  PROVE  LET e == Placed(c, d, s, stops)
         IN  /\ e \in Tables
             /\ e.revision = [d.revision EXCEPT ![s] = @ + 1]
             /\ e.status = d.status
             /\ e.route = [d.route EXCEPT ![s] = stops \cup {pkg[c]}]
             /\ e.optimisation =
                  [p \in Packages |-> IF p = pkg[c] THEN s ELSE d.optimisation[p]]
             /\ e.evictionCount = d.evictionCount
             /\ e.timeline =
                  [p \in Packages |-> IF p = pkg[c] THEN "ASSIGNED" ELSE d.timeline[p]]
<1> DEFINE h == SnapshotRevision(d, s)
           w == WritePlan(h, s, stops \cup {pkg[c]})
           e == EnqueueReplan(ClaimPackages(w, s, {pkg[c]}), s)
<1>0. /\ stops \cup {pkg[c]} \in SUBSET Packages
      /\ h \in Tables /\ h.revision = d.revision /\ h.status = d.status
      /\ h.route = d.route /\ h.optimisation = d.optimisation
      /\ h.evictionCount = d.evictionCount /\ h.timeline = d.timeline
  BY SnapshotColumns
<1> HIDE DEF h
<1>1. /\ w \in Tables
      /\ w.revision = [h.revision EXCEPT ![s] = @ + 1]
      /\ w.status = h.status
      /\ w.route = [h.route EXCEPT ![s] = stops \cup {pkg[c]}]
      /\ w.optimisation = h.optimisation
      /\ w.evictionCount = h.evictionCount
      /\ w.timeline = h.timeline
  BY ZenonT(60), <1>0, WritePlanColumns
<1>2. Placed(c, d, s, stops) = e
  BY DEF Placed, h
<1> HIDE DEF w
<1>3. /\ e \in Tables /\ e.revision = w.revision /\ e.status = w.status
      /\ e.route = w.route
      /\ e.optimisation =
           [p \in Packages |-> IF p \in {pkg[c]} THEN s ELSE w.optimisation[p]]
      /\ e.evictionCount = w.evictionCount
      /\ e.timeline =
           [p \in Packages |-> IF p \in {pkg[c]} THEN "ASSIGNED" ELSE w.timeline[p]]
  BY <1>1, ClaimColumns
<1> HIDE DEF e
<1> QED BY <1>0, <1>1, <1>2, <1>3

(* Placing a package on the stops the shift has now keeps claims and plan  *)
(* in agreement: claimPackages writes the one, writePlan the other.        *)
LEMMA PlacedConsistent ==
  ASSUME NEW d, Consistent(d), NEW c \in Calls, NEW s \in Shifts,
         pkg[c] \in Packages, d.status[s] = "planned",
         CanPlace(c, d, s, d.route[s])
  PROVE  /\ Consistent(Placed(c, d, s, d.route[s]))
         /\ Moves(d, Placed(c, d, s, d.route[s]))
         /\ Rewrites(d, Placed(c, d, s, d.route[s]), s)
<1> DEFINE stops == d.route[s]
           e == Placed(c, d, s, stops)
<1>1. d \in Tables /\ stops \in SUBSET Packages
  BY DEF Consistent, Tables
<1>2. /\ e \in Tables
      /\ e.revision = [d.revision EXCEPT ![s] = @ + 1]
      /\ e.status = d.status
      /\ e.route = [d.route EXCEPT ![s] = stops \cup {pkg[c]}]
      /\ e.optimisation =
           [p \in Packages |-> IF p = pkg[c] THEN s ELSE d.optimisation[p]]
      /\ e.evictionCount = d.evictionCount
      /\ e.timeline =
           [p \in Packages |-> IF p = pkg[c] THEN "ASSIGNED" ELSE d.timeline[p]]
  BY <1>1, PlacedColumns
<1> HIDE DEF e
<1>3. d.route \in [Shifts -> SUBSET Packages] /\ d.revision \in [Shifts -> Nat]
  BY <1>1 DEF Tables
<1>4. Agree(e)
  <2> SUFFICES ASSUME NEW p \in Packages, NEW t \in Shifts
               PROVE  e.optimisation[p] = t <=> p \in e.route[t]
    BY DEF Agree
  <2>1. d.optimisation[p] = t <=> p \in d.route[t]
    BY DEF Consistent, Agree
  <2>2. t # s => d.route[t] \cap (stops \cup {pkg[c]}) = {}
    BY DEF CanPlace, CanWritePlan
  <2> QED BY <1>2, <1>3, <2>1, <2>2
<1>5. Bounded(e) /\ Vacant(e)
  BY <1>2, <1>3 DEF Consistent, Bounded, Vacant
<1>6. Respects(d, e)
  BY <1>2, <1>3 DEF Respects
<1>7. Rewrites(d, e, s)
  BY <1>2, <1>3 DEF Rewrites
<1>8. d.optimisation[pkg[c]] = NoShift
  BY DEF CanPlace, CanClaim, Consistent, Agree
<1>9. Told(e) /\ KeepsCarried(d, e)
  BY <1>2, <1>8, NoShiftAssumption DEF Consistent, Told, KeepsCarried
<1> QED BY <1>2, <1>4, <1>5, <1>6, <1>7, <1>9 DEF Consistent, Moves, e

(* Detaching the stops of one shift, each below the eviction bound, keeps  *)
(* claims and plan in agreement and the bound.                             *)
LEMMA DetachConsistent ==
  ASSUME NEW d, Consistent(d), NEW ids \in SUBSET Packages,
         \A p \in ids : d.evictionCount[p] < MaxEvictions,
         NEW s \in Shifts, d.status[s] = "planned", ids \subseteq d.route[s],
         NEW e, e = Detach(d, ids, 1)
  PROVE  /\ Consistent(e)
         /\ KeepsCarried(d, e)
         /\ e.status = d.status
         /\ e.revision = d.revision
         /\ e.route[s] = d.route[s] \ ids
         /\ \A t \in Shifts \ {s} :
              /\ e.route[t] = d.route[t]
              /\ \A p \in d.route[t] : e.evictionCount[p] = d.evictionCount[p]
<1>1. d \in Tables /\ Agree(d) /\ Bounded(d) /\ Vacant(d) /\ Told(d)
  BY DEF Consistent
<1>2. /\ e \in Tables
      /\ e.revision = d.revision
      /\ e.status = d.status
      /\ e.route = [t \in Shifts |-> d.route[t] \ ids]
      /\ e.optimisation =
           [p \in Packages |-> IF p \in ids THEN NoShift ELSE d.optimisation[p]]
      /\ e.evictionCount = [p \in Packages |-> IF p \in ids THEN d.evictionCount[p] + 1
                                                ELSE d.evictionCount[p]]
      /\ e.timeline =
           [p \in Packages |-> IF p \in ids THEN "PENDING" ELSE d.timeline[p]]
  BY <1>1, DetachColumns
<1>3. Agree(e)
  BY <1>1, <1>2, NoShiftAssumption DEF Agree
<1>4. Vacant(e)
  BY <1>1, <1>2 DEF Vacant
<1>5. Bounded(e)
  <2> SUFFICES ASSUME NEW p \in Packages PROVE e.evictionCount[p] <= MaxEvictions
    BY DEF Bounded
  <2>1. d.evictionCount[p] \in Nat
    BY <1>1 DEF Tables
  <2> QED BY <1>1, <1>2, <2>1, CallAssumption DEF Bounded
<1>6. \A t \in Shifts \ {s} : d.route[t] \cap ids = {}
  BY <1>1 DEF Agree
<1>7. d.route \in [Shifts -> SUBSET Packages]
  BY <1>1 DEF Tables
<1>8. /\ e.route[s] = d.route[s] \ ids
      /\ \A t \in Shifts \ {s} :
           /\ e.route[t] = d.route[t]
           /\ \A p \in d.route[t] : e.evictionCount[p] = d.evictionCount[p]
  <2>1. \A t \in Shifts \ {s} : \A p \in d.route[t] : p \in Packages /\ p \notin ids
    BY <1>6, <1>7
  <2>2. \A t \in Shifts : e.route[t] = d.route[t] \ ids
    BY <1>2
  <2>3. \A p \in Packages \ ids : e.evictionCount[p] = d.evictionCount[p]
    BY <1>2
  <2> QED BY <1>6, <2>1, <2>2, <2>3
<1>9. \A p \in ids : d.timeline[p] # "IN_TRANSIT"
  BY <1>1 DEF Agree, Told
<1>10. Told(e) /\ KeepsCarried(d, e)
  BY <1>1, <1>2, <1>9 DEF Told, KeepsCarried
<1>11. Consistent(e)
  BY <1>2, <1>3, <1>4, <1>5, <1>10 DEF Consistent
<1> QED BY <1>2, <1>8, <1>10, <1>11

(* A new shift starts empty and disturbs no other.                         *)
LEMMA InsertConsistent ==
  ASSUME NEW d, Consistent(d), NEW s \in Shifts, d.status[s] = "none",
         NEW w \in Drivers, NEW v \in Vehicles
  PROVE  /\ Consistent(InsertShift(d, s, w, v))
         /\ Moves(d, InsertShift(d, s, w, v))
         /\ InsertShift(d, s, w, v).status[s] = "planned"
         /\ InsertShift(d, s, w, v).route[s] = {}
<1> DEFINE e == InsertShift(d, s, w, v)
<1>1. d \in Tables /\ Agree(d) /\ Bounded(d) /\ Vacant(d) /\ Told(d)
  BY DEF Consistent
<1>2. /\ e \in Tables
      /\ e.revision = [d.revision EXCEPT ![s] = 1]
      /\ e.status = [d.status EXCEPT ![s] = "planned"]
      /\ e.route = d.route
      /\ e.optimisation = d.optimisation
      /\ e.evictionCount = d.evictionCount
      /\ e.timeline = d.timeline
  BY <1>1, InsertColumns
<1> HIDE DEF e
<1>3. d.revision \in [Shifts -> Nat] /\ d.status \in [Shifts -> ShiftStatus]
  BY <1>1 DEF Tables
<1>4. Moves(d, e)
  BY <1>2, <1>3 DEF Moves, Respects, KeepsCarried
<1>5. Told(e)
  BY <1>1, <1>2, <1>3 DEF Told
<1> QED BY <1>1, <1>2, <1>3, <1>4, <1>5 DEF Consistent, Agree, Bounded, Vacant, e

(* A step that leaves the tables alone is one of the steps allowed.        *)
LEMMA UnchangedMoves ==
  ASSUME NEW d, Consistent(d) PROVE Moves(d, d)
BY DEF Moves, Respects, KeepsCarried, Consistent, Tables

-----------------------------------------------------------------------------
(* The dispatcher and the driver app.                                      *)

(* A departure writes the status of one shift, whose revision moves.       *)
LEMMA DepartColumns ==
  ASSUME NEW d \in Tables, NEW s \in Shifts
  PROVE  LET e == Depart(d, s)
         IN  /\ e \in Tables
             /\ e.revision = [d.revision EXCEPT ![s] = @ + 1]
             /\ e.status = [d.status EXCEPT ![s] = "dispatched"]
             /\ e.route = d.route
             /\ e.optimisation = d.optimisation
             /\ e.evictionCount = d.evictionCount
             /\ e.timeline = d.timeline
<1> DEFINE w == [d EXCEPT !.status[s] = "dispatched"]
<1>1. /\ w \in Tables /\ w.revision = d.revision
      /\ w.status = [d.status EXCEPT ![s] = "dispatched"]
      /\ w.route = d.route /\ w.optimisation = d.optimisation
      /\ w.evictionCount = d.evictionCount /\ w.timeline = d.timeline
  BY DEF Tables, ShiftStatus
<1>2. Depart(d, s) = Touch(w, s)
  BY DEF Depart
<1> HIDE DEF w
<1> QED BY SMTT(30), <1>1, <1>2, TouchColumns

(* Dispatching a shift moves its revision and no stop.                     *)
LEMMA DepartSafe ==
  ASSUME NEW d, Consistent(d), NEW s \in Shifts, d.status[s] = "planned"
  PROVE  Consistent(Depart(d, s)) /\ Moves(d, Depart(d, s))
<1> DEFINE e == Depart(d, s)
<1>1. /\ d \in Tables
      /\ d.revision \in [Shifts -> Nat] /\ d.status \in [Shifts -> ShiftStatus]
      /\ d.optimisation \in [Packages -> Shifts \cup {NoShift}]
  BY DEF Consistent, Tables
<1>2. /\ e \in Tables
      /\ e.revision = [d.revision EXCEPT ![s] = @ + 1]
      /\ e.status = [d.status EXCEPT ![s] = "dispatched"]
      /\ e.route = d.route /\ e.optimisation = d.optimisation
      /\ e.evictionCount = d.evictionCount /\ e.timeline = d.timeline
  BY <1>1, DepartColumns
<1> HIDE DEF e
<1>3. Agree(e) /\ Bounded(e) /\ Vacant(e)
  BY <1>1, <1>2 DEF Consistent, Agree, Bounded, Vacant
<1>4. Told(e)
  BY <1>1, <1>2 DEF Consistent, Told
<1>5. Moves(d, e)
  BY <1>1, <1>2 DEF Moves, Respects, KeepsCarried
<1> QED BY <1>2, <1>3, <1>4, <1>5 DEF Consistent, e

(* Loading a package moves no other column.                                *)
LEMMA LoadSafe ==
  ASSUME NEW d, Consistent(d), NEW p \in Packages, d.timeline[p] = "ASSIGNED"
  PROVE  LET e == [d EXCEPT !.timeline[p] = "ONBOARD_FOR_DELIVERY"]
         IN  Consistent(e) /\ Moves(d, e)
<1> DEFINE e == [d EXCEPT !.timeline[p] = "ONBOARD_FOR_DELIVERY"]
<1>1. /\ e \in Tables /\ e.revision = d.revision /\ e.status = d.status
      /\ e.route = d.route /\ e.optimisation = d.optimisation
      /\ e.evictionCount = d.evictionCount
      /\ e.timeline = [d.timeline EXCEPT ![p] = "ONBOARD_FOR_DELIVERY"]
  BY DEF Consistent, Tables, PackageStatus
<1> HIDE DEF e
<1>2. d.revision \in [Shifts -> Nat] /\ d.timeline \in [Packages -> PackageStatus]
  BY DEF Consistent, Tables
<1>3. Agree(e) /\ Bounded(e) /\ Vacant(e)
  BY <1>1 DEF Consistent, Agree, Bounded, Vacant
<1>4. Told(e) /\ Moves(d, e)
  BY <1>1, <1>2 DEF Consistent, Told, Moves, Respects, KeepsCarried
<1> QED BY <1>1, <1>3, <1>4 DEF Consistent, e

(* The first scan of a shift dispatches it, so a package in transit is     *)
(* always on a shift that has left.                                        *)
LEMMA CarrySafe ==
  ASSUME Consistent(db), NEW p \in Packages, CarryParcel(p)
  PROVE  Consistent(db') /\ Moves(db, db')
<1> DEFINE e == [db EXCEPT !.timeline[p] = "IN_TRANSIT"]
           s == db.optimisation[p]
<1>1. /\ db \in Tables /\ db.revision \in [Shifts -> Nat]
      /\ db.status \in [Shifts -> ShiftStatus]
      /\ db.timeline \in [Packages -> PackageStatus]
      /\ db.optimisation \in [Packages -> Shifts \cup {NoShift}]
  BY DEF Consistent, Tables
<1>2. /\ e \in Tables /\ e.revision = db.revision /\ e.status = db.status
      /\ e.route = db.route /\ e.optimisation = db.optimisation
      /\ e.evictionCount = db.evictionCount
      /\ e.timeline = [db.timeline EXCEPT ![p] = "IN_TRANSIT"]
  BY <1>1 DEF Tables, PackageStatus
<1>3. db' = IF s \in Shifts /\ db.status[s] = "planned" THEN Depart(e, s) ELSE e
  BY DEF CarryParcel
<1>4. db.timeline[p] \notin {"PENDING", "IN_TRANSIT"}
  BY DEF CarryParcel
<1> HIDE DEF e
<1>5. s \in Shifts /\ db.status[s] \in {"planned", "dispatched"}
  <2>1. s \in Shifts /\ p \in db.route[s]
    BY <1>1, <1>4 DEF Consistent, Told, Agree
  <2> QED BY <1>1, <2>1 DEF Consistent, Vacant, ShiftStatus
<1>6. CASE db.status[s] = "planned"
  <2>1. /\ db' \in Tables
        /\ db'.revision = [db.revision EXCEPT ![s] = @ + 1]
        /\ db'.status = [db.status EXCEPT ![s] = "dispatched"]
        /\ db'.route = db.route /\ db'.optimisation = db.optimisation
        /\ db'.evictionCount = db.evictionCount
        /\ db'.timeline = [db.timeline EXCEPT ![p] = "IN_TRANSIT"]
    <3>1. db' = Depart(e, s) /\ e \in Tables /\ s \in Shifts
      BY <1>2, <1>3, <1>5, <1>6
    <3> HIDE DEF s
    <3>2. /\ Depart(e, s) \in Tables
          /\ Depart(e, s).revision = [e.revision EXCEPT ![s] = @ + 1]
          /\ Depart(e, s).status = [e.status EXCEPT ![s] = "dispatched"]
          /\ Depart(e, s).route = e.route /\ Depart(e, s).optimisation = e.optimisation
          /\ Depart(e, s).evictionCount = e.evictionCount /\ Depart(e, s).timeline = e.timeline
      BY <3>1, DepartColumns
    <3> QED BY <1>2, <3>1, <3>2
  <2>2. Agree(db') /\ Bounded(db') /\ Vacant(db')
    BY <1>1, <1>5, <2>1 DEF Consistent, Agree, Bounded, Vacant
  <2>3. Told(db')
    BY <1>1, <1>4, <1>5, <2>1, NoShiftAssumption DEF Consistent, Told
  <2>4. Moves(db, db')
    BY <1>1, <1>4, <1>5, <1>6, <2>1 DEF Moves, Respects, KeepsCarried
  <2> QED BY <2>1, <2>2, <2>3, <2>4 DEF Consistent
<1>7. CASE db.status[s] = "dispatched"
  <2>1. db' = e
    BY <1>3, <1>7
  <2>2. Agree(e) /\ Bounded(e) /\ Vacant(e)
    BY <1>2 DEF Consistent, Agree, Bounded, Vacant
  <2>3. Told(e)
    BY <1>1, <1>2, <1>4, <1>5, <1>7, NoShiftAssumption DEF Consistent, Told
  <2>4. Moves(db, e)
    BY <1>1, <1>2, <1>4 DEF Moves, Respects, KeepsCarried
  <2> QED BY <1>2, <2>1, <2>2, <2>3, <2>4 DEF Consistent
<1> QED BY <1>5, <1>6, <1>7

(* Two statements of one transaction that are allowed are so together.     *)
LEMMA MovesTrans ==
  ASSUME NEW a, NEW b, NEW e, Consistent(a), Consistent(b), Consistent(e),
         Moves(a, b), Moves(b, e)
  PROVE  Moves(a, e)
<1>1. KeepsCarried(a, e)
  BY DEF Moves, KeepsCarried
<1>2. Respects(a, b) /\ Respects(b, e)
  BY DEF Moves
<1> SUFFICES ASSUME NEW s \in Shifts, a.status[s] # "none"
             PROVE  /\ e.status[s] # "none"
                    /\ e.revision[s] >= a.revision[s]
                    /\ a.status[s] = "dispatched" =>
                         e.status[s] = "dispatched" /\ e.route[s] = a.route[s]
                    /\ e.revision[s] = a.revision[s] =>
                         /\ e.status[s] = a.status[s]
                         /\ e.route[s] = a.route[s]
                         /\ \A p \in a.route[s] : e.evictionCount[p] = a.evictionCount[p]
  BY <1>1 DEF Moves, Respects
<1>3. a.revision[s] \in Nat /\ b.revision[s] \in Nat /\ e.revision[s] \in Nat
  BY DEF Consistent, Tables
<1> QED BY <1>2, <1>3 DEF Respects

(* Dispatchers and drivers keep the tables consistent.                     *)
LEMMA PeopleSafe ==
  ASSUME Consistent(db), Dispatcher \/ DriverApp
  PROVE  Consistent(db') /\ Moves(db, db')
<1>1. ASSUME NEW s \in Shifts, NEW w \in Drivers, NEW v \in Vehicles, CreateShift(s, w, v)
      PROVE  Consistent(db') /\ Moves(db, db')
  BY <1>1, InsertConsistent DEF CreateShift
<1>2. ASSUME NEW s \in Shifts, StartNears(s)
      PROVE  Consistent(db') /\ Moves(db, db')
  <2>1. db' \in Tables /\ db'.revision = db.revision /\ db'.status = db.status
        /\ db'.route = db.route /\ db'.optimisation = db.optimisation
        /\ db'.evictionCount = db.evictionCount /\ db'.timeline = db.timeline
    BY <1>2 DEF StartNears, Consistent, Tables
  <2>2. db.revision \in [Shifts -> Nat]
    BY DEF Consistent, Tables
  <2> QED BY <2>1, <2>2 DEF Consistent, Agree, Bounded, Vacant, Told,
                            Moves, Respects, KeepsCarried
<1>3. ASSUME NEW s \in Shifts, DispatchShift(s)
      PROVE  Consistent(db') /\ Moves(db, db')
  BY <1>3, DepartSafe DEF DispatchShift
<1>4. ASSUME NEW p \in Packages, LoadParcel(p)
      PROVE  Consistent(db') /\ Moves(db, db')
  BY <1>4, LoadSafe DEF LoadParcel
<1>5. ASSUME NEW p \in Packages, CarryParcel(p)
      PROVE  Consistent(db') /\ Moves(db, db')
  BY <1>5, CarrySafe
<1> QED BY <1>1, <1>2, <1>3, <1>4, <1>5 DEF Dispatcher, DriverApp

-----------------------------------------------------------------------------
(* The transactions of a call, by the step of commitDecision they take.    *)

(* commitPlacement on the current stops, or its roll-back, is safe.        *)
LEMMA CommitPlacementSafe ==
  ASSUME IInv, NEW c \in Calls, NEW d, Consistent(d), Moves(db, d),
         NEW s \in Shifts, d.status[s] = "planned",
         CommitPlacement(c, d, s, d.route[s])
  PROVE  Consistent(db') /\ Moves(db, db')
<1>1. pkg[c] \in Packages /\ Consistent(db)
  BY DEF IInv, TypeOK
<1>2. CASE CanPlace(c, d, s, d.route[s])
  <2>1. db' = Placed(c, d, s, d.route[s])
    BY <1>2 DEF CommitPlacement
  <2>2. Consistent(Placed(c, d, s, d.route[s])) /\ Moves(d, Placed(c, d, s, d.route[s]))
    BY <1>1, <1>2, PlacedConsistent
  <2> QED BY <1>1, <2>1, <2>2, MovesTrans
<1>3. CASE ~CanPlace(c, d, s, d.route[s])
  BY <1>1, <1>3, UnchangedMoves DEF CommitPlacement
<1> QED BY <1>2, <1>3

(* Steps 1 and 3: what was priced is what is on disk.                      *)
LEMMA PlaceUnlessMovedSafe ==
  ASSUME IInv, NEW c \in Calls, pc[c] = "commit", NEW s \in seen[c].candidates,
         PlaceUnlessMoved(c, s)
  PROVE  Consistent(db') /\ Moves(db, db')
<1>1. s \in Shifts /\ Consistent(db)
  BY DEF IInv, TypeOK, Snapshots
<1>2. CASE HasMoved(c, s)
  BY <1>1, <1>2, UnchangedMoves DEF PlaceUnlessMoved, Retry
<1>3. CASE ~HasMoved(c, s)
  <2>1. seen[c].route[s] = db.route[s]
    BY <1>1, <1>3 DEF IInv, PricedPlanIsCurrent
  <2>2. db.status[s] = "planned"
    BY <1>3 DEF HasMoved
  <2>3. CommitPlacement(c, db, s, db.route[s])
    BY <1>3, <2>1 DEF PlaceUnlessMoved
  <2> QED BY <1>1, <2>2, <2>3, UnchangedMoves, CommitPlacementSafe
<1> QED BY <1>2, <1>3

(* Steps 2 and 4.                                                          *)
LEMMA OpenAndPlaceSafe ==
  ASSUME IInv, NEW c \in Calls, NEW drivers, OpenAndPlace(c, drivers)
  PROVE  Consistent(db') /\ Moves(db, db')
<1>1. PICK pair \in IdlePairs(c, drivers), s \in Shifts \ Scheduled :
        /\ db.status[s] = "none"
        /\ IF Feasible(pair[1], pair[2], {pkg[c]})
           THEN CommitPlacement(c, InsertShift(db, s, pair[1], pair[2]), s, {})
           ELSE Answer(c) /\ UNCHANGED db
  BY DEF OpenAndPlace
<1>2. Consistent(db) /\ pair[1] \in Drivers /\ pair[2] \in Vehicles
  BY <1>1, CrewAssumption DEF IInv, IdlePairs
<1> DEFINE d == InsertShift(db, s, pair[1], pair[2])
<1>3. Consistent(d) /\ Moves(db, d) /\ d.status[s] = "planned" /\ d.route[s] = {}
  BY <1>1, <1>2, InsertConsistent
<1> HIDE DEF d
<1>4. CASE CommitPlacement(c, d, s, {})
  BY <1>3, <1>4, CommitPlacementSafe
<1>5. CASE UNCHANGED db
  BY <1>2, <1>5, UnchangedMoves
<1> QED BY <1>1, <1>4, <1>5 DEF d

(* Step 5: the victims' own shift is the one that is rewritten.            *)
LEMMA EvictAndPlaceSafe ==
  ASSUME IInv, NEW c \in Calls, pc[c] = "commit", NEW s \in seen[c].candidates,
         ~HasMoved(c, s), NEW victims \in Victims(c, s), EvictAndPlace(c, s, victims)
  PROVE  Consistent(db') /\ Moves(db, db')
<1> DEFINE d == Detach(db, victims, 1)
<1>1. /\ s \in Shifts /\ Consistent(db) /\ pkg[c] \in Packages
      /\ db \in Tables
  BY DEF IInv, TypeOK, Snapshots
<1>2. /\ seen[c].route[s] = db.route[s]
      /\ \A p \in db.route[s] : seen[c].evictionCount[p] = db.evictionCount[p]
      /\ db.status[s] = "planned"
  BY <1>1 DEF IInv, PricedPlanIsCurrent, HasMoved
<1>3. /\ victims \subseteq db.route[s]
      /\ victims \in SUBSET Packages
      /\ \A p \in victims : db.evictionCount[p] < MaxEvictions
  BY <1>1, <1>2 DEF Victims, Evictable, Tables
<1>4. /\ Consistent(d) /\ KeepsCarried(db, d) /\ d.status = db.status /\ d.revision = db.revision
      /\ d.route[s] = db.route[s] \ victims
      /\ \A t \in Shifts \ {s} :
           /\ d.route[t] = db.route[t]
           /\ \A p \in db.route[t] : d.evictionCount[p] = db.evictionCount[p]
  <2> HIDE DEF d
  <2>1. d = Detach(db, victims, 1)
    BY DEF d
  <2> QED BY <1>1, <1>2, <1>3, <2>1, DetachConsistent
<1> HIDE DEF d
<1>5. CASE CanPlace(c, d, s, d.route[s])
  <2> DEFINE e == Placed(c, d, s, d.route[s])
  <2>1. db' = e
    BY <1>2, <1>4, <1>5 DEF EvictAndPlace, d
  <2>2. Consistent(e) /\ Rewrites(d, e, s) /\ Moves(d, e)
    BY <1>1, <1>2, <1>4, <1>5, PlacedConsistent
  <2>3. db.revision \in [Shifts -> Nat]
    BY <1>1 DEF Tables
  <2> HIDE DEF e
  <2>4. Respects(db, e)
    BY <1>1, <1>2, <1>4, <2>2, <2>3 DEF Respects, Rewrites
  <2>5. Moves(db, e)
    BY <1>4, <2>2, <2>4 DEF Moves, KeepsCarried
  <2> QED BY <2>1, <2>2, <2>5
<1>6. CASE ~CanPlace(c, d, s, d.route[s])
  BY <1>1, <1>2, <1>4, <1>6, UnchangedMoves DEF EvictAndPlace, d
<1> QED BY <1>5, <1>6

(* Every step of a call keeps the tables consistent and respects every     *)
(* revision.                                                               *)
LEMMA WorkSafe ==
  ASSUME IInv, NEW c \in Calls, Begin(c) \/ Work(c) \/ Crash(c)
  PROVE  Consistent(db') /\ Moves(db, db')
<1>1. CASE Begin(c) \/ LoadPackage(c) \/ LoadShifts(c) \/ LoadStops(c) \/ Defer(c)
           \/ ReassignVictim(c) \/ Crash(c)
  <2>1. UNCHANGED db
    BY <1>1 DEF Begin, LoadPackage, LoadShifts, LoadStops, Defer, ReassignVictim, Crash
  <2> QED BY <2>1, UnchangedMoves DEF IInv
<1>2. CASE CommitCovering(c)
  BY <1>2, PlaceUnlessMovedSafe DEF CommitCovering, CoveringFits
<1>3. CASE CommitOther(c)
  BY <1>3, PlaceUnlessMovedSafe DEF CommitOther, OtherFits
<1>4. CASE OpenCovering(c) \/ OpenAny(c)
  BY <1>4, OpenAndPlaceSafe DEF OpenCovering, OpenAny
<1>5. CASE Evict(c)
  <2>1. PICK s \in seen[c].candidates :
          \/ Retry(c)
          \/ ~HasMoved(c, s) /\ \E victims \in Victims(c, s) : EvictAndPlace(c, s, victims)
    BY <1>5 DEF Evict
  <2>2. CASE Retry(c)
    BY <2>2, UnchangedMoves DEF Retry, IInv
  <2>3. CASE ~HasMoved(c, s) /\ \E victims \in Victims(c, s) : EvictAndPlace(c, s, victims)
    BY <1>5, <2>3, EvictAndPlaceSafe DEF Evict
  <2> QED BY <2>1, <2>2, <2>3
<1> QED BY <1>1, <1>2, <1>3, <1>4, <1>5 DEF Work

-----------------------------------------------------------------------------
(* The variables of the calls.                                             *)

CallsTyped ==
  /\ pc \in [Calls -> Where]
  /\ pkg \in [Calls -> Packages]
  /\ evicts \in [Calls -> BOOLEAN]
  /\ tries \in [Calls -> 0..MaxRevisionRetries]
  /\ owed \in [Calls -> SUBSET Packages]
  /\ seen \in [Calls -> Snapshots]

(* A call starts without lost races.                                       *)
LEMMA NoTries == 0 \in 0..MaxRevisionRetries
BY CallAssumption

(* The empty snapshot is a snapshot.                                       *)
LEMMA NothingTyped == Nothing \in Snapshots
BY DEF Nothing, Snapshots, EmptyTables, PackageStatus

(* The shift rows are read into a snapshot.                                *)
LEMMA FirstReadTyped ==
  ASSUME NEW x \in Snapshots, NEW ids \in SUBSET Shifts, NEW r \in [Shifts -> Nat]
  PROVE  [x EXCEPT !.candidates = ids, !.revision = r] \in Snapshots
BY DEF Snapshots

(* The stops are read into the same snapshot.                              *)
LEMMA SecondReadTyped ==
  ASSUME NEW x \in Snapshots, NEW r \in [Shifts -> SUBSET Packages],
         NEW n \in [Packages -> Nat], NEW t \in [Packages -> PackageStatus]
  PROVE  [x EXCEPT !.route = r, !.evictionCount = n, !.timeline = t] \in Snapshots
BY DEF Snapshots

(* What a call k that has read something did to hold it.                   *)
Held(k) ==
  pc'[k] \in {"stops", "commit"} =>
    \/ pc'[k] = pc[k] /\ seen'[k] = seen[k]
    \/ LoadShifts(k) /\ pc'[k] = "stops"
    \/ LoadStops(k) /\ pc'[k] = "commit"

(* An outcome keeps the type of the call state.                            *)
LEMMA AnswerTyped ==
  ASSUME CallsTyped, NEW c \in Calls, Answer(c)
  PROVE  CallsTyped' /\ \A k \in Calls : Held(k)
BY NothingTyped, NoTries DEF CallsTyped, Answer, Where, Held

(* Losing a revision race keeps it too: the retries are counted up to      *)
(* MAX_REVISION_RETRIES and no further.                                    *)
LEMMA RetryTyped ==
  ASSUME CallsTyped, NEW c \in Calls, Retry(c)
  PROVE  CallsTyped' /\ \A k \in Calls : Held(k)
<1>1. CASE tries[c] < MaxRevisionRetries
  <2>1. /\ pc' = [pc EXCEPT ![c] = "shifts"]
        /\ tries' = [tries EXCEPT ![c] = @ + 1]
        /\ seen' = [seen EXCEPT ![c] = Nothing]
        /\ UNCHANGED <<pkg, evicts, owed>>
    BY <1>1 DEF Retry
  <2>2. tries[c] + 1 \in 0..MaxRevisionRetries
    BY <1>1, CallAssumption DEF CallsTyped
  <2> QED BY <2>1, <2>2, NothingTyped DEF CallsTyped, Where, Held
<1>2. CASE ~(tries[c] < MaxRevisionRetries)
  BY <1>2, AnswerTyped DEF Retry
<1> QED BY <1>1, <1>2

(* So do steps 2 and 4,                                                    *)
LEMMA OpenAndPlaceTyped ==
  ASSUME CallsTyped, NEW c \in Calls, NEW drivers, OpenAndPlace(c, drivers)
  PROVE  CallsTyped' /\ \A k \in Calls : Held(k)
BY AnswerTyped DEF OpenAndPlace, CommitPlacement

(* steps 1 and 3,                                                          *)
LEMMA PlaceUnlessMovedTyped ==
  ASSUME CallsTyped, NEW c \in Calls, NEW s, PlaceUnlessMoved(c, s)
  PROVE  CallsTyped' /\ \A k \in Calls : Held(k)
BY AnswerTyped, RetryTyped DEF PlaceUnlessMoved, CommitPlacement

(* and step 5.                                                             *)
LEMMA EvictAndPlaceTyped ==
  ASSUME CallsTyped, NEW c \in Calls, NEW s \in seen[c].candidates,
         NEW victims \in Victims(c, s), EvictAndPlace(c, s, victims)
  PROVE  CallsTyped' /\ \A k \in Calls : Held(k)
<1>1. CASE Answer(c)
  BY <1>1, AnswerTyped
<1>2. CASE /\ owed' = [owed EXCEPT ![c] = victims]
           /\ pc' = [pc EXCEPT ![c] = "victims"]
           /\ seen' = [seen EXCEPT ![c] = Nothing]
           /\ tries' = [tries EXCEPT ![c] = 0]
           /\ UNCHANGED <<pkg, evicts>>
  <2>1. victims \in SUBSET Packages
    BY DEF Victims, Evictable, CallsTyped, Snapshots
  <2> QED BY <1>2, <2>1, NothingTyped, NoTries DEF CallsTyped, Where, Held
<1> QED BY <1>1, <1>2 DEF EvictAndPlace

(* Every step of a call keeps the type of the call state.                  *)
LEMMA WorkTyped ==
  ASSUME CallsTyped, db \in Tables, NEW c \in Calls, Begin(c) \/ Work(c) \/ Crash(c)
  PROVE  CallsTyped' /\ \A k \in Calls : Held(k)
<1>0. CallsTyped /\ db \in Tables
  OBVIOUS
<1>1. CASE Begin(c)
  BY <1>0, <1>1 DEF Begin, CallsTyped, Where, Held
<1>2. CASE LoadPackage(c)
  <2>1. CASE Answer(c)
    BY <1>0, <2>1, AnswerTyped
  <2>2. CASE /\ pc' = [pc EXCEPT ![c] = "shifts"]
             /\ UNCHANGED <<pkg, evicts, tries, owed, seen>>
    BY <1>0, <2>2 DEF CallsTyped, Where, Held
  <2> QED BY <1>2, <2>1, <2>2 DEF LoadPackage
<1>3. CASE LoadShifts(c)
  <2>1. \A k \in Calls : Held(k)
    BY <1>0, <1>3 DEF LoadShifts, CallsTyped, Held
  <2>2. ASSUME NEW ids \in SUBSET Shifts
        PROVE  [seen[c] EXCEPT !.candidates = ids, !.revision = db.revision] \in Snapshots
    <3>1. seen[c] \in Snapshots /\ db.revision \in [Shifts -> Nat]
      BY <1>0 DEF CallsTyped, Tables
    <3> QED BY <3>1, FirstReadTyped
  <2>3. seen' \in [Calls -> Snapshots]
    BY <1>0, <1>3, <2>2 DEF LoadShifts, CallsTyped
  <2> QED BY <1>0, <1>3, <2>1, <2>3 DEF LoadShifts, CallsTyped, Where
<1>4. CASE LoadStops(c)
  <2>1. \A k \in Calls : Held(k)
    BY <1>0, <1>4 DEF LoadStops, CallsTyped, Held
  <2>2. [seen[c] EXCEPT !.route = db.route, !.evictionCount = db.evictionCount,
                        !.timeline = db.timeline] \in Snapshots
    <3>1. /\ seen[c] \in Snapshots /\ db.route \in [Shifts -> SUBSET Packages]
          /\ db.evictionCount \in [Packages -> Nat]
          /\ db.timeline \in [Packages -> PackageStatus]
      BY <1>0 DEF CallsTyped, Tables
    <3> QED BY <3>1, SecondReadTyped
  <2>3. seen' \in [Calls -> Snapshots]
    BY <1>0, <1>4, <2>2 DEF LoadStops, CallsTyped
  <2> QED BY <1>0, <1>4, <2>1, <2>3 DEF LoadStops, CallsTyped, Where
<1>5. CASE CommitCovering(c) \/ CommitOther(c)
  BY <1>0, <1>5, PlaceUnlessMovedTyped DEF CommitCovering, CommitOther
<1>6. CASE OpenCovering(c) \/ OpenAny(c)
  BY <1>0, <1>6, OpenAndPlaceTyped DEF OpenCovering, OpenAny
<1>7. CASE Evict(c)
  BY <1>0, <1>7, RetryTyped, EvictAndPlaceTyped DEF Evict
<1>8. CASE Defer(c)
  BY <1>0, <1>8, AnswerTyped DEF Defer
<1>9. CASE ReassignVictim(c)
  BY <1>0, <1>9 DEF ReassignVictim, CallsTyped, Where, Held
<1>10. CASE Crash(c)
  BY <1>0, <1>10, NothingTyped, NoTries DEF Crash, CallsTyped, Where, Held
<1> QED BY <1>1, <1>2, <1>3, <1>4, <1>5, <1>6, <1>7, <1>8, <1>9, <1>10 DEF Work

-----------------------------------------------------------------------------
(* The inductive invariant holds before the first request.                 *)
LEMMA InitIInv == Init => IInv
<1> SUFFICES ASSUME Init PROVE IInv
  OBVIOUS
<1>1. db \in Tables
  BY DEF Init, EmptyTables, Tables, ShiftStatus, PackageStatus
<1>2. Agree(db) /\ Vacant(db) /\ Told(db)
  BY NoShiftAssumption DEF Init, EmptyTables, Agree, Vacant, Told
<1>3. Bounded(db)
  BY CallAssumption DEF Init, EmptyTables, Bounded
<1>4. TypeOK
  BY <1>1, NoTries, NothingTyped DEF Init, TypeOK, Where
<1>5. ReadBehind /\ PricedPlanIsCurrent
  BY DEF Init, ReadBehind, PricedPlanIsCurrent
<1> QED BY <1>1, <1>2, <1>3, <1>4, <1>5 DEF IInv, Consistent

(* Every step of the system is allowed, and leaves what the calls          *)
(* hold typed.                                                             *)
LEMMA StepMoves ==
  ASSUME IInv, [Next]_vars
  PROVE  /\ Consistent(db')
         /\ Moves(db, db')
         /\ CallsTyped'
         /\ \A k \in Calls : Held(k)
<1>0. Consistent(db) /\ CallsTyped /\ db \in Tables
  BY DEF IInv, TypeOK, CallsTyped
<1>1. ASSUME UNCHANGED callVars PROVE CallsTyped' /\ \A k \in Calls : Held(k)
  BY <1>0, <1>1 DEF callVars, CallsTyped, Held
<1>2. CASE People
  BY <1>0, <1>1, <1>2, PeopleSafe DEF People
<1>3. ASSUME NEW c \in Calls, Begin(c) \/ Work(c) \/ Crash(c)
      PROVE  /\ Consistent(db') /\ Moves(db, db')
             /\ CallsTyped' /\ \A k \in Calls : Held(k)
  BY <1>0, <1>3, WorkSafe, WorkTyped
<1>4. CASE UNCHANGED vars
  BY <1>0, <1>1, <1>4, UnchangedMoves DEF vars
<1> QED BY <1>2, <1>3, <1>4 DEF Next

(* Every step keeps it: the tables by WorkSafe and PeopleSafe, and what    *)
(* the other calls have read because the step respects revisions.          *)
LEMMA StepIInv == IInv /\ [Next]_vars => IInv'
<1> SUFFICES ASSUME IInv, [Next]_vars PROVE IInv'
  OBVIOUS
<1>1. /\ Consistent(db')
      /\ Moves(db, db')
      /\ CallsTyped'
      /\ \A k \in Calls : Held(k)
  BY StepMoves
<1>2. db \in Tables /\ db' \in Tables /\ CallsTyped
  BY <1>1 DEF IInv, TypeOK, Consistent, CallsTyped
<1>3. TypeOK'
  BY <1>1, <1>2 DEF TypeOK, CallsTyped
<1>4. ReadBehind'
  <2> SUFFICES ASSUME NEW k \in Calls, pc'[k] \in {"stops", "commit"},
                      NEW s \in seen'[k].candidates
               PROVE  db'.status[s] # "none" /\ seen'[k].revision[s] <= db'.revision[s]
    BY DEF ReadBehind
  <2>0. /\ s \in Shifts /\ db.revision[s] \in Nat /\ db'.revision[s] \in Nat
        /\ seen'[k].revision[s] \in Nat
    BY <1>1, <1>2 DEF CallsTyped, Snapshots, Tables
  <2>1. CASE pc'[k] = pc[k] /\ seen'[k] = seen[k]
    BY <1>1, <2>0, <2>1 DEF IInv, ReadBehind, Moves, Respects
  <2>2. CASE LoadShifts(k)
    <3>1. /\ db' = db /\ seen'[k].revision = db.revision
          /\ \A t \in seen'[k].candidates : db.status[t] = "planned"
      BY <1>2, <2>2 DEF LoadShifts, CallsTyped, Snapshots
    <3> QED BY <2>0, <3>1
  <2>3. CASE LoadStops(k)
    <3>1. /\ db' = db /\ pc[k] = "stops"
          /\ seen'[k].revision = seen[k].revision
          /\ seen'[k].candidates = seen[k].candidates
      BY <1>2, <2>3 DEF LoadStops, CallsTyped, Snapshots
    <3> QED BY <3>1 DEF IInv, ReadBehind
  <2> QED BY <1>1, <2>1, <2>2, <2>3 DEF Held
<1>5. PricedPlanIsCurrent'
  <2> SUFFICES ASSUME NEW k \in Calls, NEW s \in Shifts,
                      pc'[k] = "commit", s \in seen'[k].candidates,
                      db'.revision[s] = seen'[k].revision[s], db'.status[s] = "planned"
               PROVE  /\ seen'[k].route[s] = db'.route[s]
                      /\ \A p \in db'.route[s] :
                           seen'[k].evictionCount[p] = db'.evictionCount[p]
    BY DEF PricedPlanIsCurrent, HasMoved
  <2>1. CASE pc'[k] = pc[k] /\ seen'[k] = seen[k]
    <3>1. db.status[s] # "none" /\ seen[k].revision[s] <= db.revision[s]
      BY <2>1 DEF IInv, ReadBehind
    <3>2. /\ db.revision[s] \in Nat /\ db'.revision[s] \in Nat
          /\ seen[k].revision[s] \in Nat
      BY <1>2 DEF CallsTyped, Snapshots, Tables
    <3>3. db'.revision[s] = db.revision[s] /\ db.revision[s] = seen[k].revision[s]
      BY <1>1, <2>1, <3>1, <3>2 DEF Moves, Respects
    <3>4. /\ db'.status[s] = db.status[s]
          /\ db'.route[s] = db.route[s]
          /\ \A p \in db.route[s] : db'.evictionCount[p] = db.evictionCount[p]
      BY <1>1, <3>1, <3>3 DEF Moves, Respects
    <3> QED BY <2>1, <3>3, <3>4 DEF IInv, PricedPlanIsCurrent, HasMoved
  <2>2. CASE LoadStops(k)
    <3>1. /\ db' = db /\ seen'[k].route = db.route
          /\ seen'[k].evictionCount = db.evictionCount
      BY <1>2, <2>2 DEF LoadStops, CallsTyped, Snapshots
    <3> QED BY <3>1
  <2> QED BY <1>1, <2>1, <2>2 DEF Held
<1> QED BY <1>1, <1>3, <1>4, <1>5 DEF IInv

(* The inductive invariant holds of every behaviour.                       *)
THEOREM Invariance == Spec => []IInv
BY InitIInv, StepIInv, PTL DEF Spec

(* Every variable keeps its type.                                          *)
THEOREM TypeCorrect == Spec => []TypeOK
<1>1. IInv => TypeOK
  BY DEF IInv
<1> QED BY <1>1, Invariance, PTL

(* A shift claims exactly the packages its route stops at, for any number  *)
(* of concurrent calls: hasMoved and claimPackages together are enough.    *)
THEOREM ClaimsMatchPlan == Spec => []ClaimsArePlanned
<1>1. IInv => ClaimsArePlanned
  BY DEF IInv, Consistent, Agree, ClaimsArePlanned
<1> QED BY <1>1, Invariance, PTL

(* An unmoved revision means the plan that was priced is the plan on disk, *)
(* although the two reads of Phase A share no transaction.                 *)
THEOREM RevisionGuardsPlan == Spec => []PricedPlanIsCurrent
<1>1. IInv => PricedPlanIsCurrent
  BY DEF IInv
<1> QED BY <1>1, Invariance, PTL

(* MAX_EVICTIONS is never exceeded, whatever races for the same victim.    *)
THEOREM EvictionsBounded == Spec => []EvictionBound
<1>1. IInv => EvictionBound
  BY DEF IInv, Consistent, Bounded, EvictionBound
<1> QED BY <1>1, Invariance, PTL

(* A van that has rolled keeps its plan, whatever the calls priced before. *)
THEOREM RolledPlansStay == Spec => RolledPlanFrozen
<1>1. IInv /\ [Next]_vars =>
        [\A s \in Shifts : db.status[s] = "dispatched" => db'.route[s] = db.route[s]]_vars
  BY StepMoves DEF Moves, Respects
<1> QED BY <1>1, Invariance, PTL DEF Spec, RolledPlanFrozen

(* A client that polls the revision never misses a change of plan.         *)
THEOREM RevisionsTellPlans == Spec => RevisionTellsPlan
<1>1. IInv /\ [Next]_vars =>
        [\A s \in Shifts :
           db'.route[s] # db.route[s] => db'.revision[s] > db.revision[s]]_vars
  <2> SUFFICES ASSUME IInv, [Next]_vars, NEW s \in Shifts, db'.route[s] # db.route[s]
               PROVE  db'.revision[s] > db.revision[s]
    OBVIOUS
  <2>1. Consistent(db) /\ Consistent(db') /\ Moves(db, db')
    BY StepMoves DEF IInv
  <2>2. db.revision[s] \in Nat /\ db'.revision[s] \in Nat
    BY <2>1 DEF Consistent, Tables
  <2>3. CASE db.status[s] # "none"
    BY <2>1, <2>2, <2>3 DEF Moves, Respects
  <2>4. CASE db.status[s] = "none"
    BY <2>1, <2>2, <2>4 DEF Consistent, Vacant
  <2> QED BY <2>3, <2>4
<1> QED BY <1>1, Invariance, PTL DEF Spec, RevisionTellsPlan

(* A package reads PENDING exactly while no shift claims it.               *)
THEOREM StatusMatchesClaim == Spec => []StatusTellsClaim
<1>1. IInv => StatusTellsClaim
  BY DEF IInv, Consistent, Told, StatusTellsClaim
<1> QED BY <1>1, Invariance, PTL

(* A package in transit is not taken off its shift: the trigger on its     *)
(* scan dispatches the shift, and assignments leave such a shift alone.    *)
THEOREM CarriedPackagesStay == Spec => CarriedStays
<1>1. IInv /\ [Next]_vars =>
        [\A p \in Packages : db.timeline[p] = "IN_TRANSIT" =>
           /\ db'.optimisation[p] = db.optimisation[p]
           /\ db'.timeline[p] = "IN_TRANSIT"]_vars
  BY StepMoves DEF Moves, KeepsCarried
<1> QED BY <1>1, Invariance, PTL DEF Spec, CarriedStays

-----------------------------------------------------------------------------
(* Every open shift can be driven.  Nothing is assumed of Feasible, not    *)
(* even that a route stays feasible when a stop is taken from it: what is  *)
(* written was priced as it is written, for the crew the shift still has.  *)

DrivableAt(d, s) ==
  d.status[s] # "none" /\ d.route[s] # {} =>
    /\ Feasible(d.driver[s], d.vehicle[s], d.route[s])
    /\ d.route[s] \subseteq Carries[d.vehicle[s]]

Drivable(d) == \A s \in Shifts : DrivableAt(d, s)

(* A shift that exists keeps its crew.                                     *)
KeepsCrew(d, e) ==
  \A s \in Shifts : d.status[s] # "none" =>
    e.driver[s] = d.driver[s] /\ e.vehicle[s] = d.vehicle[s]

(* filterBySkills: a candidate's vehicle has the skills of the package.    *)
CandidatesCarry ==
  \A c \in Calls : pc[c] \in {"stops", "commit"} =>
    \A s \in seen[c].candidates : pkg[c] \in Carries[db.vehicle[s]]

(* Writes that move no stop and no crew.                                   *)
LEMMA StillDrivable ==
  ASSUME NEW d, Drivable(d), NEW e, e.route = d.route, e.driver = d.driver, e.vehicle = d.vehicle,
         \A s \in Shifts : e.status[s] # "none" => d.status[s] # "none"
  PROVE  Drivable(e) /\ KeepsCrew(d, e)
BY DEF Drivable, DrivableAt, KeepsCrew

(* A placement writes the stops it was given and names no crew.            *)
LEMMA PlacedDrivable ==
  ASSUME NEW d \in Tables, NEW c \in Calls, NEW s \in Shifts,
         NEW stops \in SUBSET Packages, pkg[c] \in Packages,
         \A t \in Shifts : ~(t = s) => DrivableAt(d, t),
         Feasible(d.driver[s], d.vehicle[s], stops \cup {pkg[c]}),
         stops \cup {pkg[c]} \subseteq Carries[d.vehicle[s]]
  PROVE  Drivable(Placed(c, d, s, stops)) /\ KeepsCrew(d, Placed(c, d, s, stops))
<1> DEFINE e == Placed(c, d, s, stops)
<1>1. e.driver = d.driver /\ e.vehicle = d.vehicle
  BY DEF Placed, SnapshotRevision, WritePlan, Touch, ClaimPackages, EnqueueReplan, Tables
<1>2. /\ e \in Tables
      /\ e.revision = [d.revision EXCEPT ![s] = @ + 1]
      /\ e.status = d.status
      /\ e.route = [d.route EXCEPT ![s] = stops \cup {pkg[c]}]
      /\ e.optimisation =
           [p \in Packages |-> IF p = pkg[c] THEN s ELSE d.optimisation[p]]
      /\ e.evictionCount = d.evictionCount
      /\ e.timeline =
           [p \in Packages |-> IF p = pkg[c] THEN "ASSIGNED" ELSE d.timeline[p]]
  BY PlacedColumns
<1>3. d.route \in [Shifts -> SUBSET Packages]
  BY DEF Tables
<1> HIDE DEF e
<1>4. ASSUME NEW t \in Shifts PROVE DrivableAt(e, t)
  <2>1. CASE t = s
    BY <1>1, <1>2, <1>3, <2>1 DEF DrivableAt
  <2>2. CASE t # s
    <3>1. e.route[t] = d.route[t] /\ DrivableAt(d, t)
      BY <1>2, <1>3, <2>2
    <3> QED BY <1>1, <1>2, <3>1 DEF DrivableAt
  <2> QED BY <2>1, <2>2
<1> QED BY <1>1, <1>4 DEF Drivable, KeepsCrew, e

(* A new shift has no stops.                                               *)
LEMMA InsertDrivable ==
  ASSUME NEW d, Consistent(d), Drivable(d), NEW s \in Shifts, d.status[s] = "none",
         NEW w \in Drivers, NEW v \in Vehicles
  PROVE  LET e == InsertShift(d, s, w, v)
         IN  Drivable(e) /\ KeepsCrew(d, e) /\ e.driver[s] = w /\ e.vehicle[s] = v
<1> DEFINE e == InsertShift(d, s, w, v)
<1>1. d \in Tables /\ d.route[s] = {}
  BY DEF Consistent, Vacant
<1>2. /\ e.status = [d.status EXCEPT ![s] = "planned"] /\ e.route = d.route
      /\ e.driver = [d.driver EXCEPT ![s] = w] /\ e.vehicle = [d.vehicle EXCEPT ![s] = v]
  BY <1>1 DEF InsertShift, Tables
<1>3. /\ d.status \in [Shifts -> ShiftStatus] /\ DOMAIN d.driver = Shifts /\ DOMAIN d.vehicle = Shifts
  BY <1>1 DEF Tables
<1> HIDE DEF e
<1>4. ASSUME NEW t \in Shifts, ~(t = s)
      PROVE  /\ e.status[t] = d.status[t] /\ e.route[t] = d.route[t]
             /\ e.driver[t] = d.driver[t] /\ e.vehicle[t] = d.vehicle[t]
  BY <1>2, <1>3, <1>4
<1>5. e.route[s] = {} /\ e.driver[s] = w /\ e.vehicle[s] = v
  BY <1>1, <1>2, <1>3
<1>6. Drivable(e)
  BY <1>4, <1>5 DEF Drivable, DrivableAt
<1>7. KeepsCrew(d, e)
  BY <1>4 DEF KeepsCrew
<1> QED BY <1>5, <1>6, <1>7 DEF e

LEMMA PeopleDrivable ==
  ASSUME IInv, Drivable(db), Dispatcher \/ DriverApp
  PROVE  Drivable(db') /\ KeepsCrew(db, db')
<1>1. Consistent(db) /\ db \in Tables /\ db.status \in [Shifts -> ShiftStatus]
  BY DEF IInv, Consistent, Tables
<1>2. ASSUME NEW s \in Shifts, NEW w \in Drivers, NEW v \in Vehicles, CreateShift(s, w, v)
      PROVE  Drivable(db') /\ KeepsCrew(db, db')
  BY <1>1, <1>2, InsertDrivable DEF CreateShift
<1>3. ASSUME NEW s \in Shifts, StartNears(s)
      PROVE  Drivable(db') /\ KeepsCrew(db, db')
  <2>1. /\ db'.route = db.route /\ db'.driver = db.driver /\ db'.vehicle = db.vehicle
        /\ db'.status = db.status
    BY <1>1, <1>3 DEF StartNears, Tables
  <2> QED BY <2>1, StillDrivable
<1>4. ASSUME NEW s \in Shifts, DispatchShift(s)
      PROVE  Drivable(db') /\ KeepsCrew(db, db')
  <2>1. /\ db'.route = db.route /\ db'.driver = db.driver /\ db'.vehicle = db.vehicle
        /\ db'.status = [db.status EXCEPT ![s] = "dispatched"]
    BY <1>1, <1>4 DEF DispatchShift, Depart, Touch, Tables
  <2>2. \A t \in Shifts : db'.status[t] # "none" => db.status[t] # "none"
    BY <1>1, <1>4, <2>1 DEF DispatchShift
  <2> QED BY <2>1, <2>2, StillDrivable
<1>5. ASSUME NEW p \in Packages, LoadParcel(p)
      PROVE  Drivable(db') /\ KeepsCrew(db, db')
  <2>1. /\ db'.route = db.route /\ db'.driver = db.driver /\ db'.vehicle = db.vehicle
        /\ db'.status = db.status
    BY <1>1, <1>5 DEF LoadParcel, Tables
  <2> QED BY <2>1, StillDrivable
<1>6. ASSUME NEW p \in Packages, CarryParcel(p)
      PROVE  Drivable(db') /\ KeepsCrew(db, db')
  <2> DEFINE moved == [db EXCEPT !.timeline[p] = "IN_TRANSIT"]
             s == db.optimisation[p]
  <2>1. /\ moved.route = db.route /\ moved.driver = db.driver /\ moved.vehicle = db.vehicle
        /\ moved.status = db.status /\ moved.revision = db.revision /\ DOMAIN moved = DOMAIN db
    BY <1>1 DEF Tables
  <2>2. CASE s \in Shifts /\ db.status[s] = "planned" /\ db' = Depart(moved, s)
    <3> HIDE DEF moved
    <3>1. /\ db'.route = db.route /\ db'.driver = db.driver /\ db'.vehicle = db.vehicle
          /\ db'.status = [db.status EXCEPT ![s] = "dispatched"]
      BY <1>1, <2>1, <2>2 DEF Depart, Touch, Tables
    <3>2. \A t \in Shifts : db'.status[t] # "none" => db.status[t] # "none"
      BY <1>1, <2>2, <3>1
    <3> QED BY <3>1, <3>2, StillDrivable
  <2>3. CASE db' = moved
    BY <2>1, <2>3, StillDrivable
  <2> QED BY <1>6, <2>2, <2>3 DEF CarryParcel
<1> QED BY <1>2, <1>3, <1>4, <1>5, <1>6 DEF Dispatcher, DriverApp

(* The transactions of a call.  What Phase A priced is the shift's plan,   *)
(* and its crew, when the commit goes through.                             *)
DrivableIInv == IInv /\ Drivable(db) /\ CandidatesCarry

LEMMA UnchangedDrivable ==
  ASSUME Drivable(db), UNCHANGED db
  PROVE  Drivable(db') /\ KeepsCrew(db, db')
BY DEF KeepsCrew

LEMMA KeepsCrewTrans ==
  ASSUME NEW a, NEW b, NEW e, KeepsCrew(a, b), KeepsCrew(b, e), Moves(a, b)
  PROVE  KeepsCrew(a, e)
BY DEF KeepsCrew, Moves, Respects

LEMMA PlaceUnlessMovedDrivable ==
  ASSUME DrivableIInv, NEW c \in Calls, pc[c] = "commit", NEW s \in seen[c].candidates,
         Fits(c, s), PlaceUnlessMoved(c, s)
  PROVE  Drivable(db') /\ KeepsCrew(db, db')
<1>1. /\ s \in Shifts /\ db \in Tables /\ pkg[c] \in Packages
      /\ IInv /\ Drivable(db) /\ CandidatesCarry
  BY DEF DrivableIInv, IInv, TypeOK, Snapshots
<1>2. CASE UNCHANGED db
  BY <1>1, <1>2, UnchangedDrivable
<1>3. CASE ~HasMoved(c, s) /\ db' = Placed(c, db, s, seen[c].route[s])
  <2>1. seen[c].route[s] = db.route[s] /\ db.status[s] = "planned"
    BY <1>1, <1>3 DEF IInv, PricedPlanIsCurrent, HasMoved
  <2>2. Feasible(db.driver[s], db.vehicle[s], db.route[s] \cup {pkg[c]})
    BY <2>1 DEF Fits
  <2>3. db.route[s] \cup {pkg[c]} \subseteq Carries[db.vehicle[s]]
    BY <1>1, <2>1 DEF Drivable, DrivableAt, CandidatesCarry
  <2>4. db.route[s] \in SUBSET Packages
    BY <1>1 DEF Tables
  <2>5. \A t \in Shifts : ~(t = s) => DrivableAt(db, t)
    BY <1>1 DEF Drivable
  <2>6. db' = Placed(c, db, s, db.route[s])
    BY <1>3, <2>1
  <2> QED BY <1>1, <2>2, <2>3, <2>4, <2>5, <2>6, PlacedDrivable
<1> QED BY <1>2, <1>3 DEF PlaceUnlessMoved, Retry, CommitPlacement

LEMMA OpenAndPlaceDrivable ==
  ASSUME DrivableIInv, NEW c \in Calls, NEW drivers, OpenAndPlace(c, drivers)
  PROVE  Drivable(db') /\ KeepsCrew(db, db')
<1>1. PICK pair \in IdlePairs(c, drivers), s \in Shifts \ Scheduled :
        /\ db.status[s] = "none"
        /\ IF Feasible(pair[1], pair[2], {pkg[c]})
           THEN CommitPlacement(c, InsertShift(db, s, pair[1], pair[2]), s, {})
           ELSE Answer(c) /\ UNCHANGED db
  BY DEF OpenAndPlace
<1>2. /\ Consistent(db) /\ Drivable(db) /\ pkg[c] \in Packages
      /\ pair[1] \in Drivers /\ pair[2] \in Vehicles /\ pkg[c] \in Carries[pair[2]]
  BY <1>1, CrewAssumption DEF DrivableIInv, IInv, TypeOK, IdlePairs
<1> DEFINE d == InsertShift(db, s, pair[1], pair[2])
<1>3. /\ Consistent(d) /\ Moves(db, d)
      /\ Drivable(d) /\ KeepsCrew(db, d) /\ d.driver[s] = pair[1] /\ d.vehicle[s] = pair[2]
  BY <1>1, <1>2, InsertConsistent, InsertDrivable
<1>4. CASE Feasible(pair[1], pair[2], {pkg[c]}) /\ CommitPlacement(c, d, s, {}) /\ db' # db
  <2> HIDE DEF d
  <2>1. db' = Placed(c, d, s, {})
    BY <1>4 DEF CommitPlacement
  <2>2. d \in Tables /\ {} \in SUBSET Packages /\ s \in Shifts
    BY <1>3 DEF Consistent
  <2>3. Feasible(d.driver[s], d.vehicle[s], {} \cup {pkg[c]})
    <3>1. {} \cup {pkg[c]} = {pkg[c]}
      OBVIOUS
    <3> QED BY <1>3, <1>4, <3>1
  <2>4. {} \cup {pkg[c]} \subseteq Carries[d.vehicle[s]]
    BY <1>2, <1>3
  <2>5. \A t \in Shifts : ~(t = s) => DrivableAt(d, t)
    BY <1>3 DEF Drivable
  <2>6. Drivable(Placed(c, d, s, {})) /\ KeepsCrew(d, Placed(c, d, s, {}))
    BY <1>2, <2>2, <2>3, <2>4, <2>5, PlacedDrivable
  <2> QED BY <1>3, <2>1, <2>6, KeepsCrewTrans
<1>5. CASE UNCHANGED db
  BY <1>2, <1>5, UnchangedDrivable
<1> QED BY <1>1, <1>4, <1>5

LEMMA EvictAndPlaceDrivable ==
  ASSUME DrivableIInv, NEW c \in Calls, pc[c] = "commit", NEW s \in seen[c].candidates,
         ~HasMoved(c, s), NEW victims \in Victims(c, s), EvictAndPlace(c, s, victims)
  PROVE  Drivable(db') /\ KeepsCrew(db, db')
<1> DEFINE d == Detach(db, victims, 1)
           stops == seen[c].route[s] \ victims
<1>1. /\ s \in Shifts /\ db \in Tables /\ pkg[c] \in Packages /\ Consistent(db)
      /\ IInv /\ Drivable(db) /\ CandidatesCarry
  BY DEF DrivableIInv, IInv, TypeOK, Snapshots
<1>2. /\ seen[c].route[s] = db.route[s]
      /\ \A p \in db.route[s] : seen[c].evictionCount[p] = db.evictionCount[p]
      /\ db.status[s] = "planned"
  BY <1>1 DEF IInv, PricedPlanIsCurrent, HasMoved
<1>3. /\ victims \subseteq db.route[s] /\ victims \in SUBSET Packages
      /\ \A p \in victims : db.evictionCount[p] < MaxEvictions
      /\ MadeRoom(c, s, victims)
  BY <1>1, <1>2 DEF Victims, Evictable, Tables
<1>4. d.driver = db.driver /\ d.vehicle = db.vehicle
  BY <1>1 DEF Detach, Tables
<1>5. /\ Consistent(d) /\ d.status = db.status
      /\ \A t \in Shifts \ {s} : d.route[t] = db.route[t]
  <2> HIDE DEF d
  <2>1. d = Detach(db, victims, 1)
    BY DEF d
  <2> QED BY <1>1, <1>2, <1>3, <2>1, DetachConsistent
<1>6. CASE db' = Placed(c, d, s, stops)
  <2>1. stops \in SUBSET Packages
    BY <1>1, <1>2 DEF Tables
  <2> HIDE DEF d
  <2>2. Feasible(d.driver[s], d.vehicle[s], stops \cup {pkg[c]})
    BY <1>3, <1>4 DEF MadeRoom
  <2>3. stops \cup {pkg[c]} \subseteq Carries[d.vehicle[s]]
    BY <1>1, <1>2, <1>4 DEF Drivable, DrivableAt, CandidatesCarry
  <2>4. ASSUME NEW t \in Shifts, ~(t = s)
        PROVE  DrivableAt(d, t)
    <3>1. d.route[t] = db.route[t] /\ DrivableAt(db, t)
      BY <1>1, <1>5, <2>4 DEF Drivable
    <3> QED BY <1>4, <1>5, <3>1 DEF DrivableAt
  <2>5. d \in Tables
    BY <1>5 DEF Consistent
  <2> HIDE DEF stops
  <2>6. Drivable(Placed(c, d, s, stops)) /\ KeepsCrew(d, Placed(c, d, s, stops))
    BY <1>1, <2>1, <2>2, <2>3, <2>4, <2>5, PlacedDrivable
  <2> QED BY <1>4, <1>5, <1>6, <2>6 DEF KeepsCrew
<1>7. CASE UNCHANGED db
  BY <1>1, <1>7, UnchangedDrivable
<1> QED BY <1>6, <1>7 DEF EvictAndPlace

LEMMA WorkDrivable ==
  ASSUME DrivableIInv, NEW c \in Calls, Begin(c) \/ Work(c) \/ Crash(c)
  PROVE  Drivable(db') /\ KeepsCrew(db, db')
<1>1. CASE UNCHANGED db
  BY <1>1, UnchangedDrivable DEF DrivableIInv
<1>2. CASE CommitCovering(c)
  BY <1>2, PlaceUnlessMovedDrivable DEF CommitCovering, CoveringFits
<1>3. CASE CommitOther(c)
  BY <1>3, PlaceUnlessMovedDrivable DEF CommitOther, OtherFits
<1>4. CASE OpenCovering(c) \/ OpenAny(c)
  BY <1>4, OpenAndPlaceDrivable DEF OpenCovering, OpenAny
<1>5. CASE Evict(c)
  <2>1. PICK s \in seen[c].candidates :
          \/ Retry(c)
          \/ ~HasMoved(c, s) /\ \E victims \in Victims(c, s) : EvictAndPlace(c, s, victims)
    BY <1>5 DEF Evict
  <2>2. CASE Retry(c)
    BY <1>1, <2>2 DEF Retry
  <2>3. CASE ~HasMoved(c, s) /\ \E victims \in Victims(c, s) : EvictAndPlace(c, s, victims)
    BY <1>5, <2>3, EvictAndPlaceDrivable DEF Evict
  <2> QED BY <2>1, <2>2, <2>3
<1> QED BY <1>1, <1>2, <1>3, <1>4, <1>5
    DEF Work, Begin, LoadPackage, LoadShifts, LoadStops, Defer, ReassignVictim, Crash

(* A call holds the package it holds while it has read candidates.         *)
LEMMA PackageHeld ==
  ASSUME IInv, [Next]_vars, NEW k \in Calls, pc'[k] \in {"stops", "commit"}
  PROVE  pkg'[k] = pkg[k]
<1>1. CallsTyped
  BY DEF IInv, TypeOK, CallsTyped
<1>2. CASE UNCHANGED pkg
  BY <1>2
<1>3. ASSUME NEW c \in Calls, ReassignVictim(c)
      PROVE  pkg'[k] = pkg[k]
  <2>1. k # c
    BY <1>1, <1>3 DEF ReassignVictim, CallsTyped
  <2> QED BY <1>1, <1>3, <2>1 DEF ReassignVictim, CallsTyped
<1>4. ASSUME NEW c \in Calls, Begin(c) \/ Crash(c) \/ (Work(c) /\ ~ReassignVictim(c))
      PROVE  UNCHANGED pkg
  BY <1>4 DEF Begin, Crash, Work, LoadPackage, LoadShifts, LoadStops, Answer, CommitCovering,
              OpenCovering, CommitOther, OpenAny, Evict, Defer, PlaceUnlessMoved, OpenAndPlace,
              EvictAndPlace, CommitPlacement, Retry
<1>5. CASE People \/ UNCHANGED vars
  BY <1>5 DEF People, vars, callVars
<1> QED BY <1>2, <1>3, <1>4, <1>5 DEF Next, Work

LEMMA StepDrivable == DrivableIInv /\ [Next]_vars => DrivableIInv'
<1> SUFFICES ASSUME DrivableIInv, [Next]_vars PROVE DrivableIInv'
  OBVIOUS
<1>1. IInv /\ Drivable(db) /\ CandidatesCarry
  BY DEF DrivableIInv
<1>2. IInv' /\ CallsTyped /\ \A k \in Calls : Held(k)
  BY <1>1, StepIInv, StepMoves DEF IInv, TypeOK, CallsTyped
<1>3. Drivable(db') /\ KeepsCrew(db, db')
  <2>1. CASE People
    BY <1>1, <2>1, PeopleDrivable DEF People
  <2>2. CASE UNCHANGED vars
    BY <1>1, <2>2, UnchangedDrivable DEF vars
  <2> QED BY <2>1, <2>2, WorkDrivable DEF Next
<1>4. CandidatesCarry'
  <2> SUFFICES ASSUME NEW k \in Calls, pc'[k] \in {"stops", "commit"},
                      NEW s \in seen'[k].candidates
               PROVE  pkg'[k] \in Carries[db'.vehicle[s]]
    BY DEF CandidatesCarry
  <2>0. pkg'[k] = pkg[k]
    BY <1>1, PackageHeld
  <2>1. CASE pc'[k] = pc[k] /\ seen'[k] = seen[k]
    <3>1. s \in Shifts /\ db.status[s] # "none" /\ pkg[k] \in Carries[db.vehicle[s]]
      BY <1>1, <1>2, <2>1 DEF IInv, ReadBehind, CandidatesCarry, CallsTyped, Snapshots
    <3> QED BY <1>3, <2>0, <3>1 DEF KeepsCrew
  <2>2. CASE LoadShifts(k)
    <3>1. db' = db /\ \A t \in seen'[k].candidates : pkg[k] \in Carries[db.vehicle[t]]
      BY <1>2, <2>2 DEF LoadShifts, CallsTyped, Snapshots
    <3> QED BY <2>0, <3>1
  <2>3. CASE LoadStops(k)
    <3>1. db' = db /\ pc[k] = "stops" /\ seen'[k].candidates = seen[k].candidates
      BY <1>2, <2>3 DEF LoadStops, CallsTyped, Snapshots
    <3> QED BY <1>1, <2>0, <3>1 DEF CandidatesCarry
  <2> QED BY <1>2, <2>1, <2>2, <2>3 DEF Held
<1> QED BY <1>2, <1>3, <1>4 DEF DrivableIInv

LEMMA InitDrivable == Init => DrivableIInv
<1> SUFFICES ASSUME Init PROVE DrivableIInv
  OBVIOUS
<1>1. IInv
  BY InitIInv
<1>2. \A s \in Shifts : db.status[s] = "none"
  BY DEF Init, EmptyTables
<1>3. Drivable(db)
  BY <1>2 DEF Drivable, DrivableAt
<1>4. CandidatesCarry
  BY DEF Init, CandidatesCarry
<1> QED BY <1>1, <1>3, <1>4 DEF DrivableIInv

(* Every open shift's stops fit its driver and vehicle, and the vehicle    *)
(* has the skills of each, whatever the arithmetic of tryInsert is, and    *)
(* however many calls priced the same room.                                *)
THEOREM RoutesStayDeliverable == Spec => []RoutesDeliverable
<1>1. Spec => []DrivableIInv
  BY InitDrivable, StepDrivable, PTL DEF Spec
<1>2. DrivableIInv => RoutesDeliverable
  BY DEF DrivableIInv, Drivable, DrivableAt, RoutesDeliverable, IsOpen
<1> QED BY <1>1, <1>2, PTL
=============================================================================
