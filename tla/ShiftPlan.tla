----------------------------- MODULE ShiftPlan -----------------------------
(***************************************************************************)
(* The tables every planner of the dispatch subsystem shares, and the      *)
(* writes ShiftPlanWriter makes to them.                                   *)
(*                                                                         *)
(* A transaction is one step of the modules that EXTEND this one: it is    *)
(* written as the composition of the operators below, each of which takes  *)
(* the tables d and returns the tables after one statement of the writer.  *)
(* A statement the database refuses (a unique index, a claim that was      *)
(* lost) is a guard, Can..., whose negation aborts the transaction.        *)
(*                                                                         *)
(* One warehouse and one service day.  A route is the set of packages that *)
(* have a job step on it: the visiting order is the business of the        *)
(* insertion layer and no property here depends on it.                     *)
(***************************************************************************)
EXTENDS Naturals, FiniteSets

CONSTANTS Shifts,        \* identities of vrp_optimization rows
          Scheduled,     \* those a dispatcher creates (scheduled_start set)
          Drivers, Vehicles,
          Pairings,      \* driver_vehicle_assignment
          Packages,
          Feasible(_, _, _), \* tryInsert: this driver, vehicle, set of stops
          FreeShifts, HasPayment, \* enforce_shift_allowance's two inputs
          NoShift, Nobody

VARIABLE db

ASSUME NoShiftAssumption == NoShift \notin Shifts
ASSUME CrewAssumption == /\ Pairings \subseteq Drivers \X Vehicles
                         /\ Scheduled \subseteq Shifts
                         /\ FreeShifts \in Nat /\ HasPayment \in BOOLEAN

(* "none" is a row that does not exist yet.  Nothing in the API moves a    *)
(* shift to completed or cancelled.                                        *)
ShiftStatus == {"none", "planned", "dispatched"}

(* The package_timeline row of a package written last.  The code takes the *)
(* one with the latest created_at, the start of the transaction that wrote *)
(* it: the two differ where a transaction waited for another's lock while  *)
(* a shorter one wrote, which is not modelled.                             *)
PackageStatus == {"PENDING", "ASSIGNED", "ONBOARD_FOR_DELIVERY", "IN_TRANSIT"}

Tables ==
  [status         : [Shifts -> ShiftStatus],
   revision       : [Shifts -> Nat],
   driver         : [Shifts -> Drivers \cup {Nobody}],
   vehicle        : [Shifts -> Vehicles \cup {Nobody}],
   imminent       : SUBSET Shifts, \* starts within DISPATCH_LEAD_S
   route          : [Shifts -> SUBSET Packages],
   history        : [Shifts -> SUBSET Packages], \* the stops in the newest
                                                 \* vrp_optimization_revision
   optimisation   : [Packages -> Shifts \cup {NoShift}], \* the claim
   evictionCount  : [Packages -> Nat],
   timeline       : [Packages -> PackageStatus],
   replans        : SUBSET Shifts] \* shifts with a replan message queued

EmptyTables ==
  [status        |-> [s \in Shifts |-> "none"],
   revision      |-> [s \in Shifts |-> 0],
   driver        |-> [s \in Shifts |-> Nobody],
   vehicle       |-> [s \in Shifts |-> Nobody],
   imminent      |-> {},
   route         |-> [s \in Shifts |-> {}],
   history       |-> [s \in Shifts |-> {}],
   optimisation  |-> [p \in Packages |-> NoShift],
   evictionCount |-> [p \in Packages |-> 0],
   timeline      |-> [p \in Packages |-> "PENDING"],
   replans       |-> {}]

----------------------------------------------------------------------------
(* The statements of ShiftPlanWriter.                                      *)

(* The vrp_optimization_touch trigger: every UPDATE of a shift row.        *)
Touch(d, s) == [d EXCEPT !.revision[s] = @ + 1]

(* snapshotRevision copies the steps as the transaction sees them.         *)
SnapshotRevision(d, s) == [d EXCEPT !.history[s] = d.route[s]]

(* Mutant: the shift row is not updated after its steps.                   *)
WritePlanUntouched(d, s, stops) == [d EXCEPT !.route[s] = stops]

(* writePlan: the route's steps are deleted, the new list is inserted and  *)
(* the shift row is updated last.                                          *)
WritePlan(d, s, stops) == Touch([d EXCEPT !.route[s] = stops], s)

(* vrp_route_step UNIQUE(package_id): a package has one step in all.       *)
CanWritePlan(d, s, stops) == \A t \in Shifts \ {s} : d.route[t] \cap stops = {}

(* Mutant: no timeline row, as while package_timeline refused a status a   *)
(* package had had before.                                                 *)
DetachSilently(d, ids, increment) ==
  [d EXCEPT
     !.route         = [s \in Shifts |-> d.route[s] \ ids],
     !.optimisation  = [p \in Packages |-> IF p \in ids THEN NoShift ELSE @[p]],
     !.evictionCount = [p \in Packages |->
                          IF p \in ids THEN @[p] + increment ELSE @[p]]]

(* detach: deleting package_assignment cascades to the step of whichever   *)
(* shift the package is on, and touches no shift row.  The increment is 1  *)
(* for an eviction and 0 for a removal nobody bumped.                      *)
Detach(d, ids, increment) ==
  [d EXCEPT
     !.route         = [s \in Shifts |-> d.route[s] \ ids],
     !.optimisation  = [p \in Packages |-> IF p \in ids THEN NoShift ELSE @[p]],
     !.evictionCount = [p \in Packages |->
                          IF p \in ids THEN @[p] + increment ELSE @[p]],
     !.timeline      = [p \in Packages |-> IF p \in ids THEN "PENDING" ELSE @[p]]]

(* claimPackages, and the guard its RETURNING count stands for.            *)
ClaimPackages(d, s, ids) ==
  [d EXCEPT
     !.optimisation = [p \in Packages |-> IF p \in ids THEN s ELSE @[p]],
     !.timeline     = [p \in Packages |-> IF p \in ids THEN "ASSIGNED" ELSE @[p]]]

CanClaim(d, s, ids) == \A p \in ids : d.optimisation[p] \in {NoShift, s}

EnqueueReplan(d, s) == [d EXCEPT !.replans = @ \cup {s}]

----------------------------------------------------------------------------
(* Opening a shift.                                                        *)

IsOpen(d, s) == d.status[s] \in {"planned", "dispatched"}

(* The one-open-shift-per-day check on the driver and on the vehicle.      *)
Clash(d, driver, vehicle) ==
  \E s \in Shifts : IsOpen(d, s) /\ (d.driver[s] = driver \/ d.vehicle[s] = vehicle)

(* enforce_shift_allowance: free shifts first, then a payment method.      *)
AllowanceLeft(d) ==
  \/ HasPayment
  \/ Cardinality({s \in Shifts : d.status[s] # "none"}) < FreeShifts

InsertShift(d, s, driver, vehicle) ==
  [d EXCEPT !.status[s]  = "planned", !.revision[s] = 1,
            !.driver[s]  = driver,    !.vehicle[s]  = vehicle]

----------------------------------------------------------------------------
(* What people do to the tables meanwhile.                                 *)

(* ShiftsService.create.  A shift with no scheduled_start is one whose     *)
(* start never comes near.                                                 *)
CreateShift(s, driver, vehicle) ==
  /\ s \in Scheduled
  /\ db.status[s] = "none"
  /\ ~Clash(db, driver, vehicle)
  /\ AllowanceLeft(db)
  /\ db' = InsertShift(db, s, driver, vehicle)

(* The clock: scheduled_start comes within DISPATCH_LEAD_S.                *)
StartNears(s) ==
  /\ s \in Scheduled
  /\ db.status[s] = "planned"
  /\ s \notin db.imminent
  /\ db' = [db EXCEPT !.imminent = @ \cup {s}]

Depart(d, s) == Touch([d EXCEPT !.status[s] = "dispatched"], s)

(* ShiftsService.dispatch.                                                 *)
DispatchShift(s) ==
  /\ db.status[s] = "planned"
  /\ db' = Depart(db, s)

(* The driver app writes package_timeline directly: loading a package      *)
(* touches no shift row.  Taken for granted: it scans what has been given  *)
(* to a driver, and does not take a scan back.                             *)
LoadParcel(p) ==
  /\ db.timeline[p] = "ASSIGNED"
  /\ db' = [db EXCEPT !.timeline[p] = "ONBOARD_FOR_DELIVERY"]

(* Mutant: the schema without dispatch_shift_on_in_transit.                *)
CarryUnnoticed(p) ==
  /\ db.timeline[p] \in {"ASSIGNED", "ONBOARD_FOR_DELIVERY"}
  /\ db' = [db EXCEPT !.timeline[p] = "IN_TRANSIT"]

(* IN_TRANSIT fires dispatch_shift_on_in_transit on the shift the package  *)
(* is claimed by.  The scan of the loading may have been left out.         *)
CarryParcel(p) ==
  /\ db.timeline[p] \in {"ASSIGNED", "ONBOARD_FOR_DELIVERY"}
  /\ LET moved == [db EXCEPT !.timeline[p] = "IN_TRANSIT"]
         s     == db.optimisation[p]
     IN  db' = IF s \in Shifts /\ db.status[s] = "planned"
               THEN Depart(moved, s) ELSE moved

Dispatcher ==
  \/ \E s \in Shifts, driver \in Drivers, vehicle \in Vehicles :
       CreateShift(s, driver, vehicle)
  \/ \E s \in Shifts : StartNears(s) \/ DispatchShift(s)

DriverApp == \E p \in Packages : LoadParcel(p) \/ CarryParcel(p)
=============================================================================
