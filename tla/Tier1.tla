------------------------------- MODULE Tier1 -------------------------------
(***************************************************************************)
(* AssignmentService's instant assignment: any number of concurrent        *)
(* assign() calls, on any number of replicas, against the dispatcher and   *)
(* the driver app.                                                         *)
(*                                                                         *)
(* A call prices the warehouse's planned shifts without a lock, in two     *)
(* reads (the shift rows, then their stops), and commits in one            *)
(* transaction under the warehouse's advisory lock, where the shift it     *)
(* chose must still have the revision the first read saw.  Which feasible  *)
(* shift is the cheapest is a choice among the feasible ones, and so is    *)
(* the verdict of the one grey-band measurement a decision may make.       *)
(***************************************************************************)
EXTENDS ShiftPlan

CONSTANTS Calls,        \* the assign() requests of one behaviour
          Covers,       \* driver -> the packages whose address it covers
          Carries,      \* vehicle -> the packages whose skills it holds
          GrossLimits,  \* vehicle -> vehicle_gross_limits
          Urgent,       \* packages with a deadline binding on this day
          Fresh,        \* packages younger than AGING_HOURS
          MaxEvictions, MaxRevisionRetries

ASSUME CallAssumption == /\ MaxEvictions \in Nat /\ MaxRevisionRetries \in Nat
                         /\ Covers \in [Drivers -> SUBSET Packages]
                         /\ Carries \in [Vehicles -> SUBSET Packages]
                         /\ GrossLimits \in [Vehicles -> Nat]

VARIABLES pc,      \* where each call stands between two database round trips
          pkg,     \* the package the call is placing now
          evicts,  \* allowEviction
          tries,   \* revision races lost so far
          owed,    \* victims of the call that still have to be re-assigned
          seen     \* what Phase A read

callVars == <<pc, pkg, evicts, tries, owed, seen>>
vars == <<db, callVars>>

(* Candidates are the planned shifts of the first read; the rest is what   *)
(* the second read found on their routes.                                  *)
Snapshots ==
  [candidates    : SUBSET Shifts,
   revision      : [Shifts -> Nat],
   route         : [Shifts -> SUBSET Packages],
   evictionCount : [Packages -> Nat],
   timeline      : [Packages -> PackageStatus]]

Nothing == [candidates    |-> {},
            revision      |-> EmptyTables.revision,
            route         |-> EmptyTables.route,
            evictionCount |-> EmptyTables.evictionCount,
            timeline      |-> EmptyTables.timeline]

Where == {"idle", "load", "shifts", "stops", "commit", "victims", "done"}

Init ==
  /\ db = EmptyTables
  /\ pc = [c \in Calls |-> "idle"]
  /\ pkg \in [Calls -> Packages]
  /\ evicts = [c \in Calls |-> TRUE]
  /\ tries = [c \in Calls |-> 0]
  /\ owed = [c \in Calls |-> {}]
  /\ seen = [c \in Calls |-> Nothing]

----------------------------------------------------------------------------
(* Phase A: no lock, no writes.                                            *)

(* The request arrives, and reads its package after that.                  *)
Begin(c) ==
  /\ pc[c] = "idle"
  /\ pc' = [pc EXCEPT ![c] = "load"]
  /\ UNCHANGED <<db, pkg, evicts, tries, owed, seen>>

(* An outcome other than 'retry' that evicted nobody: on to the next       *)
(* victim, if the call still owes some.                                    *)
Answer(c) ==
  /\ pc' = [pc EXCEPT ![c] = IF owed[c] = {} THEN "done" ELSE "victims"]
  /\ seen' = [seen EXCEPT ![c] = Nothing]
  /\ tries' = [tries EXCEPT ![c] = 0]
  /\ UNCHANGED <<pkg, evicts, owed>>

(* loadPackage: a package that is already on a shift is skipped.           *)
LoadPackage(c) ==
  /\ pc[c] = "load"
  /\ IF db.optimisation[pkg[c]] # NoShift
     THEN Answer(c)
     ELSE /\ pc' = [pc EXCEPT ![c] = "shifts"]
          /\ UNCHANGED <<pkg, evicts, tries, owed, seen>>
  /\ UNCHANGED db

(* loadCandidates, first statement, and filterBySkills on what it returns. *)
LoadShifts(c) ==
  /\ pc[c] = "shifts"
  /\ seen' = [seen EXCEPT ![c] =
       [@ EXCEPT !.candidates = {s \in Shifts : /\ db.status[s] = "planned"
                                                /\ s \notin db.imminent
                                                /\ pkg[c] \in Carries[db.vehicle[s]]},
                 !.revision = db.revision]]
  /\ pc' = [pc EXCEPT ![c] = "stops"]
  /\ UNCHANGED <<db, pkg, evicts, tries, owed>>

(* loadStops, the second statement.                                        *)
LoadStops(c) ==
  /\ pc[c] = "stops"
  /\ seen' = [seen EXCEPT ![c] = [@ EXCEPT !.route = db.route,
                                           !.evictionCount = db.evictionCount,
                                           !.timeline = db.timeline]]
  /\ pc' = [pc EXCEPT ![c] = "commit"]
  /\ UNCHANGED <<db, pkg, evicts, tries, owed>>

(* Mutant: the route is priced without the package it is to take.          *)
FitsAsItIs(c, s) == Feasible(db.driver[s], db.vehicle[s], seen[c].route[s])

(* decide: the candidates the package fits on, as they were priced.        *)
Fits(c, s) ==
  Feasible(db.driver[s], db.vehicle[s], seen[c].route[s] \cup {pkg[c]})

CoveringDrivers(c) == {d \in Drivers : pkg[c] \in Covers[d]}

CoveringFits(c) ==
  {s \in seen[c].candidates : db.driver[s] \in CoveringDrivers(c) /\ Fits(c, s)}

OtherFits(c) ==
  {s \in seen[c].candidates : db.driver[s] \notin CoveringDrivers(c) /\ Fits(c, s)}

(* The grey band: one routing call per decision may find that a shift the  *)
(* package seemed to fit on cannot take it after all.                      *)
Overruled(c) ==
  {over \in SUBSET (CoveringFits(c) \cup OtherFits(c)) : Cardinality(over) <= 1}

(* Mutant: isEvictable without the MAX_EVICTIONS check.                    *)
EvictableAgain(c, s) ==
  {p \in seen[c].route[s] : /\ seen[c].timeline[p] = "ASSIGNED"
                            /\ p \notin Urgent
                            /\ p \in Fresh}

(* pickVictims: the evictable stops of a candidate, least-bumped first,    *)
(* and no more of them than it takes.                                      *)
Evictable(c, s) ==
  {p \in seen[c].route[s] : /\ seen[c].timeline[p] = "ASSIGNED"
                            /\ p \notin Urgent
                            /\ seen[c].evictionCount[p] < MaxEvictions
                            /\ p \in Fresh}

MadeRoom(c, s, victims) ==
  Feasible(db.driver[s], db.vehicle[s], (seen[c].route[s] \ victims) \cup {pkg[c]})

Victims(c, s) ==
  {victims \in SUBSET Evictable(c, s) :
     /\ pkg[c] \in Urgent
     /\ \A p \in victims, q \in Evictable(c, s) \ victims :
          seen[c].evictionCount[p] <= seen[c].evictionCount[q]
     /\ MadeRoom(c, s, victims)
     /\ \E last \in victims :
          /\ \A p \in victims : seen[c].evictionCount[p] <= seen[c].evictionCount[last]
          /\ victims # {last} => ~MadeRoom(c, s, victims \ {last})}

----------------------------------------------------------------------------
(* Phase B: one transaction under the lock assign:<warehouse>.             *)

(* Mutants: hasMoved compares the status alone, or nothing.                *)
HasLeft(c, s) == db.status[s] # "planned"

NeverMoves(c, s) == FALSE

HasMoved(c, s) ==
  \/ db.revision[s] # seen[c].revision[s]
  \/ db.status[s] # "planned"

(* Mutant: an off-by-one in the retry loop.                                *)
RetryOnceMore(c) ==
  /\ IF tries[c] <= MaxRevisionRetries
     THEN /\ pc' = [pc EXCEPT ![c] = "shifts"]
          /\ tries' = [tries EXCEPT ![c] = @ + 1]
          /\ seen' = [seen EXCEPT ![c] = Nothing]
          /\ UNCHANGED <<pkg, evicts, owed>>
     ELSE Answer(c)
  /\ UNCHANGED db

(* The transaction is rolled back and the whole decision made again, until *)
(* the retries are spent and the package is deferred.                      *)
Retry(c) ==
  /\ IF tries[c] < MaxRevisionRetries
     THEN /\ pc' = [pc EXCEPT ![c] = "shifts"]
          /\ tries' = [tries EXCEPT ![c] = @ + 1]
          /\ seen' = [seen EXCEPT ![c] = Nothing]
          /\ UNCHANGED <<pkg, evicts, owed>>
     ELSE Answer(c)
  /\ UNCHANGED db

(* commitPlacement and persist on the tables d the transaction has made so *)
(* far.  A package that is on the list already, on another route or        *)
(* claimed by another shift aborts it, and assign() answers deferred.      *)
Placed(c, d, s, stops) ==
  LET planned == WritePlan(SnapshotRevision(d, s), s, stops \cup {pkg[c]})
  IN  EnqueueReplan(ClaimPackages(planned, s, {pkg[c]}), s)

CanPlace(c, d, s, stops) ==
  /\ pkg[c] \notin stops
  /\ CanWritePlan(d, s, stops \cup {pkg[c]})
  /\ CanClaim(d, s, {pkg[c]})

CommitPlacement(c, d, s, stops) ==
  /\ db' = IF CanPlace(c, d, s, stops) THEN Placed(c, d, s, stops) ELSE db
  /\ Answer(c)

(* Steps 1 and 3, on a shift that was priced in Phase A.                   *)
PlaceUnlessMoved(c, s) ==
  IF HasMoved(c, s) THEN Retry(c)
  ELSE CommitPlacement(c, db, s, seen[c].route[s])

(* openShift: the idle pair with the largest vehicle among those drivers.  *)
IdlePairs(c, drivers) ==
  {pair \in Pairings : /\ pair[1] \in drivers
                       /\ pkg[c] \in Carries[pair[2]]
                       /\ ~Clash(db, pair[1], pair[2])}

CanOpen(c, drivers) == IdlePairs(c, drivers) # {} /\ AllowanceLeft(db)

(* Steps 2 and 4.  A shift that cannot take its one package is rolled back *)
(* with the transaction.                                                   *)
OpenAndPlace(c, drivers) ==
  \E pair \in IdlePairs(c, drivers), s \in Shifts \ Scheduled :
    /\ \A other \in IdlePairs(c, drivers) :
         GrossLimits[other[2]] <= GrossLimits[pair[2]]
    /\ db.status[s] = "none"
    /\ IF Feasible(pair[1], pair[2], {pkg[c]})
       THEN CommitPlacement(c, InsertShift(db, s, pair[1], pair[2]), s, {})
       ELSE Answer(c) /\ UNCHANGED db

(* Step 5 on a candidate with victims worth taking.                        *)
EvictAndPlace(c, s, victims) ==
  LET emptied == Detach(db, victims, 1)
      stops   == seen[c].route[s] \ victims
  IN  IF CanPlace(c, emptied, s, stops)
      THEN /\ db' = Placed(c, emptied, s, stops)
           /\ owed' = [owed EXCEPT ![c] = victims]
           /\ pc' = [pc EXCEPT ![c] = "victims"]
           /\ seen' = [seen EXCEPT ![c] = Nothing]
           /\ tries' = [tries EXCEPT ![c] = 0]
           /\ UNCHANGED <<pkg, evicts>>
      ELSE Answer(c) /\ UNCHANGED db

(* commitDecision: each step runs when the ones before it could not.       *)
CommitCovering(c) ==
  /\ pc[c] = "commit"
  /\ \E s \in CoveringFits(c) : PlaceUnlessMoved(c, s)

OpenCovering(c) ==
  /\ pc[c] = "commit"
  /\ CoveringFits(c) \in Overruled(c)
  /\ CanOpen(c, CoveringDrivers(c))
  /\ OpenAndPlace(c, CoveringDrivers(c))

CommitOther(c) ==
  /\ pc[c] = "commit"
  /\ CoveringFits(c) \in Overruled(c)
  /\ ~CanOpen(c, CoveringDrivers(c))
  /\ \E s \in OtherFits(c) : PlaceUnlessMoved(c, s)

NothingFits(c) ==
  /\ CoveringFits(c) \cup OtherFits(c) \in Overruled(c)
  /\ ~CanOpen(c, CoveringDrivers(c))

OpenAny(c) ==
  /\ pc[c] = "commit"
  /\ NothingFits(c)
  /\ CanOpen(c, Drivers)
  /\ OpenAndPlace(c, Drivers)

CanEvict(c, s) == evicts[c] /\ Victims(c, s) # {}

Evict(c) ==
  /\ pc[c] = "commit"
  /\ NothingFits(c) /\ ~CanOpen(c, Drivers)
  /\ \E s \in seen[c].candidates :
       /\ CanEvict(c, s)
       /\ \/ HasMoved(c, s) /\ Retry(c)
          \/ ~HasMoved(c, s) /\ \E victims \in Victims(c, s) : EvictAndPlace(c, s, victims)

Defer(c) ==
  /\ pc[c] = "commit"
  /\ NothingFits(c) /\ ~CanOpen(c, Drivers)
  /\ \A s \in seen[c].candidates : ~CanEvict(c, s)
  /\ Answer(c)
  /\ UNCHANGED db

----------------------------------------------------------------------------
(* Mutant: a victim that could not be placed is tried again.               *)
ReassignForever(c) ==
  /\ pc[c] = "victims"
  /\ \E victim \in owed[c] : pkg' = [pkg EXCEPT ![c] = victim]
  /\ evicts' = [evicts EXCEPT ![c] = FALSE]
  /\ pc' = [pc EXCEPT ![c] = "load"]
  /\ UNCHANGED <<db, owed, tries, seen>>

(* reassignVictims: each goes through assign() with eviction disabled.     *)
ReassignVictim(c) ==
  /\ pc[c] = "victims"
  /\ \E victim \in owed[c] :
       /\ pkg' = [pkg EXCEPT ![c] = victim]
       /\ owed' = [owed EXCEPT ![c] = @ \ {victim}]
  /\ evicts' = [evicts EXCEPT ![c] = FALSE]
  /\ pc' = [pc EXCEPT ![c] = "load"]
  /\ UNCHANGED <<db, tries, seen>>

(* The process goes down between two round trips: a call keeps nothing.    *)
Crash(c) ==
  /\ pc[c] \notin {"idle", "done"}
  /\ pc' = [pc EXCEPT ![c] = "done"]
  /\ owed' = [owed EXCEPT ![c] = {}]
  /\ seen' = [seen EXCEPT ![c] = Nothing]
  /\ tries' = [tries EXCEPT ![c] = 0]
  /\ UNCHANGED <<db, pkg, evicts>>

Work(c) ==
  \/ LoadPackage(c) \/ LoadShifts(c) \/ LoadStops(c)
  \/ CommitCovering(c) \/ OpenCovering(c) \/ CommitOther(c)
  \/ OpenAny(c) \/ Evict(c) \/ Defer(c) \/ ReassignVictim(c)

People == (Dispatcher \/ DriverApp) /\ UNCHANGED callVars

Next == People \/ \E c \in Calls : Begin(c) \/ Work(c) \/ Crash(c)

(* A call that started is run to its end by the event loop; the dispatcher *)
(* and the driver owe nobody a step.                                       *)
Spec == Init /\ [][Next]_vars /\ \A c \in Calls : WF_vars(Work(c))

----------------------------------------------------------------------------
(* Every variable stays in its type; a call that has read its package      *)
(* knows victims only when it evicted.                                     *)
TypeOK ==
  /\ db \in Tables
  /\ pc \in [Calls -> Where]
  /\ pkg \in [Calls -> Packages]
  /\ evicts \in [Calls -> BOOLEAN]
  /\ tries \in [Calls -> 0..MaxRevisionRetries]
  /\ owed \in [Calls -> SUBSET Packages]
  /\ seen \in [Calls -> Snapshots]

(* The claim on packages.optimisation_id and the route steps never         *)
(* disagree: a package a shift claims has a stop on it, and a stop belongs *)
(* to a package its shift claims (claimPackages and writePlan commit       *)
(* together, and no commit overwrites a plan it has not read).             *)
ClaimsArePlanned ==
  \A p \in Packages, s \in Shifts : db.optimisation[p] = s <=> p \in db.route[s]

(* A package reads PENDING exactly while no shift claims it: an eviction   *)
(* really puts it back (AllowStatusRevisits).                              *)
StatusTellsClaim ==
  \A p \in Packages : db.timeline[p] = "PENDING" <=> db.optimisation[p] = NoShift

(* What hasMoved relies on: a planned shift whose revision is the one the  *)
(* first read saw still has the stops, and those stops the eviction        *)
(* counts, that the second read saw, although the two reads share no       *)
(* transaction.                                                            *)
PricedPlanIsCurrent ==
  \A c \in Calls, s \in Shifts :
    pc[c] = "commit" /\ s \in seen[c].candidates /\ ~HasMoved(c, s) =>
      /\ seen[c].route[s] = db.route[s]
      /\ \A p \in db.route[s] : seen[c].evictionCount[p] = db.evictionCount[p]

(* No package is bumped more than MAX_EVICTIONS times, however many calls  *)
(* priced the same victim at once.                                         *)
EvictionBound == \A p \in Packages : db.evictionCount[p] <= MaxEvictions

(* Every open shift can be driven: its stops fit its driver and vehicle,   *)
(* and the vehicle holds the skills of each, although several calls priced *)
(* the same room.                                                          *)
RoutesDeliverable ==
  \A s \in Shifts : IsOpen(db, s) /\ db.route[s] # {} =>
    /\ Feasible(db.driver[s], db.vehicle[s], db.route[s])
    /\ db.route[s] \subseteq Carries[db.vehicle[s]]

(* A van that has rolled keeps the plan it rolled with: instant assignment *)
(* never adds a stop to, or takes one from, a dispatched shift.            *)
RolledPlanFrozen ==
  [][\A s \in Shifts : db.status[s] = "dispatched" => db'.route[s] = db.route[s]]_vars

(* A package in transit is never taken off its shift or back to PENDING.   *)
CarriedStays ==
  [][\A p \in Packages : db.timeline[p] = "IN_TRANSIT" =>
       /\ db'.optimisation[p] = db.optimisation[p]
       /\ db'.timeline[p] = "IN_TRANSIT"]_vars

(* Clients poll the revision: a plan never changes under one that stays.   *)
RevisionTellsPlan ==
  [][\A s \in Shifts :
       db'.route[s] # db.route[s] => db'.revision[s] > db.revision[s]]_vars

(* Refuted: isEvictable's comment, "a package the driver has loaded ... is *)
(* physically on the van; removing it from the plan does not remove it     *)
(* from the vehicle".  The status is read in Phase A, and loading a        *)
(* package moves no revision.                                              *)
LoadedStays ==
  [][\A p \in Packages : db.timeline[p] = "ONBOARD_FOR_DELIVERY" =>
       db'.optimisation[p] = db.optimisation[p]]_vars

(* Every call ends: the retries are bounded, and so are the victims.  (A   *)
(* replan worker's call that ended is idle until the next one.)            *)
EveryCallAnswers == \A c \in Calls : pc[c] = "load" ~> pc[c] \in {"idle", "done"}
=============================================================================
