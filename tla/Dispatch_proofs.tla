--------------------------- MODULE Dispatch_proofs ---------------------------
(***************************************************************************)
(* The three planners of a warehouse on the same tables, for any number of *)
(* requests, replicas and hand edits, with failures, crashes and advisory  *)
(* locks that outlive their holder.                                        *)
(*                                                                         *)
(* The argument: a step either queues a replan of every shift it claims    *)
(* for or takes stops from (Queues), or is the write of a replan.  That    *)
(* write loses the packages claimed since the worker read the shift's, and *)
(* each of these queued a replan, which nobody else has handled meanwhile  *)
(* without reading the packages anew, because the worker has the shift's   *)
(* lock (LateStopIsQueued).                                                *)
(***************************************************************************)
EXTENDS Dispatch, Tier1_proofs

(* No claim is on a shift that does not exist.                             *)
Unclaimed(d) == \A s \in Shifts : d.status[s] = "none" => \A p \in Packages : d.optimisation[p] # s

TellsClaim(d) == \A p \in Packages : d.timeline[p] = "PENDING" <=> d.optimisation[p] = NoShift

TablesKnown(d) == d \in Tables /\ Unclaimed(d) /\ TellsClaim(d)

(* From tables d to tables e: shifts stay and do not come back from the    *)
(* road, and one that gains a claim or loses a stop it claims is queued.   *)
Queues(d, e) ==
  /\ TablesKnown(e)
  /\ d.replans \subseteq e.replans
  /\ \A s \in Shifts : /\ d.status[s] # "none" => e.status[s] # "none"
                       /\ e.status[s] = "planned" => d.status[s] \in {"none", "planned"}
  /\ \A s \in Shifts, p \in Packages :
       e.optimisation[p] = s /\ s \notin e.replans =>
         d.optimisation[p] = s /\ (p \in d.route[s] => p \in e.route[s])

-----------------------------------------------------------------------------
(* The statements of ShiftPlanWriter.                                      *)

LEMMA QueuesNothing ==
  ASSUME NEW d, TablesKnown(d)
  PROVE  Queues(d, d)
BY DEF Queues, TablesKnown, Tables, ShiftStatus

LEMMA QueuesTrans ==
  ASSUME NEW a, NEW b, NEW e, Queues(a, b), Queues(b, e)
  PROVE  Queues(a, e)
BY DEF Queues

(* A write that moves no claim, no stop and no replan.                     *)
LEMMA QueuesStatus ==
  ASSUME NEW d, TablesKnown(d), NEW e \in Tables, TellsClaim(e),
         e.replans = d.replans, e.route = d.route, e.optimisation = d.optimisation,
         \A s \in Shifts : /\ d.status[s] # "none" => e.status[s] # "none"
                           /\ e.status[s] = "planned" => d.status[s] \in {"none", "planned"}
  PROVE  Queues(d, e)
BY DEF Queues, TablesKnown, Unclaimed

LEMMA TouchQueue ==
  ASSUME NEW d \in Tables, NEW s \in Shifts
  PROVE  Touch(d, s).replans = d.replans
BY DEF Touch, Tables

LEMMA WrittenColumns ==
  ASSUME NEW d \in Tables, NEW s \in Shifts, NEW stops \in SUBSET Packages
  PROVE  LET e == WritePlan(SnapshotRevision(d, s), s, stops)
         IN  /\ e \in Tables
             /\ e.status = d.status
             /\ e.route = [d.route EXCEPT ![s] = stops]
             /\ e.optimisation = d.optimisation
             /\ e.timeline = d.timeline
             /\ e.replans = d.replans
<1> DEFINE h == SnapshotRevision(d, s)
           w == [h EXCEPT !.route[s] = stops]
           e == WritePlan(h, s, stops)
<1>1. /\ h \in Tables /\ h.revision = d.revision /\ h.status = d.status
      /\ h.route = d.route /\ h.optimisation = d.optimisation
      /\ h.evictionCount = d.evictionCount /\ h.timeline = d.timeline
  BY SnapshotColumns
<1>2. h.replans = d.replans
  BY DEF SnapshotRevision, Tables
<1> HIDE DEF h
<1>3. /\ e \in Tables
      /\ e.revision = [h.revision EXCEPT ![s] = @ + 1]
      /\ e.status = h.status
      /\ e.route = [h.route EXCEPT ![s] = stops]
      /\ e.optimisation = h.optimisation
      /\ e.evictionCount = h.evictionCount
      /\ e.timeline = h.timeline
  BY <1>1, WritePlanColumns
<1>4. w \in Tables /\ w.replans = h.replans
  BY <1>1 DEF Tables
<1>5. e.replans = h.replans
  <2> HIDE DEF w
  <2>1. e = Touch(w, s)
    BY DEF WritePlan, w
  <2> QED BY <1>4, <2>1, TouchQueue
<1> HIDE DEF e
<1> QED BY <1>1, <1>2, <1>3, <1>5 DEF e, h

(* A plan that was written and queued.                                     *)
LEMMA QueuedWrite ==
  ASSUME NEW d, TablesKnown(d), NEW s \in Shifts, NEW stops \in SUBSET Packages
  PROVE  Queues(d, EnqueueReplan(WritePlan(SnapshotRevision(d, s), s, stops), s))
<1> DEFINE w == WritePlan(SnapshotRevision(d, s), s, stops)
           e == EnqueueReplan(w, s)
<1>1. /\ w \in Tables /\ w.status = d.status
      /\ w.route = [d.route EXCEPT ![s] = stops]
      /\ w.optimisation = d.optimisation /\ w.timeline = d.timeline /\ w.replans = d.replans
  BY WrittenColumns DEF TablesKnown
<1> HIDE DEF w
<1>2. /\ e \in Tables /\ e.status = w.status /\ e.route = w.route
      /\ e.optimisation = w.optimisation /\ e.timeline = w.timeline
      /\ e.replans = w.replans \cup {s}
  BY <1>1 DEF EnqueueReplan, Tables
<1> HIDE DEF e
<1>3. d.route \in [Shifts -> SUBSET Packages] /\ d.status \in [Shifts -> ShiftStatus]
  BY DEF TablesKnown, Tables
<1>4. TablesKnown(e)
  BY <1>1, <1>2 DEF TablesKnown, Unclaimed, TellsClaim
<1>5. \A t \in Shifts \ {s} : e.route[t] = d.route[t]
  BY <1>1, <1>2, <1>3
<1>6. Queues(d, e)
  BY <1>1, <1>2, <1>3, <1>4, <1>5 DEF Queues, ShiftStatus
<1> QED BY <1>6 DEF e, w

(* A plan that was written with claims, and queued.                        *)
LEMMA QueuedClaim ==
  ASSUME NEW d, TablesKnown(d), NEW s \in Shifts, d.status[s] # "none",
         NEW stops \in SUBSET Packages, NEW ids \in SUBSET Packages
  PROVE  Queues(d, EnqueueReplan(ClaimPackages(WritePlan(SnapshotRevision(d, s), s, stops), s, ids), s))
<1> DEFINE w == WritePlan(SnapshotRevision(d, s), s, stops)
           e == EnqueueReplan(ClaimPackages(w, s, ids), s)
<1>1. /\ w \in Tables /\ w.status = d.status
      /\ w.route = [d.route EXCEPT ![s] = stops]
      /\ w.optimisation = d.optimisation /\ w.timeline = d.timeline /\ w.replans = d.replans
  BY WrittenColumns DEF TablesKnown
<1> HIDE DEF w
<1>2. /\ e \in Tables /\ e.revision = w.revision /\ e.status = w.status
      /\ e.route = w.route
      /\ e.optimisation = [p \in Packages |-> IF p \in ids THEN s ELSE w.optimisation[p]]
      /\ e.evictionCount = w.evictionCount
      /\ e.timeline = [p \in Packages |-> IF p \in ids THEN "ASSIGNED" ELSE w.timeline[p]]
  BY <1>1, ClaimColumns
<1>3. e.replans = w.replans \cup {s}
  BY <1>1 DEF EnqueueReplan, ClaimPackages, Tables
<1> HIDE DEF e
<1>4. d.route \in [Shifts -> SUBSET Packages] /\ d.status \in [Shifts -> ShiftStatus]
  BY DEF TablesKnown, Tables
<1>5. TellsClaim(e)
  BY <1>1, <1>2, NoShiftAssumption DEF TablesKnown, TellsClaim
<1>6. Unclaimed(e)
  BY <1>1, <1>2 DEF TablesKnown, Unclaimed
<1>7. \A t \in Shifts \ {s} : e.route[t] = d.route[t]
  BY <1>1, <1>2, <1>4
<1>8. \A p \in Packages, t \in Shifts \ {s} : e.optimisation[p] = t => d.optimisation[p] = t
  BY <1>1, <1>2
<1>9. Queues(d, e)
  BY <1>1, <1>2, <1>3, <1>4, <1>5, <1>6, <1>7, <1>8 DEF Queues, TablesKnown, ShiftStatus
<1> QED BY <1>9 DEF e, w

(* What is detached loses its claim with its stop.                         *)
LEMMA DetachQueues ==
  ASSUME NEW d, TablesKnown(d), NEW ids \in SUBSET Packages, NEW n \in Nat
  PROVE  Queues(d, Detach(d, ids, n)) /\ Detach(d, ids, n).status = d.status
<1> DEFINE e == Detach(d, ids, n)
<1>1. /\ e \in Tables
      /\ e.revision = d.revision
      /\ e.status = d.status
      /\ e.route = [s \in Shifts |-> d.route[s] \ ids]
      /\ e.optimisation = [p \in Packages |-> IF p \in ids THEN NoShift ELSE d.optimisation[p]]
      /\ e.evictionCount = [p \in Packages |-> IF p \in ids THEN d.evictionCount[p] + n
                                                ELSE d.evictionCount[p]]
      /\ e.timeline = [p \in Packages |-> IF p \in ids THEN "PENDING" ELSE d.timeline[p]]
  BY DetachColumns DEF TablesKnown
<1>2. e.replans = d.replans
  BY DEF Detach, TablesKnown, Tables
<1> HIDE DEF e
<1>3. d.status \in [Shifts -> ShiftStatus]
  BY DEF TablesKnown, Tables
<1>4. TellsClaim(e)
  BY <1>1 DEF TablesKnown, TellsClaim
<1>5. Unclaimed(e)
  BY <1>1, NoShiftAssumption DEF TablesKnown, Unclaimed
<1>6. Queues(d, e)
  BY <1>1, <1>2, <1>3, <1>4, <1>5, NoShiftAssumption DEF Queues, TablesKnown, ShiftStatus
<1> QED BY <1>1, <1>6 DEF e

(* A new row has no claims.                                                *)
LEMMA InsertQueues ==
  ASSUME NEW d, TablesKnown(d), NEW s \in Shifts, d.status[s] = "none",
         NEW w \in Drivers, NEW v \in Vehicles
  PROVE  LET e == InsertShift(d, s, w, v)
         IN  Queues(d, e) /\ e.status[s] = "planned"
<1> DEFINE e == InsertShift(d, s, w, v)
<1>1. /\ e \in Tables
      /\ e.revision = [d.revision EXCEPT ![s] = 1]
      /\ e.status = [d.status EXCEPT ![s] = "planned"]
      /\ e.route = d.route
      /\ e.optimisation = d.optimisation
      /\ e.evictionCount = d.evictionCount
      /\ e.timeline = d.timeline
  BY InsertColumns DEF TablesKnown
<1>2. e.replans = d.replans
  BY DEF InsertShift, TablesKnown, Tables
<1> HIDE DEF e
<1>3. d.status \in [Shifts -> ShiftStatus] /\ TellsClaim(e)
  BY <1>1 DEF TablesKnown, Tables, TellsClaim
<1>4. \A t \in Shifts : /\ d.status[t] # "none" => e.status[t] # "none"
                        /\ e.status[t] = "planned" => d.status[t] \in {"none", "planned"}
  BY <1>1, <1>3
<1>5. Queues(d, e) /\ e.status[s] = "planned"
  BY <1>1, <1>2, <1>3, <1>4, QueuesStatus
<1> QED BY <1>5 DEF e

-----------------------------------------------------------------------------
(* What people and assign() do.                                            *)

LEMMA DepartQueues ==
  ASSUME NEW d, TablesKnown(d), NEW s \in Shifts, d.status[s] = "planned"
  PROVE  Queues(d, Depart(d, s))
<1> DEFINE w == [d EXCEPT !.status[s] = "dispatched"]
           e == Depart(d, s)
<1>1. /\ e \in Tables
      /\ e.revision = [d.revision EXCEPT ![s] = @ + 1]
      /\ e.status = [d.status EXCEPT ![s] = "dispatched"]
      /\ e.route = d.route
      /\ e.optimisation = d.optimisation
      /\ e.evictionCount = d.evictionCount
      /\ e.timeline = d.timeline
  BY DepartColumns DEF TablesKnown
<1>2. w \in Tables /\ w.replans = d.replans
  BY DEF TablesKnown, Tables, ShiftStatus
<1>3. e.replans = d.replans
  <2> HIDE DEF w
  <2>1. e = Touch(w, s)
    BY DEF Depart, w
  <2> QED BY <1>2, <2>1, TouchQueue
<1> HIDE DEF e
<1>4. d.status \in [Shifts -> ShiftStatus] /\ TellsClaim(e)
  BY <1>1 DEF TablesKnown, Tables, TellsClaim
<1>5. \A t \in Shifts : /\ d.status[t] # "none" => e.status[t] # "none"
                        /\ e.status[t] = "planned" => d.status[t] \in {"none", "planned"}
  BY <1>1, <1>4
<1>6. Queues(d, e)
  BY <1>1, <1>3, <1>4, <1>5, QueuesStatus
<1> QED BY <1>6 DEF e

(* A status of a claimed package changes to another of a claimed one.      *)
LEMMA ScanQueues ==
  ASSUME NEW d, TablesKnown(d), NEW p \in Packages, d.timeline[p] # "PENDING",
         NEW x \in PackageStatus, x # "PENDING"
  PROVE  LET e == [d EXCEPT !.timeline[p] = x]
         IN  Queues(d, e) /\ e.status = d.status /\ e.optimisation = d.optimisation
<1> DEFINE e == [d EXCEPT !.timeline[p] = x]
<1>1. /\ e \in Tables /\ e.status = d.status /\ e.route = d.route
      /\ e.optimisation = d.optimisation /\ e.replans = d.replans
      /\ e.timeline = [d.timeline EXCEPT ![p] = x]
  BY DEF TablesKnown, Tables
<1> HIDE DEF e
<1>2. d.status \in [Shifts -> ShiftStatus] /\ d.timeline \in [Packages -> PackageStatus]
  BY DEF TablesKnown, Tables
<1>3. TellsClaim(e)
  BY <1>1, <1>2 DEF TablesKnown, TellsClaim
<1>4. Queues(d, e)
  BY <1>1, <1>2, <1>3, QueuesStatus DEF ShiftStatus
<1> QED BY <1>1, <1>4 DEF e

LEMMA PeopleQueue ==
  ASSUME TablesKnown(db), Dispatcher \/ DriverApp
  PROVE  Queues(db, db')
<1>1. ASSUME NEW s \in Shifts, NEW w \in Drivers, NEW v \in Vehicles, CreateShift(s, w, v)
      PROVE  Queues(db, db')
  BY <1>1, InsertQueues DEF CreateShift
<1>2. ASSUME NEW s \in Shifts, StartNears(s)
      PROVE  Queues(db, db')
  <2>1. /\ db' \in Tables /\ db'.status = db.status /\ db'.route = db.route
        /\ db'.optimisation = db.optimisation /\ db'.timeline = db.timeline
        /\ db'.replans = db.replans
    BY <1>2 DEF StartNears, TablesKnown, Tables
  <2>2. TellsClaim(db') /\ db.status \in [Shifts -> ShiftStatus]
    BY <2>1 DEF TablesKnown, TellsClaim, Tables
  <2> QED BY <2>1, <2>2, QueuesStatus DEF ShiftStatus
<1>3. ASSUME NEW s \in Shifts, DispatchShift(s)
      PROVE  Queues(db, db')
  BY <1>3, DepartQueues DEF DispatchShift
<1>4. ASSUME NEW p \in Packages, LoadParcel(p)
      PROVE  Queues(db, db')
  <2>1. "ONBOARD_FOR_DELIVERY" \in PackageStatus
    BY DEF PackageStatus
  <2> QED BY <1>4, <2>1, ScanQueues DEF LoadParcel
<1>5. ASSUME NEW p \in Packages, CarryParcel(p)
      PROVE  Queues(db, db')
  <2> DEFINE moved == [db EXCEPT !.timeline[p] = "IN_TRANSIT"]
             s == db.optimisation[p]
  <2>1. "IN_TRANSIT" \in PackageStatus /\ db.timeline[p] # "PENDING"
    BY <1>5 DEF CarryParcel, PackageStatus
  <2>2. Queues(db, moved) /\ moved.status = db.status
    BY <2>1, ScanQueues
  <2>3. CASE s \in Shifts /\ db.status[s] = "planned" /\ db' = Depart(moved, s)
    <3> HIDE DEF moved
    <3>1. Queues(moved, Depart(moved, s))
      BY <2>2, <2>3, DepartQueues DEF Queues
    <3> QED BY <2>2, <2>3, <3>1, QueuesTrans
  <2>4. CASE db' = moved
    BY <2>2, <2>4
  <2> QED BY <1>5, <2>3, <2>4 DEF CarryParcel
<1> QED BY <1>1, <1>2, <1>3, <1>4, <1>5 DEF Dispatcher, DriverApp

LEMMA PlacedQueues ==
  ASSUME NEW d, TablesKnown(d), NEW c \in Calls, pkg[c] \in Packages, NEW s \in Shifts,
         d.status[s] # "none", NEW stops \in SUBSET Packages
  PROVE  Queues(d, Placed(c, d, s, stops))
<1>1. stops \cup {pkg[c]} \in SUBSET Packages /\ {pkg[c]} \in SUBSET Packages
  OBVIOUS
<1> QED BY <1>1, QueuedClaim DEF Placed

LEMMA CommitQueues ==
  ASSUME TablesKnown(db), CallsTyped, NEW c \in Calls, NEW d, Queues(db, d), NEW s \in Shifts,
         d.status[s] # "none", NEW stops \in SUBSET Packages, CommitPlacement(c, d, s, stops)
  PROVE  Queues(db, db')
<1>1. pkg[c] \in Packages /\ TablesKnown(d)
  BY DEF CallsTyped, Queues
<1>2. Queues(d, Placed(c, d, s, stops))
  BY <1>1, PlacedQueues
<1>3. Queues(db, Placed(c, d, s, stops)) /\ Queues(db, db)
  BY <1>2, QueuesTrans, QueuesNothing
<1> QED BY <1>3 DEF CommitPlacement

LEMMA PlaceUnlessMovedQueues ==
  ASSUME TablesKnown(db), CallsTyped, NEW c \in Calls, NEW s \in seen[c].candidates,
         PlaceUnlessMoved(c, s)
  PROVE  Queues(db, db')
<1>1. s \in Shifts /\ seen[c].route[s] \in SUBSET Packages /\ Queues(db, db)
  BY QueuesNothing DEF CallsTyped, Snapshots
<1>2. CASE HasMoved(c, s)
  BY <1>1, <1>2 DEF PlaceUnlessMoved, Retry
<1>3. CASE ~HasMoved(c, s)
  <2>1. db.status[s] # "none"
    BY <1>3 DEF HasMoved
  <2> QED BY <1>1, <1>3, <2>1, CommitQueues DEF PlaceUnlessMoved
<1> QED BY <1>2, <1>3

LEMMA OpenAndPlaceQueues ==
  ASSUME TablesKnown(db), CallsTyped, NEW c \in Calls, NEW drivers, OpenAndPlace(c, drivers)
  PROVE  Queues(db, db')
<1>1. PICK pair \in IdlePairs(c, drivers), s \in Shifts \ Scheduled :
        /\ db.status[s] = "none"
        /\ IF Feasible(pair[1], pair[2], {pkg[c]})
           THEN CommitPlacement(c, InsertShift(db, s, pair[1], pair[2]), s, {})
           ELSE Answer(c) /\ UNCHANGED db
  BY DEF OpenAndPlace
<1>2. pair[1] \in Drivers /\ pair[2] \in Vehicles
  BY <1>1, CrewAssumption DEF IdlePairs
<1> DEFINE d == InsertShift(db, s, pair[1], pair[2])
<1>3. Queues(db, d) /\ d.status[s] = "planned"
  BY <1>1, <1>2, InsertQueues
<1> HIDE DEF d
<1>4. CASE CommitPlacement(c, d, s, {})
  <2>1. {} \in SUBSET Packages /\ d.status[s] # "none" /\ s \in Shifts
    BY <1>3
  <2> QED BY <1>3, <1>4, <2>1, CommitQueues
<1>5. CASE UNCHANGED db
  BY <1>5, QueuesNothing
<1> QED BY <1>1, <1>4, <1>5 DEF d

LEMMA EvictAndPlaceQueues ==
  ASSUME TablesKnown(db), CallsTyped, NEW c \in Calls, NEW s \in seen[c].candidates,
         ~HasMoved(c, s), NEW victims \in Victims(c, s), EvictAndPlace(c, s, victims)
  PROVE  Queues(db, db')
<1> DEFINE d == Detach(db, victims, 1)
           stops == seen[c].route[s] \ victims
<1>1. /\ s \in Shifts /\ stops \in SUBSET Packages /\ victims \in SUBSET Packages
      /\ pkg[c] \in Packages /\ db.status[s] # "none"
  BY DEF CallsTyped, Snapshots, HasMoved, Victims, Evictable
<1>2. Queues(db, d) /\ d.status = db.status
  BY <1>1, DetachQueues
<1> HIDE DEF d, stops
<1>3. Queues(d, Placed(c, d, s, stops))
  BY <1>1, <1>2, PlacedQueues DEF Queues
<1>4. Queues(db, Placed(c, d, s, stops)) /\ Queues(db, db)
  BY <1>2, <1>3, QueuesTrans, QueuesNothing
<1> QED BY <1>4 DEF EvictAndPlace, d, stops

LEMMA CallsQueue ==
  ASSUME TablesKnown(db), CallsTyped, NEW c \in Calls, Begin(c) \/ Work(c) \/ Crash(c)
  PROVE  Queues(db, db')
<1>1. CASE UNCHANGED db
  BY <1>1, QueuesNothing
<1>2. CASE CommitCovering(c)
  BY <1>2, PlaceUnlessMovedQueues DEF CommitCovering, CoveringFits
<1>3. CASE CommitOther(c)
  BY <1>3, PlaceUnlessMovedQueues DEF CommitOther, OtherFits
<1>4. CASE OpenCovering(c) \/ OpenAny(c)
  BY <1>4, OpenAndPlaceQueues DEF OpenCovering, OpenAny
<1>5. CASE Evict(c)
  <2>1. CASE \E s \in seen[c].candidates : Retry(c)
    BY <1>1, <2>1 DEF Retry
  <2>2. CASE \E s \in seen[c].candidates : ~HasMoved(c, s)
               /\ \E victims \in Victims(c, s) : EvictAndPlace(c, s, victims)
    BY <2>2, EvictAndPlaceQueues
  <2> QED BY <1>5, <2>1, <2>2 DEF Evict
<1> QED BY <1>1, <1>2, <1>3, <1>4, <1>5
    DEF Work, Begin, LoadPackage, LoadShifts, LoadStops, Defer, ReassignVictim, Crash

-----------------------------------------------------------------------------
(* The inductive invariant.                                                *)

WorkersTyped ==
  /\ job \in [Workers -> Jobs]
  /\ held \in [Shifts -> Workers \cup {Nobody}]
  /\ attempts \in [Shifts -> 0..MaxRetries]
  /\ dropped \subseteq Shifts

Replans == {"shift", "packages", "solve", "assign"}

(* A worker holds the lock of the shift it replans, and remembers packages *)
(* only between its read of them and its write.                            *)
JobsHold ==
  \A w \in Workers :
    /\ job[w].at \in Replans => job[w].shift \in Shifts /\ held[job[w].shift] = w
    /\ job[w].at \notin Replans => job[w].shift = NoShift
    /\ job[w].at # "solve" => job[w].packages = {}
    /\ job[w].at = "idle" => job[w].batch = {}

EditsKnow ==
  /\ edit \in [Editors -> Edits]
  /\ \A e \in Editors : edit[e].at \in {"stops", "package", "write"} =>
       edit[e].shift \in Shifts /\ db.status[edit[e].shift] # "none"

(* A shift will be replanned, or its replan was given up.                  *)
Promised(s) == s \in db.replans \/ s \in dropped \/ \E w \in Workers : s \in job[w].batch

(* A package claimed since the worker read the packages of its shift.      *)
LateStopIsQueued ==
  \A w \in Workers, p \in Packages :
    /\ job[w].at = "solve"
    /\ db.optimisation[p] = job[w].shift
    /\ p \notin job[w].packages
    => Promised(job[w].shift)

DispatchIInv ==
  /\ TablesKnown(db) /\ CallsTyped
  /\ WorkersTyped /\ JobsHold /\ EditsKnow
  /\ LostStopIsQueued /\ LateStopIsQueued

-----------------------------------------------------------------------------
(* What the parts of the invariant need of a step.                         *)

(* The rows the promises are about stay as they are.                       *)
SameRows == /\ db' \in Tables /\ db'.status = db.status /\ db'.route = db.route
            /\ db'.optimisation = db.optimisation /\ db'.timeline = db.timeline

LEMMA UnchangedRows ==
  ASSUME TablesKnown(db), NEW ids \in SUBSET Shifts,
         UNCHANGED db \/ db' = [db EXCEPT !.replans = ids]
  PROVE  SameRows
BY DEF SameRows, TablesKnown, Tables

LEMMA RowsStay ==
  ASSUME TablesKnown(db), EditsKnow, SameRows, UNCHANGED edit
  PROVE  TablesKnown(db)' /\ EditsKnow'
BY DEF TablesKnown, Unclaimed, TellsClaim, EditsKnow, SameRows

Lost(s, p) == db.status[s] = "planned" /\ db.optimisation[p] = s /\ p \notin db.route[s]

Late(w, p) == /\ job[w].at = "solve"
              /\ db.optimisation[p] = job[w].shift
              /\ p \notin job[w].packages

(* A step of one worker that moves no row: what the worker itself stood    *)
(* for is all there is to see to.                                          *)
LEMMA PromisesOutlive ==
  ASSUME LostStopIsQueued, LateStopIsQueued, JobsHold, SameRows, NEW w \in Workers,
         \A x \in Workers \ {w} : job'[x] = job[x],
         \A s \in Shifts : Promised(s) => Promised(s)',
         \A s \in Shifts, p \in Packages :
           Lost(s, p) /\ Replanning(w, s, p) => Promised(s)' \/ Replanning(w, s, p)',
         \A p \in Packages : Late(w, p)' => Promised(job[w].shift)'
  PROVE  LostStopIsQueued' /\ LateStopIsQueued'
<1>1. ASSUME NEW s \in Shifts, NEW p \in Packages, Lost(s, p)'
      PROVE  Promised(s)' \/ \E x \in Workers : Replanning(x, s, p)'
  <2>1. Lost(s, p)
    BY <1>1 DEF Lost, SameRows
  <2>2. CASE Promised(s)
    BY <2>2
  <2>3. ASSUME NEW x \in Workers \ {w}, Replanning(x, s, p)
        PROVE  Replanning(x, s, p)'
    BY <2>3 DEF Replanning
  <2>4. Promised(s) \/ \E x \in Workers : Replanning(x, s, p)
    BY <2>1 DEF LostStopIsQueued, Lost, Promised
  <2> QED BY <2>1, <2>2, <2>3, <2>4
<1>2. ASSUME NEW x \in Workers, NEW p \in Packages, Late(x, p)'
      PROVE  Promised(job[x].shift)'
  <2>1. CASE x = w
    BY <1>2, <2>1
  <2>2. CASE x # w
    <3>1. Late(x, p) /\ job'[x] = job[x]
      BY <1>2, <2>2 DEF Late, SameRows
    <3>2. job[x].shift \in Shifts /\ Promised(job[x].shift)
      BY <3>1 DEF LateStopIsQueued, Late, JobsHold, Replans
    <3>3. PICK s \in Shifts : s = job[x].shift
      BY <3>2
    <3>4. Promised(s)'
      BY <3>2, <3>3
    <3> QED BY <3>1, <3>3, <3>4 DEF Promised
  <2> QED BY <2>1, <2>2
<1>3. LostStopIsQueued'
  <2>1. ASSUME NEW s \in Shifts, NEW p \in Packages, Lost(s, p)'
        PROVE  \/ s \in db'.replans \/ s \in dropped'
               \/ \E x \in Workers : Replanning(x, s, p)'
    BY <1>1, <2>1 DEF Promised, Replanning
  <2> QED BY <2>1 DEF LostStopIsQueued, Lost
<1> QED BY <1>2, <1>3 DEF LateStopIsQueued, Late

(* The lock is let go, or left on a connection of the pool.                *)
LEMMA ReplanEnds ==
  ASSUME WorkersTyped, JobsHold, NEW w \in Workers, job[w].at \in Replans,
         NextMessage(w), Unlock(w)
  PROVE  /\ job' \in [Workers -> Jobs] /\ held' \in [Shifts -> Workers \cup {Nobody}]
         /\ JobsHold'
         /\ job'[w].at = "batch" /\ job'[w].packages = {}
         /\ \A x \in Workers : job'[x].batch = job[x].batch
         /\ \A x \in Workers \ {w} : job'[x] = job[x]
<1> DEFINE j == [NoJob EXCEPT !.at = "batch", !.batch = job[w].batch]
<1>1. job[w] \in Jobs
  BY DEF WorkersTyped
<1>2. j.at = "batch" /\ j.batch = job[w].batch /\ j.shift = NoShift /\ j.packages = {}
  BY DEF NoJob
<1>3. j \in Jobs
  BY <1>1 DEF NoJob, Jobs
<1>4. job' = [job EXCEPT ![w] = j]
  BY DEF NextMessage
<1> HIDE DEF j
<1>5. job' \in [Workers -> Jobs] /\ job'[w] = j /\ \A x \in Workers \ {w} : job'[x] = job[x]
  BY <1>3, <1>4 DEF WorkersTyped
<1>6. job[w].shift \in Shifts /\ held[job[w].shift] = w
  BY DEF JobsHold
<1>7. held' \in [Shifts -> Workers \cup {Nobody}]
  BY <1>6 DEF Unlock, WorkersTyped
<1>8. ASSUME NEW s \in Shifts, held[s] # w
      PROVE  held'[s] = held[s]
  BY <1>6, <1>8 DEF Unlock, WorkersTyped
<1>9. JobsHold'
  <2>1. ASSUME NEW x \in Workers \ {w}
        PROVE  /\ job'[x].at \in Replans => job'[x].shift \in Shifts /\ held'[job'[x].shift] = x
               /\ job'[x].at \notin Replans => job'[x].shift = NoShift
               /\ job'[x].at # "solve" => job'[x].packages = {}
               /\ job'[x].at = "idle" => job'[x].batch = {}
    BY <1>5, <1>8, <2>1 DEF JobsHold
  <2>2. "batch" \notin Replans
    BY DEF Replans
  <2> QED BY <1>2, <1>5, <2>1, <2>2 DEF JobsHold
<1> QED BY <1>2, <1>5, <1>7, <1>9

(* A worker that goes on to another point of the replan it is in.          *)
LEMMA ReplanGoesOn ==
  ASSUME WorkersTyped, JobsHold, NEW w \in Workers, NEW j \in Jobs,
         job' = [job EXCEPT ![w] = j], UNCHANGED held,
         job[w].at \in Replans, j.at \in Replans, j.shift = job[w].shift,
         j.at # "solve" => j.packages = {}
  PROVE  /\ job' \in [Workers -> Jobs] /\ held' \in [Shifts -> Workers \cup {Nobody}]
         /\ JobsHold'
         /\ job'[w] = j
         /\ \A x \in Workers \ {w} : job'[x] = job[x]
<1>1. job' \in [Workers -> Jobs] /\ job'[w] = j /\ \A x \in Workers \ {w} : job'[x] = job[x]
  BY DEF WorkersTyped
<1>2. JobsHold'
  BY <1>1 DEF JobsHold, Replans
<1> QED BY <1>1, <1>2 DEF WorkersTyped

LEMMA ReadBatchHolds ==
  ASSUME DispatchIInv, NEW w \in Workers, ReadBatch(w), UNCHANGED edit
  PROVE  DispatchIInv'
<1> DEFINE j == [job[w] EXCEPT !.at = "batch", !.batch = db.replans]
<1>1. db \in Tables /\ job[w] \in Jobs /\ db.replans \in SUBSET Shifts /\ {} \in SUBSET Shifts
  BY DEF DispatchIInv, TablesKnown, Tables, WorkersTyped
<1>2. job' = [job EXCEPT ![w] = j]
  BY <1>1 DEF ReadBatch, DispatchIInv, WorkersTyped, Jobs
<1>3. j \in Jobs /\ j.at = "batch" /\ j.batch = db.replans /\ j.shift = job[w].shift
      /\ j.packages = job[w].packages
  BY <1>1 DEF Jobs
<1> HIDE DEF j
<1>4. job' \in [Workers -> Jobs] /\ job'[w] = j /\ \A x \in Workers \ {w} : job'[x] = job[x]
  BY <1>2, <1>3 DEF DispatchIInv, WorkersTyped
<1>5. SameRows
  BY <1>1, UnchangedRows DEF ReadBatch, DispatchIInv
<1>6. WorkersTyped'
  <2>1. ASSUME NEW n \in 0..MaxRetries, n < MaxRetries
        PROVE  n + 1 \in 0..MaxRetries
    BY <2>1, WorkerAssumption
  <2> QED BY <1>4, <2>1 DEF ReadBatch, DispatchIInv, WorkersTyped
<1>7. JobsHold'
  BY <1>3, <1>4 DEF DispatchIInv, JobsHold, Replans, ReadBatch
<1>8. ASSUME NEW s \in Shifts, Promised(s)
      PROVE  Promised(s)'
  <2>1. CASE s \in db.replans
    BY <1>3, <1>4, <2>1 DEF Promised
  <2>2. CASE s \in dropped
    BY <2>2 DEF Promised, ReadBatch
  <2>3. ASSUME NEW x \in Workers, s \in job[x].batch
        PROVE  Promised(s)'
    <3>1. x # w
      BY <2>3 DEF ReadBatch, DispatchIInv, JobsHold
    <3> QED BY <1>4, <2>3, <3>1 DEF Promised
  <2> QED BY <1>8, <2>1, <2>2, <2>3 DEF Promised
<1>9. LostStopIsQueued' /\ LateStopIsQueued'
  <2>1. \A s \in Shifts, p \in Packages :
          Lost(s, p) /\ Replanning(w, s, p) => Promised(s)' \/ Replanning(w, s, p)'
    BY <1>1, <1>8 DEF ReadBatch, Replanning, Promised, DispatchIInv, JobsHold
  <2>2. \A p \in Packages : Late(w, p)' => Promised(job[w].shift)'
    BY <1>3, <1>4 DEF Late
  <2> QED BY <1>4, <1>5, <1>8, <2>1, <2>2, PromisesOutlive DEF DispatchIInv
<1>10. TablesKnown(db)' /\ EditsKnow'
  BY <1>5, RowsStay DEF DispatchIInv
<1>11. CallsTyped'
  BY DEF ReadBatch, callVars, DispatchIInv, CallsTyped
<1> QED BY <1>6, <1>7, <1>9, <1>10, <1>11 DEF DispatchIInv

LEMMA EmptyBatchHolds ==
  ASSUME DispatchIInv, NEW w \in Workers, EmptyBatch(w), UNCHANGED edit
  PROVE  DispatchIInv'
<1>1. NoJob \in Jobs /\ NoJob.at = "idle" /\ NoJob.batch = {} /\ NoJob.shift = NoShift
      /\ NoJob.packages = {}
  BY DEF NoJob, Jobs
<1>2. job' \in [Workers -> Jobs] /\ job'[w] = NoJob /\ \A x \in Workers \ {w} : job'[x] = job[x]
  BY <1>1 DEF EmptyBatch, DispatchIInv, WorkersTyped
<1>3. SameRows
  BY UnchangedRows DEF EmptyBatch, vars, DispatchIInv, TablesKnown, Tables
<1>4. WorkersTyped'
  BY <1>2 DEF EmptyBatch, DispatchIInv, WorkersTyped
<1>5. JobsHold'
  BY <1>1, <1>2 DEF EmptyBatch, DispatchIInv, JobsHold, Replans
<1>6. \A s \in Shifts : Promised(s) => Promised(s)'
  BY <1>2 DEF EmptyBatch, vars, Promised
<1>7. LostStopIsQueued' /\ LateStopIsQueued'
  <2>1. \A s \in Shifts, p \in Packages : ~Replanning(w, s, p)
    BY DEF EmptyBatch, Replanning, DispatchIInv, JobsHold
  <2>2. \A p \in Packages : ~Late(w, p)'
    BY <1>1, <1>2 DEF Late
  <2> QED BY <1>2, <1>3, <1>6, <2>1, <2>2, PromisesOutlive DEF DispatchIInv
<1>8. TablesKnown(db)' /\ EditsKnow'
  BY <1>3, RowsStay DEF DispatchIInv
<1>9. CallsTyped'
  BY DEF EmptyBatch, vars, callVars, DispatchIInv, CallsTyped
<1> QED BY <1>4, <1>5, <1>7, <1>8, <1>9 DEF DispatchIInv

(* A message leaves the batch for the replan of its shift, whose packages  *)
(* have still to be read.                                                  *)
LEMMA TryLockHolds ==
  ASSUME DispatchIInv, NEW w \in Workers, NEW s \in Shifts, TryLock(w, s), UNCHANGED edit
  PROVE  DispatchIInv'
<1> DEFINE j == [job[w] EXCEPT !.at = "shift", !.shift = s, !.batch = @ \ {s}]
<1>1. job[w] \in Jobs /\ job[w].at = "batch" /\ job[w].shift = NoShift /\ job[w].packages = {}
  BY DEF TryLock, DispatchIInv, WorkersTyped, JobsHold, Replans
<1>2. job' = [job EXCEPT ![w] = j]
  BY <1>1 DEF TryLock, DispatchIInv, WorkersTyped, Jobs
<1>3. j \in Jobs /\ j.at = "shift" /\ j.batch = job[w].batch \ {s} /\ j.shift = s
      /\ j.packages = {}
  BY <1>1 DEF Jobs
<1> HIDE DEF j
<1>4. job' \in [Workers -> Jobs] /\ job'[w] = j /\ \A x \in Workers \ {w} : job'[x] = job[x]
  BY <1>2, <1>3 DEF DispatchIInv, WorkersTyped
<1>5. SameRows
  BY UnchangedRows DEF TryLock, vars, DispatchIInv, TablesKnown, Tables
<1>6. /\ held' \in [Shifts -> Workers \cup {Nobody}] /\ held'[s] = w
      /\ \A t \in Shifts \ {s} : held'[t] = held[t]
  BY DEF TryLock, DispatchIInv, WorkersTyped
<1>7. WorkersTyped'
  BY <1>4, <1>6 DEF TryLock, DispatchIInv, WorkersTyped
<1>8. JobsHold'
  <2>1. ASSUME NEW x \in Workers \ {w}, job[x].at \in Replans
        PROVE  job[x].shift \in Shifts /\ held'[job[x].shift] = x
    BY <1>6, <2>1, WorkerAssumption DEF TryLock, DispatchIInv, JobsHold
  <2>2. "shift" \in Replans /\ "shift" # "solve" /\ "shift" # "idle"
    BY DEF Replans
  <2> QED BY <1>3, <1>4, <1>6, <2>1, <2>2 DEF DispatchIInv, JobsHold
<1>9. ASSUME NEW t \in Shifts, Promised(t), t # s
      PROVE  Promised(t)'
  BY <1>3, <1>4, <1>9 DEF TryLock, vars, Promised
<1>10. ASSUME NEW x \in Workers, NEW p \in Packages, Late(x, p)'
       PROVE  Promised(job[x].shift)'
  <2>1. x # w /\ job'[x] = job[x] /\ Late(x, p)
    BY <1>3, <1>4, <1>5, <1>10 DEF Late, SameRows
  <2>2. job[x].shift \in Shifts /\ held[job[x].shift] = x /\ Promised(job[x].shift)
    BY <2>1 DEF DispatchIInv, JobsHold, Replans, LateStopIsQueued, Late
  <2>3. job[x].shift # s
    BY <2>1, <2>2, WorkerAssumption DEF TryLock
  <2>4. PICK t \in Shifts : t = job[x].shift
    BY <2>2
  <2>5. Promised(t)'
    BY <1>9, <2>2, <2>3, <2>4
  <2> QED BY <2>1, <2>4, <2>5 DEF Promised
<1>11. LostStopIsQueued' /\ LateStopIsQueued'
  <2>1. ASSUME NEW t \in Shifts, NEW p \in Packages, Lost(t, p)
        PROVE  Promised(t)' \/ \E x \in Workers : Replanning(x, t, p)'
    <3>1. CASE t = s
      BY <1>3, <1>4, <3>1 DEF Replanning
    <3>2. CASE t # s /\ Promised(t)
      BY <1>9, <3>2
    <3>3. ASSUME NEW x \in Workers, Replanning(x, t, p), t # s
          PROVE  Replanning(x, t, p)'
      BY <1>1, <1>3, <1>4, <3>3, NoShiftAssumption DEF Replanning
    <3>4. Promised(t) \/ \E x \in Workers : Replanning(x, t, p)
      BY <2>1 DEF Lost, DispatchIInv, LostStopIsQueued, Promised
    <3> QED BY <3>1, <3>2, <3>3, <3>4
  <2>2. ASSUME NEW t \in Shifts, NEW p \in Packages, Lost(t, p)
        PROVE  \/ t \in db'.replans \/ t \in dropped'
               \/ \E x \in Workers : Replanning(x, t, p)'
    BY <2>1, <2>2 DEF Promised, Replanning
  <2>3. LostStopIsQueued'
    BY <1>5, <2>2 DEF LostStopIsQueued, Lost, SameRows
  <2>4. LateStopIsQueued'
    BY <1>10 DEF LateStopIsQueued, Late
  <2> QED BY <2>3, <2>4
<1>12. TablesKnown(db)' /\ EditsKnow'
  BY <1>5, RowsStay DEF DispatchIInv
<1>13. CallsTyped'
  BY DEF TryLock, vars, callVars, DispatchIInv, CallsTyped
<1> QED BY <1>7, <1>8, <1>11, <1>12, <1>13 DEF DispatchIInv

(* A message that is skipped is given up.                                  *)
LEMMA SkipLockedHolds ==
  ASSUME DispatchIInv, NEW w \in Workers, NEW s \in Shifts, SkipLocked(w, s), UNCHANGED edit
  PROVE  DispatchIInv'
<1> DEFINE j == [job[w] EXCEPT !.batch = @ \ {s}]
<1>1. job[w] \in Jobs /\ job[w].at = "batch" /\ job[w].shift = NoShift /\ job[w].packages = {}
  BY DEF SkipLocked, DispatchIInv, WorkersTyped, JobsHold, Replans
<1>2. job' = [job EXCEPT ![w] = j]
  BY <1>1 DEF SkipLocked, DispatchIInv, WorkersTyped, Jobs
<1>3. j \in Jobs /\ j.at = "batch" /\ j.batch = job[w].batch \ {s} /\ j.shift = NoShift
      /\ j.packages = {}
  BY <1>1 DEF Jobs
<1> HIDE DEF j
<1>4. job' \in [Workers -> Jobs] /\ job'[w] = j /\ \A x \in Workers \ {w} : job'[x] = job[x]
  BY <1>2, <1>3 DEF DispatchIInv, WorkersTyped
<1>5. SameRows
  BY UnchangedRows DEF SkipLocked, vars, DispatchIInv, TablesKnown, Tables
<1>6. WorkersTyped'
  BY <1>4, WorkerAssumption DEF SkipLocked, DispatchIInv, WorkersTyped
<1>7. JobsHold'
  BY <1>3, <1>4 DEF SkipLocked, DispatchIInv, JobsHold, Replans
<1>8. ASSUME NEW t \in Shifts, Promised(t)
      PROVE  Promised(t)'
  BY <1>3, <1>4, <1>8 DEF SkipLocked, vars, Promised
<1>9. LostStopIsQueued' /\ LateStopIsQueued'
  <2>1. \A t \in Shifts, p \in Packages : Replanning(w, t, p) => Promised(t)
    BY <1>1, NoShiftAssumption DEF Replanning, Promised
  <2>2. \A p \in Packages : ~Late(w, p)'
    BY <1>3, <1>4 DEF Late
  <2> QED BY <1>4, <1>5, <1>8, <2>1, <2>2, PromisesOutlive DEF DispatchIInv
<1>10. TablesKnown(db)' /\ EditsKnow'
  BY <1>5, RowsStay DEF DispatchIInv
<1>11. CallsTyped'
  BY DEF SkipLocked, vars, callVars, DispatchIInv, CallsTyped
<1> QED BY <1>6, <1>7, <1>9, <1>10, <1>11 DEF DispatchIInv

(* The end of a replan, however it came: unless no stop was lost, the      *)
(* shift is queued again or given up.                                      *)
LEMMA EndHolds ==
  ASSUME DispatchIInv, NEW w \in Workers, job[w].at \in Replans,
         NextMessage(w), Unlock(w), SameRows, db.replans \subseteq db'.replans,
         attempts' \in [Shifts -> 0..MaxRetries],
         dropped \subseteq dropped', dropped' \subseteq Shifts,
         UNCHANGED edit, CallsTyped',
         \/ job[w].shift \in db'.replans \/ job[w].shift \in dropped'
         \/ \A p \in Packages : Lost(job[w].shift, p) /\ Replanning(w, job[w].shift, p) =>
              job[w].shift \in job[w].batch
  PROVE  DispatchIInv'
<1>1. WorkersTyped /\ JobsHold
  BY DEF DispatchIInv
<1>2. /\ job' \in [Workers -> Jobs] /\ held' \in [Shifts -> Workers \cup {Nobody}]
      /\ JobsHold'
      /\ job'[w].at = "batch" /\ job'[w].packages = {}
      /\ \A x \in Workers : job'[x].batch = job[x].batch
      /\ \A x \in Workers \ {w} : job'[x] = job[x]
  BY <1>1, ReplanEnds
<1>3. ASSUME NEW s \in Shifts, Promised(s)
      PROVE  Promised(s)'
  BY <1>2, <1>3 DEF Promised
<1>4. LostStopIsQueued' /\ LateStopIsQueued'
  <2>1. ASSUME NEW s \in Shifts, NEW p \in Packages, Lost(s, p), Replanning(w, s, p)
        PROVE  Promised(s)'
    <3>1. CASE s \in job[w].batch
      BY <1>3, <3>1 DEF Promised
    <3>2. CASE s = job[w].shift
      BY <2>1, <3>1, <3>2 DEF Promised
    <3> QED BY <2>1, <3>1, <3>2 DEF Replanning
  <2>2. \A p \in Packages : ~Late(w, p)'
    BY <1>2 DEF Late
  <2> QED BY <1>2, <1>3, <2>1, <2>2, PromisesOutlive DEF DispatchIInv
<1>5. TablesKnown(db)' /\ EditsKnow'
  BY RowsStay DEF DispatchIInv
<1> QED BY <1>2, <1>4, <1>5 DEF DispatchIInv, WorkersTyped

LEMMA ZeroAttempts ==
  ASSUME WorkersTyped, NEW s \in Shifts
  PROVE  [attempts EXCEPT ![s] = 0] \in [Shifts -> 0..MaxRetries]
BY WorkerAssumption DEF WorkersTyped

LEMMA LoadShiftHolds ==
  ASSUME DispatchIInv, NEW w \in Workers, LoadShift(w), UNCHANGED edit
  PROVE  DispatchIInv'
<1>1. /\ SameRows /\ CallsTyped' /\ db' = db
      /\ job[w].at \in Replans /\ job[w].shift \in Shifts /\ job[w].packages = {}
  BY UnchangedRows DEF LoadShift, vars, callVars, DispatchIInv, TablesKnown, Tables,
     CallsTyped, JobsHold, Replans
<1>2. CASE db.status[job[w].shift] = "planned"
  <2> DEFINE j == [job[w] EXCEPT !.at = "packages"]
  <2>1. job[w] \in Jobs
    BY DEF DispatchIInv, WorkersTyped
  <2>2. job' = [job EXCEPT ![w] = j]
    BY <1>2, <2>1 DEF LoadShift, DispatchIInv, WorkersTyped, Jobs
  <2>3. j \in Jobs /\ j.at = "packages" /\ j.batch = job[w].batch /\ j.shift = job[w].shift
        /\ j.packages = {} /\ j.at \in Replans
    BY <1>1, <2>1 DEF Jobs, Replans
  <2> HIDE DEF j
  <2>4. UNCHANGED held /\ WorkersTyped /\ JobsHold
    BY <1>2 DEF LoadShift, DispatchIInv
  <2>5. /\ job' \in [Workers -> Jobs] /\ held' \in [Shifts -> Workers \cup {Nobody}]
        /\ JobsHold'
        /\ job'[w] = j
        /\ \A x \in Workers \ {w} : job'[x] = job[x]
    BY <1>1, <2>2, <2>3, <2>4, ReplanGoesOn
  <2>6. \A s \in Shifts : Promised(s) => Promised(s)'
    BY <1>1, <2>3, <2>5 DEF LoadShift, Promised
  <2>7. LostStopIsQueued' /\ LateStopIsQueued'
    <3>1. \A s \in Shifts, p \in Packages : Replanning(w, s, p) => Replanning(w, s, p)'
      BY <2>3, <2>5, <1>1 DEF Replanning
    <3>2. \A p \in Packages : ~Late(w, p)'
      BY <2>3, <2>5 DEF Late
    <3> QED BY <1>1, <2>5, <2>6, <3>1, <3>2, PromisesOutlive DEF DispatchIInv
  <2>8. TablesKnown(db)' /\ EditsKnow'
    BY <1>1, RowsStay DEF DispatchIInv
  <2> QED BY <1>1, <1>2, <2>5, <2>7, <2>8 DEF LoadShift, DispatchIInv, WorkersTyped
<1>3. CASE db.status[job[w].shift] # "planned"
  <2>1. Archive(w) /\ UNCHANGED dropped
    BY <1>3 DEF LoadShift
  <2>2. attempts' \in [Shifts -> 0..MaxRetries] /\ dropped \subseteq Shifts
    BY <1>1, <2>1, ZeroAttempts DEF Archive, DispatchIInv, WorkersTyped
  <2>3. \A p \in Packages : ~Lost(job[w].shift, p)
    BY <1>3 DEF Lost
  <2> QED BY <1>1, <2>1, <2>2, <2>3, EndHolds DEF Archive
<1> QED BY <1>2, <1>3

LEMMA RefuseReplanHolds ==
  ASSUME DispatchIInv, NEW w \in Workers, RefuseReplan(w), UNCHANGED edit
  PROVE  DispatchIInv'
<1>1. /\ SameRows /\ CallsTyped' /\ db' = db
      /\ job[w].at \in Replans /\ job[w].shift \in Shifts
  BY UnchangedRows DEF RefuseReplan, vars, callVars, DispatchIInv, TablesKnown, Tables,
     CallsTyped, JobsHold, Replans
<1>2. attempts' \in [Shifts -> 0..MaxRetries] /\ dropped \subseteq Shifts
  BY <1>1, ZeroAttempts DEF RefuseReplan, Archive, DispatchIInv, WorkersTyped
<1>3. dropped \subseteq dropped' /\ dropped' \subseteq Shifts /\ job[w].shift \in dropped'
  BY <1>1, <1>2 DEF RefuseReplan
<1> QED BY <1>1, <1>2, <1>3, EndHolds DEF RefuseReplan, Archive

LEMMA FailReplanHolds ==
  ASSUME DispatchIInv, NEW w \in Workers, FailReplan(w), UNCHANGED edit
  PROVE  DispatchIInv'
<1> DEFINE s == job[w].shift
<1>1. /\ CallsTyped' /\ job[w].at \in Replans /\ s \in Shifts
      /\ TablesKnown(db) /\ db \in Tables /\ db.replans \in SUBSET Shifts
      /\ NextMessage(w) /\ Unlock(w)
  BY DEF FailReplan, callVars, DispatchIInv, TablesKnown, Tables, CallsTyped, JobsHold, Replans
<1>2. dropped \subseteq Shifts /\ attempts \in [Shifts -> 0..MaxRetries]
  BY DEF DispatchIInv, WorkersTyped
<1>3. CASE attempts[s] < MaxRetries
  <2>1. db' = [db EXCEPT !.replans = db.replans \cup {s}] /\ UNCHANGED <<attempts, dropped>>
    BY <1>3 DEF FailReplan, EnqueueReplan
  <2>2. SameRows /\ db'.replans = db.replans \cup {s}
    <3>1. db.replans \cup {s} \in SUBSET Shifts
      BY <1>1
    <3> QED BY <1>1, <2>1, <3>1, UnchangedRows DEF Tables
  <2> QED BY <1>1, <1>2, <2>1, <2>2, EndHolds
<1>4. CASE ~(attempts[s] < MaxRetries)
  <2>1. /\ attempts' = [attempts EXCEPT ![s] = 0]
        /\ dropped' = dropped \cup {s}
        /\ UNCHANGED db
    BY <1>4 DEF FailReplan
  <2>2. SameRows
    BY <1>1, <2>1, UnchangedRows DEF Tables
  <2>3. attempts' \in [Shifts -> 0..MaxRetries]
    BY <1>1, <2>1, ZeroAttempts DEF DispatchIInv
  <2> QED BY <1>1, <1>2, <2>1, <2>2, <2>3, EndHolds
<1> QED BY <1>3, <1>4

LEMMA FinishReplanHolds ==
  ASSUME DispatchIInv, NEW w \in Workers, FinishReplan(w), UNCHANGED edit
  PROVE  DispatchIInv'
<1>1. /\ SameRows /\ db' = db
      /\ job[w].at \in Replans /\ job[w].shift \in Shifts
      /\ job[w].at = "assign" /\ job[w].packages = {}
  BY UnchangedRows DEF FinishReplan, DispatchIInv, TablesKnown, Tables, JobsHold, Replans
<1>2. CallsTyped'
  BY WorkerAssumption DEF FinishReplan, DispatchIInv, CallsTyped, Where
<1>3. /\ attempts' \in [Shifts -> 0..MaxRetries] /\ dropped' = dropped /\ dropped \subseteq Shifts
      /\ NextMessage(w) /\ Unlock(w)
  BY <1>1, ZeroAttempts DEF FinishReplan, Archive, DispatchIInv, WorkersTyped
<1>4. \A p \in Packages : Lost(job[w].shift, p) /\ Replanning(w, job[w].shift, p) =>
         job[w].shift \in job[w].batch
  BY <1>1 DEF Replanning
<1> QED BY <1>1, <1>2, <1>3, <1>4, EndHolds

(* Reading the packages settles what was lost before: every claim of the   *)
(* shift is in the replan, whatever was given up or queued before.         *)
LEMMA LoadShiftPackagesHolds ==
  ASSUME DispatchIInv, NEW w \in Workers, LoadShiftPackages(w), UNCHANGED edit
  PROVE  DispatchIInv'
<1> DEFINE s == job[w].shift
           claimed == {p \in Packages : db.optimisation[p] = s}
<1>1. /\ SameRows /\ CallsTyped' /\ db' = db
      /\ job[w].at \in Replans /\ s \in Shifts /\ held[s] = w
      /\ WorkersTyped /\ JobsHold /\ job[w] \in Jobs
      /\ dropped' = dropped \ {s}
  BY UnchangedRows DEF LoadShiftPackages, vars, callVars, DispatchIInv, TablesKnown, Tables,
     CallsTyped, WorkersTyped, JobsHold, Replans
<1>2. /\ job' \in [Workers -> Jobs] /\ held' \in [Shifts -> Workers \cup {Nobody}]
      /\ attempts' \in [Shifts -> 0..MaxRetries]
      /\ JobsHold'
      /\ \A x \in Workers : job'[x].batch = job[x].batch
      /\ \A x \in Workers \ {w} : job'[x] = job[x]
      /\ \A p \in claimed : /\ job'[w].at = "solve" /\ job'[w].shift = s
                            /\ p \in job'[w].packages
      /\ claimed = {} => job'[w].at = "batch"
  <2>1. CASE claimed # {}
    <3> DEFINE j == [job[w] EXCEPT !.at = "solve", !.packages = claimed]
    <3>1. job' = [job EXCEPT ![w] = j] /\ UNCHANGED <<held, attempts>>
      BY <1>1, <2>1 DEF LoadShiftPackages, WorkersTyped, Jobs
    <3>2. j \in Jobs /\ j.at = "solve" /\ j.batch = job[w].batch /\ j.shift = s
          /\ j.packages = claimed /\ j.at \in Replans
      BY <1>1 DEF Jobs, Replans
    <3> HIDE DEF j
    <3>3. /\ job' \in [Workers -> Jobs] /\ held' \in [Shifts -> Workers \cup {Nobody}]
          /\ JobsHold'
          /\ job'[w] = j
          /\ \A x \in Workers \ {w} : job'[x] = job[x]
      BY <1>1, <3>1, <3>2, ReplanGoesOn
    <3> QED BY <1>1, <2>1, <3>1, <3>2, <3>3 DEF WorkersTyped
  <2>2. CASE claimed = {}
    <3>1. Archive(w)
      BY <2>2 DEF LoadShiftPackages
    <3>2. /\ job' \in [Workers -> Jobs] /\ held' \in [Shifts -> Workers \cup {Nobody}]
          /\ JobsHold'
          /\ job'[w].at = "batch" /\ job'[w].packages = {}
          /\ \A x \in Workers : job'[x].batch = job[x].batch
          /\ \A x \in Workers \ {w} : job'[x] = job[x]
      BY <1>1, <3>1, ReplanEnds DEF Archive
    <3>3. attempts' \in [Shifts -> 0..MaxRetries]
      BY <1>1, <3>1, ZeroAttempts DEF Archive
    <3> QED BY <2>2, <3>2, <3>3
  <2> QED BY <2>1, <2>2
<1>3. ASSUME NEW t \in Shifts \ {s}, Promised(t)
      PROVE  Promised(t)'
  BY <1>1, <1>2, <1>3 DEF Promised
<1>4. ASSUME NEW t \in Shifts, NEW p \in Packages, Lost(t, p)'
      PROVE  Promised(t)' \/ \E x \in Workers : Replanning(x, t, p)'
  <2>1. Lost(t, p)
    BY <1>1, <1>4 DEF Lost
  <2>2. CASE t = s
    BY <1>2, <2>1, <2>2 DEF Replanning, Lost
  <2>3. CASE t # s
    <3>1. Promised(t) => Promised(t)'
      BY <1>3, <2>3
    <3>2. ASSUME NEW x \in Workers, Replanning(x, t, p)
          PROVE  Promised(t)' \/ Replanning(x, t, p)'
      BY <1>2, <2>3, <3>2 DEF Replanning, Promised
    <3>3. Promised(t) \/ \E x \in Workers : Replanning(x, t, p)
      BY <2>1 DEF Lost, DispatchIInv, LostStopIsQueued, Promised
    <3> QED BY <3>1, <3>2, <3>3
  <2> QED BY <2>2, <2>3
<1>5. ASSUME NEW x \in Workers, NEW p \in Packages, Late(x, p)'
      PROVE  Promised(job[x].shift)'
  <2>1. x # w
    BY <1>1, <1>2, <1>5 DEF Late
  <2>2. job'[x] = job[x] /\ Late(x, p)
    BY <1>1, <1>2, <1>5, <2>1 DEF Late
  <2>3. job[x].shift \in Shifts /\ held[job[x].shift] = x /\ Promised(job[x].shift)
    BY <1>1, <2>2 DEF JobsHold, Replans, DispatchIInv, LateStopIsQueued, Late
  <2>4. PICK t \in Shifts \ {s} : t = job[x].shift
    BY <1>1, <2>1, <2>3
  <2>5. Promised(t)'
    BY <1>3, <2>3, <2>4
  <2> QED BY <2>2, <2>4, <2>5 DEF Promised
<1>6. LostStopIsQueued'
  <2>1. ASSUME NEW t \in Shifts, NEW p \in Packages, Lost(t, p)'
        PROVE  \/ t \in db'.replans \/ t \in dropped'
               \/ \E x \in Workers : Replanning(x, t, p)'
    BY <1>4, <2>1 DEF Promised, Replanning
  <2> QED BY <2>1 DEF LostStopIsQueued, Lost
<1>7. LateStopIsQueued'
  BY <1>5 DEF LateStopIsQueued, Late
<1>8. TablesKnown(db)' /\ EditsKnow'
  BY <1>1, RowsStay DEF DispatchIInv
<1>9. WorkersTyped'
  BY <1>1, <1>2 DEF WorkersTyped
<1> QED BY <1>1, <1>2, <1>6, <1>7, <1>8, <1>9 DEF DispatchIInv

LEMMA AssignLeftOutHolds ==
  ASSUME DispatchIInv, NEW w \in Workers, AssignLeftOut(w), UNCHANGED edit
  PROVE  DispatchIInv'
<1>1. PICK p \in job[w].left : /\ pkg' = [pkg EXCEPT ![w] = p]
                               /\ job' = [job EXCEPT ![w].left = @ \ {p}]
  BY DEF AssignLeftOut
<1> DEFINE j == [job[w] EXCEPT !.left = @ \ {p}]
<1>2. /\ SameRows /\ db' = db
      /\ WorkersTyped /\ JobsHold /\ job[w] \in Jobs /\ job[w].at \in Replans
      /\ UNCHANGED <<held, attempts, dropped>>
  BY UnchangedRows DEF AssignLeftOut, DispatchIInv, TablesKnown, Tables, WorkersTyped, Replans
<1>3. job' = [job EXCEPT ![w] = j]
  BY <1>1, <1>2 DEF WorkersTyped, Jobs
<1>4. /\ j \in Jobs /\ j.at = "assign" /\ j.batch = job[w].batch /\ j.shift = job[w].shift
      /\ j.packages = job[w].packages /\ j.packages = {} /\ j.at \in Replans
  BY <1>2 DEF Jobs, AssignLeftOut, JobsHold, Replans
<1> HIDE DEF j
<1>5. /\ job' \in [Workers -> Jobs] /\ held' \in [Shifts -> Workers \cup {Nobody}]
      /\ JobsHold'
      /\ job'[w] = j
      /\ \A x \in Workers \ {w} : job'[x] = job[x]
  BY <1>2, <1>3, <1>4, ReplanGoesOn
<1>6. \A s \in Shifts : Promised(s) => Promised(s)'
  BY <1>2, <1>4, <1>5 DEF Promised
<1>7. LostStopIsQueued' /\ LateStopIsQueued'
  <2>1. \A s \in Shifts, q \in Packages : Replanning(w, s, q) => Replanning(w, s, q)'
    BY <1>4, <1>5, <1>2 DEF Replanning, AssignLeftOut
  <2>2. \A q \in Packages : ~Late(w, q)'
    BY <1>4, <1>5 DEF Late
  <2> QED BY <1>2, <1>5, <1>6, <2>1, <2>2, PromisesOutlive DEF DispatchIInv
<1>8. TablesKnown(db)' /\ EditsKnow'
  BY <1>2, RowsStay DEF DispatchIInv
<1>9. CallsTyped'
  <2>1. p \in Packages /\ w \in Calls
    BY <1>1, <1>2, WorkerAssumption DEF Jobs
  <2>2. pkg' \in [Calls -> Packages] /\ pc' \in [Calls -> Where] /\ evicts' \in [Calls -> BOOLEAN]
    BY <1>1, <2>1 DEF AssignLeftOut, DispatchIInv, CallsTyped, Where
  <2> QED BY <2>2 DEF AssignLeftOut, DispatchIInv, CallsTyped
<1>10. WorkersTyped'
  BY <1>2, <1>5 DEF WorkersTyped
<1> QED BY <1>5, <1>7, <1>8, <1>9, <1>10 DEF DispatchIInv

LEMMA CrashWorkerHolds ==
  ASSUME DispatchIInv, NEW w \in Workers, CrashWorker(w), UNCHANGED edit
  PROVE  DispatchIInv'
<1> DEFINE ids == db.replans \cup job[w].batch \cup ({job[w].shift} \ {NoShift})
<1>1. /\ TablesKnown(db) /\ db \in Tables /\ db.replans \in SUBSET Shifts
      /\ WorkersTyped /\ JobsHold /\ job[w] \in Jobs
      /\ UNCHANGED <<attempts, dropped>>
  BY DEF CrashWorker, DispatchIInv, TablesKnown, Tables, WorkersTyped
<1>2. ids \in SUBSET Shifts
  BY <1>1 DEF Jobs
<1>3. db' = [db EXCEPT !.replans = ids]
  BY <1>1 DEF CrashWorker, Tables
<1>4. SameRows /\ db'.replans = ids
  BY <1>1, <1>2, <1>3, UnchangedRows DEF Tables
<1>5. NoJob \in Jobs /\ NoJob.at = "idle" /\ NoJob.batch = {} /\ NoJob.shift = NoShift
      /\ NoJob.packages = {}
  BY DEF NoJob, Jobs
<1>6. job' \in [Workers -> Jobs] /\ job'[w] = NoJob /\ \A x \in Workers \ {w} : job'[x] = job[x]
  BY <1>1, <1>5 DEF CrashWorker, WorkersTyped
<1>7. /\ held' \in [Shifts -> Workers \cup {Nobody}]
      /\ \A s \in Shifts, x \in Workers \ {w} : held[s] = x => held'[s] = x
  BY <1>1 DEF CrashWorker, WorkersTyped
<1>8. JobsHold'
  <2>1. ASSUME NEW x \in Workers \ {w}, job[x].at \in Replans
        PROVE  job[x].shift \in Shifts /\ held'[job[x].shift] = x
    BY <1>1, <1>7, <2>1 DEF JobsHold
  <2>2. "idle" \notin Replans
    BY DEF Replans
  <2> QED BY <1>1, <1>5, <1>6, <2>1, <2>2 DEF JobsHold
<1>9. WorkersTyped'
  BY <1>1, <1>6, <1>7 DEF WorkersTyped
<1>10. ASSUME NEW s \in Shifts, Promised(s)
       PROVE  Promised(s)'
  BY <1>1, <1>4, <1>6, <1>10 DEF Promised
<1>11. LostStopIsQueued' /\ LateStopIsQueued'
  <2>1. ASSUME NEW s \in Shifts, NEW p \in Packages, Replanning(w, s, p)
        PROVE  Promised(s)'
    BY <1>4, <2>1, NoShiftAssumption DEF Replanning, Promised
  <2>2. \A p \in Packages : ~Late(w, p)'
    BY <1>5, <1>6 DEF Late
  <2> QED BY <1>4, <1>6, <1>10, <2>1, <2>2, PromisesOutlive DEF DispatchIInv
<1>12. TablesKnown(db)' /\ EditsKnow'
  BY <1>4, RowsStay DEF DispatchIInv
<1>13. CallsTyped'
  BY NothingTyped, NoTries, WorkerAssumption DEF CrashWorker, DispatchIInv, CallsTyped, Where
<1> QED BY <1>8, <1>9, <1>11, <1>12, <1>13 DEF DispatchIInv

LEMMA CloseIdleHolds ==
  ASSUME DispatchIInv, NEW s \in Shifts, CloseIdle(s), UNCHANGED edit
  PROVE  DispatchIInv'
<1>1. /\ SameRows /\ CallsTyped' /\ db' = db
      /\ WorkersTyped' /\ job' = job /\ dropped' = dropped
  BY UnchangedRows DEF CloseIdle, vars, callVars, DispatchIInv, TablesKnown, Tables,
     CallsTyped, WorkersTyped
<1>2. JobsHold'
  BY <1>1 DEF CloseIdle, DispatchIInv, WorkersTyped, JobsHold
<1>3. LostStopIsQueued' /\ LateStopIsQueued'
  BY <1>1 DEF DispatchIInv, LostStopIsQueued, LateStopIsQueued, Promised, Replanning
<1>4. TablesKnown(db)' /\ EditsKnow'
  BY <1>1, RowsStay DEF DispatchIInv
<1> QED BY <1>1, <1>2, <1>3, <1>4 DEF DispatchIInv

(* The rewrite: what the solver left out loses its claim, the other claims *)
(* on the shift that are not among its stops are late ones.                *)
LEMMA ReplannedColumns ==
  ASSUME NEW d, TablesKnown(d), NEW s \in Shifts, NEW stops \in SUBSET Packages,
         NEW unassigned \in SUBSET Packages
  PROVE  LET e == Replanned(d, s, stops, unassigned)
         IN  /\ TablesKnown(e)
             /\ e.status = d.status
             /\ e.route = [t \in Shifts |-> IF t = s THEN stops ELSE d.route[t] \ unassigned]
             /\ e.optimisation =
                  [p \in Packages |-> IF p \in unassigned THEN NoShift ELSE d.optimisation[p]]
             /\ e.replans = d.replans
<1> DEFINE h == SnapshotRevision(d, s)
           cut == Detach(h, unassigned, 0)
           w == [cut EXCEPT !.route[s] = stops]
           e == WritePlan(cut, s, stops)
<1>1. /\ h \in Tables /\ h.revision = d.revision /\ h.status = d.status
      /\ h.route = d.route /\ h.optimisation = d.optimisation
      /\ h.evictionCount = d.evictionCount /\ h.timeline = d.timeline
  BY SnapshotColumns DEF TablesKnown
<1>2. h.replans = d.replans
  BY DEF SnapshotRevision, TablesKnown, Tables
<1>3. TablesKnown(h)
  BY <1>1 DEF TablesKnown, Unclaimed, TellsClaim
<1> HIDE DEF h
<1>4. 0 \in Nat
  OBVIOUS
<1>5. /\ cut \in Tables
      /\ cut.revision = h.revision
      /\ cut.status = h.status
      /\ cut.route = [t \in Shifts |-> h.route[t] \ unassigned]
      /\ cut.optimisation =
           [p \in Packages |-> IF p \in unassigned THEN NoShift ELSE h.optimisation[p]]
      /\ cut.evictionCount = [p \in Packages |-> IF p \in unassigned THEN h.evictionCount[p] + 0
                                                 ELSE h.evictionCount[p]]
      /\ cut.timeline = [p \in Packages |-> IF p \in unassigned THEN "PENDING" ELSE h.timeline[p]]
  BY <1>1, <1>4, DetachColumns
<1>6. cut.replans = h.replans
  BY <1>1 DEF Detach, Tables
<1>7. TablesKnown(cut) /\ cut \in Tables
  BY <1>3, <1>4, DetachQueues DEF Queues, TablesKnown
<1> HIDE DEF cut
<1>8. /\ e \in Tables
      /\ e.revision = [cut.revision EXCEPT ![s] = @ + 1]
      /\ e.status = cut.status
      /\ e.route = [cut.route EXCEPT ![s] = stops]
      /\ e.optimisation = cut.optimisation
      /\ e.evictionCount = cut.evictionCount
      /\ e.timeline = cut.timeline
  BY <1>7, WritePlanColumns
<1>9. e.replans = cut.replans
  <2>1. w \in Tables /\ w.replans = cut.replans
    BY <1>5 DEF Tables
  <2> HIDE DEF w
  <2>2. e = Touch(w, s)
    BY DEF WritePlan, w
  <2> QED BY <2>1, <2>2, TouchQueue
<1> HIDE DEF e
<1>10. TablesKnown(e)
  BY <1>7, <1>8 DEF TablesKnown, Unclaimed, TellsClaim
<1>11. e.route = [t \in Shifts |-> IF t = s THEN stops ELSE d.route[t] \ unassigned]
  <2>1. cut.route = [t \in Shifts |-> d.route[t] \ unassigned]
    BY <1>1, <1>5
  <2>2. e.route = [cut.route EXCEPT ![s] = stops]
    BY <1>8
  <2> QED BY <2>1, <2>2
<1>12. e.status = d.status /\ e.replans = d.replans
  BY <1>1, <1>2, <1>5, <1>6, <1>8, <1>9
<1>13. e.optimisation =
         [p \in Packages |-> IF p \in unassigned THEN NoShift ELSE d.optimisation[p]]
  BY <1>1, <1>5, <1>8
<1> QED BY <1>10, <1>11, <1>12, <1>13 DEF e, cut, h, Replanned

LEMMA WriteReplanHolds ==
  ASSUME DispatchIInv, NEW w \in Workers, WriteReplan(w), UNCHANGED edit
  PROVE  DispatchIInv'
<1> DEFINE s == job[w].shift
<1>1. PICK stops \in Solutions(s, job[w].packages) :
        LET unassigned == job[w].packages \ stops IN
        /\ db' = Replanned(db, s, stops, unassigned)
        /\ job' = [job EXCEPT ![w].at = "assign", ![w].packages = {}, ![w].left = unassigned]
  BY DEF WriteReplan
<1> DEFINE unassigned == job[w].packages \ stops
           j == [job[w] EXCEPT !.at = "assign", !.packages = {}, !.left = unassigned]
<1>2. /\ TablesKnown(db) /\ WorkersTyped /\ JobsHold /\ job[w] \in Jobs
      /\ job[w].at = "solve" /\ s \in Shifts /\ job[w].at \in Replans
      /\ UNCHANGED <<held, attempts, dropped>>
  BY DEF WriteReplan, DispatchIInv, WorkersTyped, JobsHold, Replans
<1>3. stops \in SUBSET Packages /\ unassigned \in SUBSET Packages
  BY <1>2 DEF Solutions, Jobs
<1>4. job' = [job EXCEPT ![w] = j]
  BY <1>1, <1>2 DEF WorkersTyped, Jobs
<1>5. /\ j \in Jobs /\ j.at = "assign" /\ j.batch = job[w].batch /\ j.shift = s
      /\ j.packages = {} /\ j.at \in Replans
  BY <1>2, <1>3 DEF Jobs, Replans
<1> HIDE DEF j
<1>6. /\ job' \in [Workers -> Jobs] /\ held' \in [Shifts -> Workers \cup {Nobody}]
      /\ JobsHold'
      /\ job'[w] = j
      /\ \A x \in Workers \ {w} : job'[x] = job[x]
  BY <1>2, <1>4, <1>5, ReplanGoesOn
<1>7. /\ TablesKnown(db')
      /\ db'.status = db.status
      /\ db'.route = [t \in Shifts |-> IF t = s THEN stops ELSE db.route[t] \ unassigned]
      /\ db'.optimisation =
           [p \in Packages |-> IF p \in unassigned THEN NoShift ELSE db.optimisation[p]]
      /\ db'.replans = db.replans
  <2> DEFINE e == Replanned(db, s, stops, unassigned)
  <2>1. /\ TablesKnown(e)
        /\ e.status = db.status
        /\ e.route = [t \in Shifts |-> IF t = s THEN stops ELSE db.route[t] \ unassigned]
        /\ e.optimisation =
             [p \in Packages |-> IF p \in unassigned THEN NoShift ELSE db.optimisation[p]]
        /\ e.replans = db.replans
    BY <1>2, <1>3, ReplannedColumns
  <2>2. db' = e
    BY <1>1
  <2> HIDE DEF e
  <2> QED BY <2>1, <2>2
<1>8. ASSUME NEW t \in Shifts, Promised(t)
      PROVE  Promised(t)'
  BY <1>2, <1>5, <1>6, <1>7, <1>8 DEF Promised
<1>9. ASSUME NEW t \in Shifts, NEW p \in Packages, Lost(t, p)'
      PROVE  Promised(t)' \/ \E x \in Workers : Replanning(x, t, p)'
  <2>1. p \notin unassigned /\ db.optimisation[p] = t /\ db.status[t] = "planned"
    BY <1>7, <1>9, NoShiftAssumption DEF Lost
  <2>2. CASE t = s
    <3>1. Late(w, p)
      BY <1>2, <1>7, <1>9, <2>1, <2>2 DEF Late, Lost
    <3>2. Promised(t)
      BY <2>2, <3>1 DEF DispatchIInv, LateStopIsQueued, Late
    <3> QED BY <1>8, <3>2
  <2>3. CASE t # s
    <3>1. Lost(t, p)
      BY <1>7, <1>9, <2>1, <2>3 DEF Lost
    <3>2. Promised(t) \/ \E x \in Workers : Replanning(x, t, p)
      BY <3>1 DEF Lost, DispatchIInv, LostStopIsQueued, Promised
    <3>3. ASSUME NEW x \in Workers, Replanning(x, t, p)
          PROVE  Promised(t)' \/ Replanning(x, t, p)'
      <4>1. CASE x = w
        BY <1>8, <2>3, <3>3, <4>1 DEF Replanning, Promised
      <4>2. CASE x # w
        BY <1>6, <3>3, <4>2 DEF Replanning
      <4> QED BY <4>1, <4>2
    <3>4. Promised(t) => Promised(t)'
      BY <1>8
    <3> QED BY <3>2, <3>3, <3>4
  <2> QED BY <2>2, <2>3
<1>10. ASSUME NEW x \in Workers, NEW p \in Packages, Late(x, p)'
       PROVE  Promised(job[x].shift)'
  <2>1. x # w
    BY <1>5, <1>6, <1>10 DEF Late
  <2>2. job'[x] = job[x] /\ job[x].at = "solve" /\ job[x].shift \in Shifts
    BY <1>2, <1>6, <1>10, <2>1 DEF Late, JobsHold, Replans
  <2>3. Late(x, p)
    BY <1>7, <1>10, <2>2, NoShiftAssumption DEF Late
  <2>4. PICK t \in Shifts : t = job[x].shift /\ Promised(t)
    BY <2>2, <2>3 DEF DispatchIInv, LateStopIsQueued, Late
  <2>5. Promised(t)'
    BY <1>8, <2>4
  <2> QED BY <2>2, <2>4, <2>5 DEF Promised
<1>11. LostStopIsQueued'
  <2>1. ASSUME NEW t \in Shifts, NEW p \in Packages, Lost(t, p)'
        PROVE  \/ t \in db'.replans \/ t \in dropped'
               \/ \E x \in Workers : Replanning(x, t, p)'
    BY <1>9, <2>1 DEF Promised, Replanning
  <2> QED BY <2>1 DEF LostStopIsQueued, Lost
<1>12. LateStopIsQueued'
  BY <1>10 DEF LateStopIsQueued, Late
<1>13. EditsKnow' /\ CallsTyped' /\ WorkersTyped'
  BY <1>2, <1>6, <1>7 DEF WriteReplan, callVars, DispatchIInv, EditsKnow, CallsTyped, WorkersTyped
<1> QED BY <1>6, <1>7, <1>11, <1>12, <1>13 DEF DispatchIInv

-----------------------------------------------------------------------------
(* Everybody else leaves the workers alone, and queues what he disturbs.   *)

LEMMA QueuedHolds ==
  ASSUME DispatchIInv, Queues(db, db'), UNCHANGED workerVars,
         CallsTyped', edit' \in [Editors -> Edits],
         \A e \in Editors : edit'[e].at \in {"stops", "package", "write"} =>
           edit'[e].shift \in Shifts /\ db.status[edit'[e].shift] # "none"
  PROVE  DispatchIInv'
<1>1. /\ TablesKnown(db) /\ TablesKnown(db')
      /\ job' = job /\ held' = held /\ attempts' = attempts /\ dropped' = dropped
  BY DEF DispatchIInv, Queues, workerVars
<1>2. WorkersTyped' /\ JobsHold'
  BY <1>1 DEF DispatchIInv, WorkersTyped, JobsHold
<1>3. EditsKnow'
  BY DEF Queues, EditsKnow
<1>4. ASSUME NEW s \in Shifts, Promised(s)
      PROVE  Promised(s)'
  BY <1>1, <1>4 DEF Promised, Queues
<1>5. ASSUME NEW s \in Shifts, NEW p \in Packages, Lost(s, p)', ~Promised(s)'
      PROVE  \E x \in Workers : Replanning(x, s, p)'
  <2>1. s \notin db'.replans
    BY <1>5 DEF Promised
  <2>2. db.optimisation[p] = s /\ p \notin db.route[s]
    BY <1>5, <2>1 DEF Lost, Queues
  <2>3. db.status[s] = "planned"
    BY <1>1, <1>5, <2>2 DEF Lost, Queues, TablesKnown, Unclaimed
  <2>4. ~Promised(s)
    BY <1>4, <1>5
  <2>5. \E x \in Workers : Replanning(x, s, p)
    BY <2>2, <2>3, <2>4 DEF DispatchIInv, LostStopIsQueued, Promised
  <2> QED BY <1>1, <2>5 DEF Replanning
<1>6. ASSUME NEW x \in Workers, NEW p \in Packages, Late(x, p)'
      PROVE  Promised(job[x].shift)'
  <2>1. PICK s \in Shifts : s = job[x].shift
    BY <1>1, <1>6 DEF Late, DispatchIInv, JobsHold, Replans
  <2>2. CASE s \in db'.replans
    BY <1>1, <2>1, <2>2 DEF Promised
  <2>3. CASE s \notin db'.replans
    <3>1. Late(x, p)
      BY <1>1, <1>6, <2>1, <2>3 DEF Late, Queues
    <3>2. Promised(s)
      BY <2>1, <3>1 DEF DispatchIInv, LateStopIsQueued, Late
    <3>3. Promised(s)'
      BY <1>4, <3>2
    <3> QED BY <1>1, <2>1, <3>3 DEF Promised
  <2> QED BY <2>2, <2>3
<1>7. LostStopIsQueued'
  <2>1. ASSUME NEW s \in Shifts, NEW p \in Packages, Lost(s, p)'
        PROVE  \/ s \in db'.replans \/ s \in dropped'
               \/ \E x \in Workers : Replanning(x, s, p)'
    BY <1>5, <2>1 DEF Promised, Replanning
  <2> QED BY <2>1 DEF LostStopIsQueued, Lost
<1>8. LateStopIsQueued'
  BY <1>6 DEF LateStopIsQueued, Late
<1> QED BY <1>1, <1>2, <1>3, <1>7, <1>8 DEF DispatchIInv

LEMMA PeopleHold ==
  ASSUME DispatchIInv, People, UNCHANGED <<workerVars, edit>>
  PROVE  DispatchIInv'
<1>1. Queues(db, db')
  BY PeopleQueue DEF People, DispatchIInv
<1>2. CallsTyped'
  BY DEF People, callVars, DispatchIInv, CallsTyped
<1> QED BY <1>1, <1>2, QueuedHolds DEF DispatchIInv, EditsKnow

LEMMA CallsHold ==
  ASSUME DispatchIInv, NEW c \in Calls, Begin(c) \/ Work(c) \/ Crash(c),
         UNCHANGED <<workerVars, edit>>
  PROVE  DispatchIInv'
<1>1. Queues(db, db')
  BY CallsQueue DEF DispatchIInv
<1>2. CallsTyped'
  BY WorkTyped DEF DispatchIInv, TablesKnown
<1> QED BY <1>1, <1>2, QueuedHolds DEF DispatchIInv, EditsKnow

LEMMA NoEditTyped ==
  /\ NoEdit \in Edits /\ NoEdit.at = "idle"
  /\ [NoEdit EXCEPT !.at = "done"] \in Edits /\ [NoEdit EXCEPT !.at = "done"].at = "done"
<1>1. (CHOOSE p \in Packages : TRUE) \in Packages
  BY WorkerAssumption
<1> QED BY <1>1 DEF NoEdit, Edits

(* One edit moves on.                                                      *)
LEMMA EditHolds ==
  ASSUME DispatchIInv, NEW e \in Editors, NEW x \in Edits, edit' = [edit EXCEPT ![e] = x],
         x.at \in {"stops", "package", "write"} =>
           x.shift \in Shifts /\ db.status[x.shift] # "none",
         Queues(db, db'), UNCHANGED <<callVars, workerVars>>
  PROVE  DispatchIInv'
<1>1. CallsTyped'
  BY DEF callVars, DispatchIInv, CallsTyped
<1>2. edit \in [Editors -> Edits]
  BY DEF DispatchIInv, EditsKnow
<1>3. /\ edit' \in [Editors -> Edits] /\ edit'[e] = x
      /\ \A k \in Editors \ {e} : edit'[k] = edit[k]
  BY <1>2
<1>4. \A k \in Editors : edit'[k].at \in {"stops", "package", "write"} =>
        edit'[k].shift \in Shifts /\ db.status[edit'[k].shift] # "none"
  BY <1>3 DEF DispatchIInv, EditsKnow
<1> QED BY <1>1, <1>3, <1>4, QueuedHolds

LEMMA HandEditHolds ==
  ASSUME DispatchIInv, NEW e \in Editors, HandEdit(e)
  PROVE  DispatchIInv'
<1>1. /\ edit \in [Editors -> Edits] /\ edit[e] \in Edits /\ TablesKnown(db)
      /\ db.route \in [Shifts -> SUBSET Packages] /\ UNCHANGED <<callVars, workerVars>>
      /\ Queues(db, db)
  BY QueuesNothing DEF DispatchIInv, EditsKnow, TablesKnown, Tables, HandEdit
<1> DEFINE over == [NoEdit EXCEPT !.at = "done"]
<1>2. over \in Edits /\ over.at = "done"
  BY NoEditTyped
<1> HIDE DEF over
<1>3. CASE OpenEdit(e)
  <2>1. PICK s \in Shifts, p \in Packages, kind \in {"add", "remove"} :
          /\ IsOpen(db, s)
          /\ edit' = [edit EXCEPT ![e] = [@ EXCEPT !.at = "stops", !.kind = kind,
                                                   !.shift = s, !.pkg = p]]
    BY <1>3 DEF OpenEdit
  <2> DEFINE x == [edit[e] EXCEPT !.at = "stops", !.kind = kind, !.shift = s, !.pkg = p]
  <2>2. edit' = [edit EXCEPT ![e] = x]
    BY <1>1, <2>1
  <2>3. x \in Edits /\ x.shift = s
    BY <1>1 DEF Edits
  <2> HIDE DEF x
  <2>4. db.status[s] # "none" /\ Queues(db, db')
    BY <1>1, <1>3, <2>1 DEF IsOpen, OpenEdit
  <2> QED BY <1>1, <2>2, <2>3, <2>4, EditHolds
<1>4. CASE ReadStops(e)
  <2> DEFINE stops == db.route[edit[e].shift]
  <2>1. edit[e].shift \in Shifts /\ db.status[edit[e].shift] # "none" /\ stops \in SUBSET Packages
    BY <1>1, <1>4 DEF ReadStops, DispatchIInv, EditsKnow
  <2>2. PICK x \in {[edit[e] EXCEPT !.at = "package", !.route = stops],
                    [edit[e] EXCEPT !.at = "write", !.route = stops], over} :
          edit' = [edit EXCEPT ![e] = x]
    BY <1>1, <1>4 DEF ReadStops, over
  <2>3. x \in Edits /\ (x = over \/ x.shift = edit[e].shift)
    BY <1>1, <1>2, <2>1, <2>2 DEF Edits
  <2>4. Queues(db, db')
    BY <1>1, <1>4 DEF ReadStops
  <2> QED BY <1>1, <1>2, <2>1, <2>2, <2>3, <2>4, EditHolds
<1>5. CASE ReadPackage(e)
  <2>1. edit[e].shift \in Shifts /\ db.status[edit[e].shift] # "none"
    BY <1>5 DEF ReadPackage, DispatchIInv, EditsKnow
  <2> DEFINE b == db.optimisation[edit[e].pkg] \in {NoShift, edit[e].shift}
  <2>2. b \in BOOLEAN /\ edit' = [edit EXCEPT ![e] = [@ EXCEPT !.at = "write", !.wanted = b]]
    BY <1>5 DEF ReadPackage
  <2> HIDE DEF b
  <2> DEFINE x == [edit[e] EXCEPT !.at = "write", !.wanted = b]
  <2>3. x \in Edits /\ x.shift = edit[e].shift
    BY <1>1, <2>2 DEF Edits
  <2>4. edit' = [edit EXCEPT ![e] = x]
    BY <1>1, <2>2
  <2> HIDE DEF x
  <2>5. Queues(db, db')
    BY <1>1, <1>5 DEF ReadPackage
  <2> QED BY <1>1, <2>1, <2>3, <2>4, <2>5, EditHolds
<1>6. CASE WriteAdd(e)
  <2> DEFINE s     == edit[e].shift
             added == {p \in {edit[e].pkg} : edit[e].wanted}
             w     == EnqueueReplan(ClaimPackages(Repinned(e), s, added), s)
  <2>1. edit' = [edit EXCEPT ![e] = over] /\ (db' = w \/ db' = db)
    BY <1>6 DEF WriteAdd, over
  <2>2. s \in Shifts /\ db.status[s] # "none"
    BY <1>6 DEF WriteAdd, DispatchIInv, EditsKnow
  <2>3. added \in SUBSET Packages /\ Pinned(e) \in SUBSET Packages
    BY <1>1 DEF Edits, Pinned
  <2>4. Queues(db, w)
    BY <1>1, <2>2, <2>3, QueuedClaim DEF Repinned
  <2>5. Queues(db, db')
    BY <1>1, <2>1, <2>4
  <2> QED BY <1>1, <1>2, <2>1, <2>5, EditHolds
<1>7. CASE WriteRemove(e)
  <2> DEFINE s    == edit[e].shift
             left == edit[e].route \ {edit[e].pkg}
             cut  == Detach(db, {edit[e].pkg}, 0)
             w    == EnqueueReplan(WritePlan(SnapshotRevision(cut, s), s, left), s)
  <2>1. edit' = [edit EXCEPT ![e] = over] /\ (db' = w \/ db' = db)
    BY <1>7 DEF WriteRemove, over
  <2>2. s \in Shifts
    BY <1>7 DEF WriteRemove, DispatchIInv, EditsKnow
  <2>3. left \in SUBSET Packages /\ {edit[e].pkg} \in SUBSET Packages /\ 0 \in Nat
    BY <1>1 DEF Edits
  <2>4. Queues(db, cut)
    BY <1>1, <2>3, DetachQueues
  <2> HIDE DEF cut
  <2>5. Queues(cut, w)
    BY <2>2, <2>3, <2>4, QueuedWrite DEF Queues
  <2>6. Queues(db, db')
    BY <1>1, <2>1, <2>4, <2>5, QueuesTrans
  <2> QED BY <1>1, <1>2, <2>1, <2>6, EditHolds
<1> QED BY <1>3, <1>4, <1>5, <1>6, <1>7 DEF HandEdit

-----------------------------------------------------------------------------
(* The specification.                                                      *)

LEMMA InitDispatchIInv == DispatchInit => DispatchIInv
<1> SUFFICES ASSUME DispatchInit PROVE DispatchIInv
  OBVIOUS
<1>1. IInv
  BY InitIInv DEF DispatchInit
<1>2. /\ db = EmptyTables /\ db \in Tables /\ CallsTyped
  BY <1>1 DEF IInv, TypeOK, CallsTyped, DispatchInit, Init
<1>3. TablesKnown(db)
  BY <1>2, NoShiftAssumption DEF EmptyTables, TablesKnown, Unclaimed, TellsClaim
<1>4. NoJob \in Jobs /\ NoJob.at = "idle" /\ NoJob.batch = {} /\ NoJob.shift = NoShift
      /\ NoJob.packages = {}
  BY DEF NoJob, Jobs
<1>5. WorkersTyped /\ JobsHold
  BY <1>4, WorkerAssumption DEF DispatchInit, WorkersTyped, JobsHold, Replans
<1>6. EditsKnow
  BY NoEditTyped DEF DispatchInit, EditsKnow
<1>7. LostStopIsQueued /\ LateStopIsQueued
  BY <1>2, <1>4, <1>5 DEF LostStopIsQueued, LateStopIsQueued, EmptyTables, DispatchInit
<1> QED BY <1>2, <1>3, <1>5, <1>6, <1>7 DEF DispatchIInv

LEMMA StepDispatchIInv == DispatchIInv /\ [DispatchNext]_dispatchVars => DispatchIInv'
<1> SUFFICES ASSUME DispatchIInv, [DispatchNext]_dispatchVars PROVE DispatchIInv'
  OBVIOUS
<1>1. CASE People /\ UNCHANGED <<workerVars, edit>>
  BY <1>1, PeopleHold
<1>2. CASE Requests
  BY <1>2, CallsHold DEF Requests
<1>3. CASE \E c \in Calls : Assigning(c)
  BY <1>3, CallsHold DEF Assigning
<1>4. ASSUME NEW w \in Workers, ReplanWork(w) \/ CrashWorker(w), UNCHANGED edit
      PROVE  DispatchIInv'
  BY <1>4, ReadBatchHolds, EmptyBatchHolds, TryLockHolds, SkipLockedHolds, LoadShiftHolds,
     LoadShiftPackagesHolds, WriteReplanHolds, RefuseReplanHolds, FailReplanHolds,
     AssignLeftOutHolds, FinishReplanHolds, CrashWorkerHolds DEF ReplanWork
<1>5. ASSUME NEW s \in Shifts, CloseIdle(s), UNCHANGED edit
      PROVE  DispatchIInv'
  BY <1>5, CloseIdleHolds
<1>6. ASSUME NEW e \in Editors, HandEdit(e)
      PROVE  DispatchIInv'
  BY <1>6, HandEditHolds
<1>7. CASE UNCHANGED dispatchVars
  <2>1. /\ db' = db /\ job' = job /\ held' = held /\ attempts' = attempts
        /\ dropped' = dropped /\ edit' = edit /\ CallsTyped'
    BY <1>7 DEF dispatchVars, vars, callVars, workerVars, DispatchIInv, CallsTyped
  <2> QED BY <2>1 DEF DispatchIInv, WorkersTyped, JobsHold, EditsKnow, LostStopIsQueued,
            LateStopIsQueued, Promised, Replanning
<1> QED BY <1>1, <1>2, <1>3, <1>4, <1>5, <1>6, <1>7 DEF DispatchNext

LEMMA DispatchInvariant == DispatchSpec => []DispatchIInv
<1>1. DispatchInit => DispatchIInv
  BY InitDispatchIInv
<1>2. DispatchIInv /\ [DispatchNext]_dispatchVars => DispatchIInv'
  BY StepDispatchIInv
<1> QED BY <1>1, <1>2, PTL DEF DispatchSpec

(* The tables and what every handler remembers stay in their types.        *)
THEOREM DispatchTypeCorrect == DispatchSpec => []DispatchTypeOK
<1>1. DispatchIInv => DispatchTypeOK
  BY DEF DispatchIInv, TablesKnown, CallsTyped, WorkersTyped, EditsKnow, DispatchTypeOK, TypeOK
<1> QED BY <1>1, DispatchInvariant, PTL

(* A package's status tells its claim, whichever planner wrote last.       *)
THEOREM PlannersTellClaims == DispatchSpec => []StatusTellsClaim
<1>1. DispatchIInv => StatusTellsClaim
  BY DEF DispatchIInv, TablesKnown, TellsClaim, StatusTellsClaim
<1> QED BY <1>1, DispatchInvariant, PTL

(* A stop a stale rewrite lost is on its way back until a worker logs that *)
(* it gave the replan up.                                                  *)
THEOREM LostStopsReturn == DispatchSpec => []LostStopIsQueued
<1>1. DispatchIInv => LostStopIsQueued
  BY DEF DispatchIInv
<1> QED BY <1>1, DispatchInvariant, PTL
=============================================================================
