--------------------------- MODULE WarehouseRun ---------------------------
(***************************************************************************)
(* The whole-warehouse solve: what DatabaseService reads and locks for it, *)
(* and what it writes when the solver has answered, against the instant    *)
(* assignments, the dispatcher and the drivers of the same warehouse.      *)
(* src/database/database.service.ts                                        *)
(*                                                                         *)
(* One warehouse; a van stands for itself and the driver it is paired with.*)
(* Which stops the solver puts on which van, in which order and by when is *)
(* its affair: any answer over the request's jobs and vans is possible.    *)
(***************************************************************************)
EXTENDS Integers, FiniteSets, FiniteSetsExt

CONSTANTS
  Parcels,
  Located,         \* those whose customer has a geocoded address
  Handled,         \* bound: those a dispatcher pairs with a van himself
  Vans,
  Solves,          \* whole-warehouse runs, each in a transaction of its own
  None,
  MaxShifts,       \* bound: insertions into vrp_optimization
  MaxClock,        \* bound
  Lengths,         \* how long a route may take
  Buffer           \* SETOFF_BUFFER_SECONDS

(* A shift's route on one van: of which insertion, and of which part of it.*)
Ids == (1..MaxShifts) \X Vans \X {"solved", "pinned", "instant"}

ASSUME WarehouseAssumption ==
  /\ Located \subseteq Parcels /\ Handled \subseteq Parcels
  /\ MaxShifts \in Nat /\ MaxClock \in Nat /\ Buffer \in Nat
  /\ Lengths \subseteq Nat
  /\ None \notin Vans \cup Solves \cup Ids

Times == Nat
Terminal == {"DELIVERED"}       \* and FAILED, which no query here tells apart

VARIABLES
  parcel,          \* packages, package_assignment, package_timeline, steps
  routes,          \* vrp_route and its end step, as long as a step names it
  lastShift,       \* the last insertion into vrp_optimization
  lockedBy,        \* row locks on packages, held by a solve's transaction
  solve,           \* the solves
  clock

runVars == <<parcel, routes, lastShift, lockedBy, solve, clock>>

(* left: the first IN_TRANSIT row; departure: scheduled_departure.         *)
Parcel == [status    : {"PENDING", "ASSIGNED", "IN_TRANSIT"} \cup Terminal,
           claim     : Ids \cup {None},
           pair      : Vans \cup {None},
           step      : Ids \cup {None},
           left      : 0..MaxClock \cup {None},
           departure : Times \cup {None}]

NewParcel == [status |-> "PENDING", claim |-> None, pair |-> None,
              step |-> None, left |-> None, departure |-> None]

(* planned: when the route is to leave, whether a row says so or not.      *)
Route == [id : Ids, planned : Times, length : Lengths]

NoSolve == [at |-> "idle", jobs |-> {}, setOff |-> [v \in Vans |-> 0], overruled |-> {},
            pins |-> [p \in Parcels |-> None], active |-> {}, gone |-> {}, repaired |-> {}]

Solving == [at        : {"idle", "vans", "pins", "solve"},
            jobs      : SUBSET Located,
            setOff    : [Vans -> Times],
            overruled : SUBSET Vans,               \* setOffOverrides
            pins      : [Parcels -> Vans \cup {None}],
            active    : SUBSET Ids,                \* history: routes the set-offs read
            gone      : SUBSET Ids,                \* history: those that had left
            repaired  : SUBSET Parcels]            \* history: paired anew since

RunInit ==
  /\ \E collected \in SUBSET Handled :       \* a booking's collection day
       parcel = [p \in Parcels |-> [NewParcel EXCEPT !.departure = IF p \in collected THEN 0 ELSE None]]
  /\ routes = {}
  /\ lastShift = 0
  /\ lockedBy = [p \in Parcels |-> None]
  /\ solve = [r \in Solves |-> NoSolve]
  /\ clock = 0

Unlocked(r) == {p \in Parcels : lockedBy[p] \in {None, r}}
Lock(r, ps) == lockedBy' = [p \in Parcels |-> IF p \in ps THEN r ELSE lockedBy[p]]
Release(r) == lockedBy' = [p \in Parcels |-> IF lockedBy[p] = r THEN None ELSE lockedBy[p]]

-----------------------------------------------------------------------------
(* buildOptimizationRequest.                                               *)

(* Mutant: without the join on package_assignment.                         *)
CandidatesOfAnyPair == {p \in Parcels : parcel[p].status = "PENDING" /\ parcel[p].claim = None}

(* The latest status is PENDING, no shift has it and no dispatcher has     *)
(* paired it.                                                              *)
Candidates == {p \in Parcels : /\ parcel[p].status = "PENDING"
                               /\ parcel[p].claim = None
                               /\ parcel[p].pair = None}

(* A job for each that has a location: its weight, deadline, priority and  *)
(* skills are the solver's to weigh.                                       *)
Jobs(ps) == ps \cap Located

(* Mutant: the rows are read and not locked.                               *)
LockNothing(r) ==
  /\ solve[r].at = "idle"
  /\ solve' = [solve EXCEPT ![r] = [NoSolve EXCEPT !.at = "vans", !.jobs = Jobs(Candidates)]]
  /\ UNCHANGED <<parcel, routes, lastShift, lockedBy, clock>>

(* FOR UPDATE OF p SKIP LOCKED.                                            *)
LockCandidates(r) ==
  LET mine == Candidates \cap Unlocked(r) IN
  /\ solve[r].at = "idle"
  /\ Lock(r, mine)
  /\ solve' = [solve EXCEPT ![r] = [NoSolve EXCEPT !.at = "vans", !.jobs = Jobs(mine)]]
  /\ UNCHANGED <<parcel, routes, lastShift, clock>>

(* computeVehicleSetOffs: a route is active while a parcel on it is not    *)
(* terminal; steps are joined to their parcels' pairs.                     *)
StopsOf(route) == {p \in Parcels : parcel[p].step = route.id}

ActiveRoutes(v) ==
  {route \in routes : /\ \E p \in StopsOf(route) : parcel[p].pair = v
                      /\ \E p \in StopsOf(route) : parcel[p].pair = v /\ parcel[p].status \notin Terminal}

Earliest(ts) == IF ts = {} THEN None ELSE Min(ts)

(* Mutant: the planned departure is asked for first.                       *)
PlannedReference(v, route) ==
  LET stops   == {p \in StopsOf(route) : parcel[p].pair = v}
      planned == Earliest({parcel[p].departure : p \in stops} \ {None})
  IN  IF planned # None THEN planned ELSE clock

(* first_in_transit_at, else the planned departure, else now.              *)
ReturnReference(v, route) ==
  LET stops   == {p \in StopsOf(route) : parcel[p].pair = v}
      left    == Earliest({parcel[p].left : p \in stops} \ {None})
      planned == Earliest({parcel[p].departure : p \in stops} \ {None})
  IN  IF left # None THEN left ELSE IF planned # None THEN planned ELSE clock

Returns(v) == Max({clock} \cup {ReturnReference(v, route) + route.length + Buffer
                                  : route \in ActiveRoutes(v)})

(* Bound: one van at a time, and to the end of the modelled time.          *)
SetOffOverrides == {{}} \cup {{v} : v \in Vans}

(* The vans and when each may set off; the dispatcher's overrides win.     *)
ReadVans(r) ==
  LET active == {route \in routes : route \in ActiveRoutes(route.id[2])} IN
  /\ solve[r].at = "vans"
  /\ \E overruled \in SetOffOverrides :
       solve' = [solve EXCEPT
            ![r] = [@ EXCEPT !.at = "pins",
                             !.setOff = [v \in Vans |-> IF v \in overruled THEN MaxClock ELSE Returns(v)],
                             !.overruled = overruled,
                             !.active = {route.id : route \in active},
                             !.gone = {route.id : route \in {x \in active :
                                         \E p \in StopsOf(x) : parcel[p].left # None}}]]
  /\ UNCHANGED <<parcel, routes, lastShift, lockedBy, clock>>

(* buildPinnedRoutes: what a dispatcher has paired and no plan has, in     *)
(* whatever status.                                                        *)
PinnedRows(r) == {p \in Unlocked(r) : /\ parcel[p].claim = None
                                      /\ parcel[p].pair # None
                                      /\ parcel[p].step = None}

(* One request a pair, with the jobs that have a location.                 *)
Pins(r) == [p \in Parcels |-> IF p \in Jobs(PinnedRows(r)) THEN parcel[p].pair ELSE None]

NothingToRoute(r) == solve[r].jobs = {} /\ Jobs(PinnedRows(r)) = {}

BuildPinnedRoutes(r) ==
  /\ solve[r].at = "pins" /\ ~NothingToRoute(r)
  /\ Lock(r, PinnedRows(r))
  /\ solve' = [solve EXCEPT ![r] = [@ EXCEPT !.at = "solve", !.pins = Pins(r)]]
  /\ UNCHANGED <<parcel, routes, lastShift, clock>>

(* No job at all: the reason is put together for the dispatcher and the    *)
(* transaction is rolled back.                                             *)
SkipRun(r) ==
  /\ solve[r].at = "pins" /\ NothingToRoute(r)
  /\ Release(r)
  /\ solve' = [solve EXCEPT ![r] = NoSolve]
  /\ UNCHANGED <<parcel, routes, lastShift, clock>>

-----------------------------------------------------------------------------
(* insertOptimisedRoutes, insertAdhocRoutes and the commit.                *)

(* The solver's answer: the van of each job it could fit.                  *)
Answers(r) ==
  LET pinned == {p \in Parcels : solve[r].pins[p] # None} IN
  {f \in [solve[r].jobs \cup pinned -> Vans \cup {None}] :
     \A p \in pinned \ solve[r].jobs : f[p] \in {None, solve[r].pins[p]}}

(* The row of the shift or, for the pairs, of each shift.                  *)
RouteId(r, p, v) == <<lastShift + 1, v, IF p \in solve[r].jobs THEN "solved" ELSE "pinned">>

(* upsertPackageAssignments, insertPackageTimelineStatus and the claim.    *)
Assigned(row, id) == [row EXCEPT !.claim = id, !.step = id, !.pair = id[2], !.status = "ASSIGNED"]

(* Mutant: every job is claimed, the ones without a stop too.              *)
ClaimEveryJob(r, f) ==
  parcel' = [p \in Parcels |->
    IF p \notin DOMAIN f THEN parcel[p]
    ELSE IF f[p] = None THEN [parcel[p] EXCEPT !.claim = RouteId(r, p, CHOOSE v \in Vans : TRUE)]
    ELSE Assigned(parcel[p], RouteId(r, p, f[p]))]

(* Only what has a stop is claimed; the claim of a solver's stop is not    *)
(* guarded, that of a pinned one is, but either way the rows are locked.   *)
(* Only a solver's stop gets a departure, that of its route's start step.  *)
StampRouted(r, f) ==
  parcel' = [p \in Parcels |->
    IF p \notin DOMAIN f \/ f[p] = None THEN parcel[p]
    ELSE IF p \in solve[r].jobs
         THEN [Assigned(parcel[p], RouteId(r, p, f[p])) EXCEPT !.departure = solve[r].setOff[f[p]]]
         ELSE Assigned(parcel[p], RouteId(r, p, f[p]))]

(* The rows of vrp_route_step are unique by parcel: a stop left over from  *)
(* an older plan fails the insertion.                                      *)
CanInsert(ps) == \A p \in ps : parcel[p].step = None

NewRoutes(r, f, length) ==
  {[id |-> RouteId(r, p, f[p]), planned |-> solve[r].setOff[f[p]], length |-> length]
     : p \in {q \in DOMAIN f : f[q] # None}}

(* insertOptimisedRoutes, insertAdhocRoutes for each pair, and the commit. *)
InsertRoutes(r) ==
  /\ solve[r].at = "solve"
  /\ lastShift < MaxShifts
  /\ \E f \in Answers(r), length \in Lengths :
       /\ CanInsert({p \in DOMAIN f : f[p] # None})
       /\ StampRouted(r, f)
       /\ routes' = routes \cup NewRoutes(r, f, length)
  /\ lastShift' = lastShift + 1
  /\ Release(r)
  /\ solve' = [solve EXCEPT ![r] = NoSolve]
  /\ UNCHANGED clock

(* A warehouse of another organisation or without coordinates, the router, *)
(* the solver, a job id it made up, a leftover stop: everything is undone. *)
FailRun(r) ==
  /\ solve[r].at # "idle"
  /\ Release(r)
  /\ solve' = [solve EXCEPT ![r] = NoSolve]
  /\ UNCHANGED <<parcel, routes, lastShift, clock>>

-----------------------------------------------------------------------------
(* What happens at the same warehouse meanwhile.  A new pair refers to the *)
(* parcel's row and waits for its lock, a status does too; a pair that is  *)
(* changed does not.                                                       *)
Free(p) == lockedBy[p] = None

PairByHand(p) ==
  /\ p \in Handled /\ Free(p) /\ parcel[p].pair = None
  /\ \E v \in Vans : parcel' = [parcel EXCEPT ![p].pair = v]
  /\ UNCHANGED <<routes, lastShift, lockedBy, solve, clock>>

PairAnew(p) ==
  /\ parcel[p].pair # None /\ parcel[p].claim = None
  /\ \E v \in Vans \ {parcel[p].pair} : parcel' = [parcel EXCEPT ![p].pair = v]
  /\ solve' = [r \in Solves |-> [solve[r] EXCEPT !.repaired = IF solve[r].at = "solve" THEN @ \cup {p} ELSE @]]
  /\ UNCHANGED <<routes, lastShift, lockedBy, clock>>

(* assign(): the claim waits for the lock and then finds itself too late.  *)
AssignInstantly(p) ==
  /\ Free(p) /\ lastShift < MaxShifts
  /\ parcel[p].status = "PENDING" /\ parcel[p].claim = None /\ parcel[p].step = None
  /\ \E v \in Vans, length \in Lengths :
       LET id == <<lastShift + 1, v, "instant">> IN
       /\ parcel' = [parcel EXCEPT ![p] = Assigned(@, id)]
       /\ routes' = routes \cup {[id |-> id, planned |-> clock, length |-> length]}
  /\ lastShift' = lastShift + 1
  /\ UNCHANGED <<lockedBy, solve, clock>>

(* An eviction or a dispatcher's removal.  A replan that had read the      *)
(* shift's parcels before writes stop and pair back, without a claim.      *)
DetachParcel(p) ==
  /\ Free(p) /\ parcel[p].status = "ASSIGNED"
  /\ \E row \in {NewParcel, [NewParcel EXCEPT !.step = parcel[p].step, !.pair = parcel[p].pair]} :
       /\ parcel' = [parcel EXCEPT ![p] = [row EXCEPT !.departure = parcel[p].departure]]
       /\ routes' = {route \in routes : \E q \in Parcels : parcel'[q].step = route.id}
  /\ UNCHANGED <<lastShift, lockedBy, solve, clock>>

(* A driver scans what he was given in whatever order, or forgets to.      *)
Scan(p) ==
  /\ Free(p) /\ parcel[p].status # "PENDING"
  /\ \E status \in {"IN_TRANSIT"} \cup Terminal :
       parcel' = [parcel EXCEPT ![p] =
         [parcel[p] EXCEPT !.status = status,
                           !.left = IF status = "IN_TRANSIT" /\ @ = None THEN clock ELSE @]]
  /\ UNCHANGED <<routes, lastShift, lockedBy, solve, clock>>

Tick ==
  /\ clock < MaxClock
  /\ clock' = clock + 1
  /\ UNCHANGED <<parcel, routes, lastShift, lockedBy, solve>>

RunNext ==
  \/ \E r \in Solves : LockCandidates(r) \/ ReadVans(r) \/ BuildPinnedRoutes(r) \/ SkipRun(r)
                       \/ InsertRoutes(r) \/ FailRun(r)
  \/ \E p \in Parcels : PairByHand(p) \/ PairAnew(p) \/ AssignInstantly(p) \/ DetachParcel(p) \/ Scan(p)
  \/ Tick

RunSpec == RunInit /\ [][RunNext]_runVars

-----------------------------------------------------------------------------
RunTypeOK ==
  /\ parcel \in [Parcels -> Parcel]
  /\ routes \subseteq Route
  /\ lastShift \in 0..MaxShifts
  /\ lockedBy \in [Parcels -> Solves \cup {None}]
  /\ solve \in [Solves -> Solving]
  /\ clock \in 0..MaxClock

Inserts(r) == solve[r].at = "solve" /\ lastShift' # lastShift /\ solve'[r] = NoSolve
TakenBy(p) == parcel[p].claim # parcel'[p].claim /\ parcel'[p].claim # None

(* Over the minutes the solver takes, nobody plans, pairs or scans a job of*)
(* its request, and nobody plans a pinned one: an answer is never thrown   *)
(* away because the request it answers is out of date.                     *)
HeldForTheSolver ==
  \A r \in Solves : solve[r].at = "solve" =>
    /\ solve[r].jobs \subseteq Candidates
    /\ \A p \in Parcels : solve[r].pins[p] # None => parcel[p].claim = None

(* What a plan has claimed has its stop in that plan, on the van it is     *)
(* paired with: a parcel the solver could not fit stays for the next run.  *)
(* The other way round a stop may outlive its claim, as a stale replan     *)
(* writes it back; but then no other plan has the parcel, and it is        *)
(* pending and has not left.                                               *)
RoutedAreClaimed ==
  \A p \in Parcels :
    /\ parcel[p].claim # None =>
         /\ parcel[p].claim = parcel[p].step
         /\ \E route \in routes : route.id = parcel[p].claim /\ route.id[2] = parcel[p].pair
    /\ parcel[p].step \notin {None, parcel[p].claim} =>
         parcel[p].claim = None /\ parcel[p].status = "PENDING" /\ parcel[p].left = None

(* A dispatcher who paired a parcel with a van by hand finds it on that    *)
(* van, unless he changed his mind while the run was being solved.         *)
DispatchersChoiceStands ==
  [][\A r \in Solves, p \in Parcels :
       Inserts(r) /\ TakenBy(p) /\ parcel[p].pair # None /\ p \notin solve[r].repaired
         => parcel'[p].pair = parcel[p].pair]_runVars

(* A van on the road is not planned to leave again before its routes have  *)
(* brought it back and it has been reloaded: the time it left at counts,   *)
(* however late that was.                                                  *)
NextWaveAfterReturn ==
  [][\A r \in Solves : Inserts(r) =>
       \A new \in routes' \ routes, old \in routes :
         (/\ old.id \in solve[r].gone /\ old.id[2] = new.id[2]
          /\ new.id[2] \notin solve[r].overruled)
           => new.planned >= Earliest({parcel[p].left : p \in StopsOf(old)} \ {None}) + old.length + Buffer]_runVars

(* Refuted: "take the latest return so its next wave never overlaps        *)
(* either".  Only a solved route writes its departure on its parcels; on   *)
(* one made otherwise the collection day of a booking counts as that, or   *)
(* nothing does.                                                           *)
WavesDoNotOverlap ==
  [][\A r \in Solves : Inserts(r) =>
       \A new \in routes' \ routes, old \in routes :
         (/\ old.id \in solve[r].active \ solve[r].gone /\ old \in ActiveRoutes(new.id[2])
          /\ old.id[2] = new.id[2] /\ new.id[2] \notin solve[r].overruled)
           => new.planned >= old.planned + old.length]_runVars
=============================================================================
