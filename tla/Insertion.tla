----------------------------- MODULE Insertion -----------------------------
(***************************************************************************)
(* Where on a route a package goes, who is bumped for it, and what the     *)
(* dispatcher and the replan worker may make of the route afterwards: the  *)
(* arithmetic Tier1 and Dispatch take as given.                            *)
(* src/dispatch/insertion.ts and its callers                               *)
(*                                                                         *)
(* Places lie on a line with the depot at 0; the average speed is 1.       *)
(***************************************************************************)
EXTENDS DrivingLimits, SequencesExt

CONSTANTS
  Items,           \* packages, numbered: ids are compared
  Shifts,          \* numbered likewise; each with a driver of its own
  At, Weight, Deadline, Old,       \* of each package
  CapacityG,       \* of every van
  DayEnd,          \* shiftDayEndMs
  Detour, Safety,  \* DETOUR_FACTOR and TIER1_SAFETY, in per cent
  RoadFactor,      \* how long the roads really are, in per cent
  GreyBand,        \* GREY_BAND, in per cent
  MaxEvictions,    \* MAX_EVICTIONS
  LoadSpread,      \* LOAD_SPREAD_SECONDS_PER_STOP
  Policies,        \* what a dispatcher may have configured
  Pinnable,        \* bound: the packages a dispatcher pins
  Loadable,        \* bound: those a driver loads before his van has left
  Rolling          \* bound: the vans that leave

Profiles == [Dimensions -> Nat \cup {Unset}]
PolicyStates == [enabled : BOOLEAN, deleted : SUBSET Profiles, default : Profiles \cup {Unset},
                 profile : [Shifts -> Profiles \cup {Unset}]]

ASSUME InsertionAssumption ==
  /\ Items \subseteq Nat /\ IsFiniteSet(Items) /\ Shifts \subseteq Nat /\ IsFiniteSet(Shifts)
  /\ At \in [Items -> Int] /\ Weight \in [Items -> Nat] /\ Old \in [Items -> BOOLEAN]
  /\ Deadline \in [Items -> Int \cup {Unset}]
  /\ CapacityG \in Int /\ DayEnd \in Int /\ LoadSpread \in Nat
  /\ Detour \in Nat /\ Safety \in Nat /\ Safety >= 100 /\ RoadFactor \in Nat
  /\ Unset \notin Profiles
  /\ Policies \subseteq PolicyStates

VARIABLES
  plan,            \* the route of each shift, and who wrote it under which limits
  item,            \* status and eviction count of each package
  rolled,          \* the shifts that have been dispatched
  policy           \* driving_limit_profile and who refers to it

insertionVars == <<plan, item, rolled, policy>>

(* measured: the legs whose length in the rows is the router's.            *)
NoPlan == [order |-> <<>>, by |-> "hand", under |-> NoLimits, measured |-> {}]

InsertionInit ==
  /\ plan = [s \in Shifts |-> NoPlan]
  /\ item = [p \in Items |-> [status |-> "PENDING", evictions |-> 0]]
  /\ rolled = {}
  /\ policy \in Policies

-----------------------------------------------------------------------------
(* Geometry and time.                                                      *)
PerCent(x, factor) == (x * factor) \div 100
Crow(a, b) == IF a < b THEN b - a ELSE a - b
Road(a, b) == PerCent(Crow(a, b), RoadFactor)

(* The margin is wide enough: no road is longer than its estimate.         *)
Places == {0} \cup {At[p] : p \in Items}

ASSUME MarginAssumption ==
  \A a, b \in Places : Road(a, b) <= PerCent(PerCent(Crow(a, b), Detour), Safety)

EstimateLegMeters(a, b, measured) ==
  IF <<a, b>> \in measured THEN Road(a, b) ELSE PerCent(Crow(a, b), Detour)

(* Mutant: what the dispatcher is shown is trusted as it is.               *)
HonestLeg(a, b, measured) == EstimateLegMeters(a, b, measured)

EstimateLeg(a, b, measured) ==
  IF <<a, b>> \in measured THEN Road(a, b) ELSE PerCent(EstimateLegMeters(a, b, measured), Safety)

GateLegMeters(a, b, measured) ==
  IF <<a, b>> \in measured THEN Road(a, b) ELSE PerCent(EstimateLegMeters(a, b, measured), Safety)

EffectiveDeadline(p) == IF Deadline[p] = Unset \/ Deadline[p] > DayEnd THEN Unset ELSE Deadline[p]

(* timeRoute: from the depot through the stops and back.                   *)
Tour(order) == <<0>> \o [i \in DOMAIN order |-> At[order[i]]] \o <<0>>
Legs(tour) == {<<tour[i], tour[i + 1]>> : i \in 1..(Len(tour) - 1)}
LegsOf(order) == Legs(Tour(order))

(* The running sum along a sequence of numbers, and its last figure.       *)
Running(s) ==
  LET sum[i \in 0..Len(s)] == IF i = 0 THEN 0 ELSE sum[i - 1] + s[i]
  IN  sum

SumOf(s) == Running(s)[Len(s)]

Timing(n, seconds, metres, gate) ==
  [arrivals |-> [i \in 1..n |-> Running(seconds)[i] + (i - 1) * TimePerStop],
   legs     |-> metres,
   drive    |-> SumOf(seconds),
   return   |-> SumOf(seconds) + n * TimePerStop,
   distance |-> SumOf(metres),
   gate     |-> SumOf(gate)]

Timed(tour, measured) ==
  Timing(Len(tour) - 2,
         [i \in 1..(Len(tour) - 1) |-> EstimateLeg(tour[i], tour[i + 1], measured)],
         [i \in 1..(Len(tour) - 1) |-> EstimateLegMeters(tour[i], tour[i + 1], measured)],
         [i \in 1..(Len(tour) - 1) |-> GateLegMeters(tour[i], tour[i + 1], measured)])

(* TLC keeps the estimate of every route there is, instead of working it   *)
(* out each time.                                                          *)
Routes == UNION {SetToSeqs(kept) : kept \in SUBSET Items}

Estimates == [order \in Routes |-> Timed(Tour(order), {})]

TimeRoute(order, measured) ==
  IF measured = {} THEN Estimates[order] ELSE Timed(Tour(order), measured)

-----------------------------------------------------------------------------
(* Insertion.                                                              *)

(* Why a route so timed may not be driven, by the first gate that says so. *)
Refusal(order, timing, limits) ==
  IF timing.return > LessOf(ShiftWindow, limits.working) THEN "window"
  ELSE IF ~Within(timing.drive, limits.driving) THEN "drive_time"
  ELSE IF ~Within(timing.gate, limits.distance) THEN "distance"
  ELSE IF \E i \in DOMAIN order : ~Within(timing.arrivals[i], EffectiveDeadline(order[i])) THEN "deadline"
  ELSE "none"

(* Too close to a promise or to a limit for an estimate to be trusted.     *)
Tight(slack, budget) == slack * 100 < GreyBand * budget

IsGreyBand(order, timing, limits) ==
  \/ \E i \in DOMAIN order :
       LET deadline == EffectiveDeadline(order[i]) IN
       deadline # Unset /\ Tight(deadline - timing.arrivals[i], Max({deadline, 1}))
  \/ limits.driving # Unset /\ Tight(limits.driving - timing.drive, limits.driving)
  \/ limits.distance # Unset /\ Tight(limits.distance - timing.gate, limits.distance)

Rejected(reason) == [feasible |-> FALSE, reason |-> reason]

Judged(k, order, timing, limits) ==
  [index |-> k, order |-> order, timing |-> timing, refusal |-> Refusal(order, timing, limits)]

(* The cheapest position at which the whole route still holds, the first   *)
(* of equals; without one, what is wrong with the last.                    *)
Cheaper(a, b) ==
  a.timing.drive < b.timing.drive \/ (a.timing.drive = b.timing.drive /\ a.index <= b.index)

Cheapest(tries, before, limits) ==
  IF \A t \in tries : t.refusal # "none"
  THEN Rejected((CHOOSE t \in tries : \A u \in tries : u.index <= t.index).refusal)
  ELSE CHOOSE r \in {[feasible |-> TRUE, order |-> t.order, delta |-> t.timing.drive - before,
                       grey |-> IsGreyBand(t.order, t.timing, limits)]
                        : t \in {x \in tries : /\ x.refusal = "none"
                                               /\ \A y \in tries : y.refusal = "none" => Cheaper(x, y)}} : TRUE

CheapestPosition(order, p, limits, measured) ==
  Cheapest({Judged(t[1], t[2], TimeRoute(t[2], measured), limits)
              : t \in {<<k, InsertAt(order, k, p)>> : k \in 1..(Len(order) + 1)}},
           TimeRoute(order, measured).drive, limits)

LoadOf(order) == SumOf([i \in DOMAIN order |-> Weight[order[i]]])

TryInsert(order, p, limits, measured) ==
  LET stops == LessOf(MaxStops, limits.stops)
  IN  IF LoadOf(order) + Weight[p] > CapacityG THEN Rejected("weight")
      ELSE IF Len(order) + 1 > stops
           THEN Rejected(IF stops < MaxStops THEN "stop_limit" ELSE "max_stops")
      ELSE CheapestPosition(order, p, limits, measured)

(* The detour and a penalty for what the van carries already, then the     *)
(* emptier van, then the smaller id.                                       *)
Cost(r) == r.delta + r.stops * LoadSpread

(* Mutant: the first of equals is kept.                                    *)
CheaperOnly(a, b) == Cost(a) < Cost(b) \/ (Cost(a) = Cost(b) /\ a.stops < b.stops)

Beats(a, b) ==
  \/ Cost(a) < Cost(b)
  \/ Cost(a) = Cost(b) /\ a.stops < b.stops
  \/ Cost(a) = Cost(b) /\ a.stops = b.stops /\ a.shift < b.shift

ChooseBest(results) ==
  LET best[i \in 1..Len(results)] ==
        IF i = 1 \/ Beats(results[i], best[i - 1]) THEN results[i] ELSE best[i - 1]
  IN  best[Len(results)]

Limits(s) == DriverLimits(policy, s)
Open == Shifts \ rolled

(* The feasible insertions of p, one a shift.                              *)
Results(p, measuredOf) ==
  LET try == {<<s, TryInsert(plan[s].order, p, Limits(s), measuredOf[s])>> : s \in Open} IN
  {[shift |-> t[1], stops |-> Len(plan[t[1]].order), delta |-> t[2].delta, order |-> t[2].order,
    grey |-> t[2].grey, measured |-> LegsOf(t[2].order) \cap measuredOf[t[1]]]
     : t \in {x \in try : x[2].feasible}}

Winner(results) == IF results = {} THEN {} ELSE {ChooseBest(SetToSeq(results))}

(* bestOf: the winner alone is measured, once, and the choice made anew; a *)
(* router that is down leaves it as it was.                                *)
Unmeasured == [s \in Open |-> {}]

Remeasured(p, first) ==
  first \cup UNION {Winner(Results(p, [Unmeasured EXCEPT ![r.shift] = LegsOf(r.order)]))
                      : r \in {x \in first : x.grey}}

BestOf(p) == Remeasured(p, Winner(Results(p, Unmeasured)))

-----------------------------------------------------------------------------
(* Eviction.                                                               *)
IsEvictable(p) ==
  /\ item[p].status = "ASSIGNED"
  /\ EffectiveDeadline(p) = Unset
  /\ item[p].evictions < MaxEvictions
  /\ ~Old[p]

(* Least bumped first, then newest first: a higher number was created later*)
Sooner(a, b) ==
  \/ item[a].evictions < item[b].evictions
  \/ item[a].evictions = item[b].evictions /\ a > b

VictimOrder(s) ==
  CHOOSE sorted \in SetToSeqs({p \in ToSet(plan[s].order) : IsEvictable(p)}) :
    \A i, j \in DOMAIN sorted : i < j => Sooner(sorted[i], sorted[j])

Without(order, victims) ==
  LET kept[i \in 0..Len(order)] ==
        IF i = 0 THEN <<>>
        ELSE IF order[i] \in victims THEN kept[i - 1]
        ELSE Append(kept[i - 1], order[i])
  IN  kept[Len(order)]

(* Mutant: everything that may be bumped is.                               *)
EveryVictim(s, p) ==
  LET all == ToSet(VictimOrder(s)) IN
  IF EffectiveDeadline(p) # Unset /\ all # {} /\ TryInsert(Without(plan[s].order, all), p, Limits(s), {}).feasible
  THEN all ELSE {}

(* The shortest prefix of that order that makes room.                      *)
FirstRoom(sorted, s, p) ==
  {n \in DOMAIN sorted :
     TryInsert(Without(plan[s].order, ToSet(SubSeq(sorted, 1, n))), p, Limits(s), {}).feasible}

ShortestPrefix(sorted, enough) == IF enough = {} THEN {} ELSE ToSet(SubSeq(sorted, 1, Min(enough)))

PickVictims(s, p) ==
  IF EffectiveDeadline(p) = Unset THEN {}
  ELSE ShortestPrefix(VictimOrder(s), FirstRoom(VictimOrder(s), s, p))

-----------------------------------------------------------------------------
(* What is made of it.                                                     *)
Write(s, order, by, measured) ==
  plan' = [plan EXCEPT ![s] = [order |-> order, by |-> by, under |-> Limits(s), measured |-> measured]]

Place(p) ==
  /\ item[p].status = "PENDING"
  /\ \E best \in BestOf(p) : Write(best.shift, best.order, "tier1", best.measured)
  /\ item' = [item EXCEPT ![p].status = "ASSIGNED"]
  /\ UNCHANGED <<rolled, policy>>

Bumped(victims, p) ==
  [q \in Items |-> IF q = p THEN [item[q] EXCEPT !.status = "ASSIGNED"]
                   ELSE IF q \in victims THEN [status |-> "PENDING", evictions |-> item[q].evictions + 1]
                   ELSE item[q]]

EvictFor(p, s) ==
  /\ item[p].status = "PENDING" /\ s \in Open /\ BestOf(p) = {}
  /\ \E victims \in {PickVictims(s, p)} \ {{}} :
       /\ Write(s, TryInsert(Without(plan[s].order, victims), p, Limits(s), {}).order, "tier1", {})
       /\ item' = Bumped(victims, p)
  /\ UNCHANGED <<rolled, policy>>

(* assignToShift: at the cheapest position or, where there is none, at the *)
(* end; a dispatcher is warned and never refused.                          *)
Pin(p, s) ==
  /\ p \in Pinnable /\ item[p].status = "PENDING"
  /\ \E attempt \in {CheapestPosition(plan[s].order, p, Limits(s), {})} :
       Write(s, IF attempt.feasible THEN attempt.order ELSE Append(plan[s].order, p), "hand", {})
  /\ item' = [item EXCEPT ![p].status = "ASSIGNED"]
  /\ UNCHANGED <<rolled, policy>>

(* removeFromShift: the order survives and is timed anew.                  *)
TakeOff(p, s) ==
  /\ item[p].status = "ASSIGNED" /\ p \in ToSet(plan[s].order)
  /\ Write(s, Without(plan[s].order, {p}), "hand", {})
  /\ item' = [item EXCEPT ![p].status = "PENDING"]
  /\ UNCHANGED <<rolled, policy>>

(* The request of a replan: a deadline is a window unless it has passed.   *)
Accepts(vehicle, order, timing) ==
  /\ timing.return <= vehicle.window_end
  /\ Within(timing.drive, vehicle.max_travel_time)
  /\ Within(timing.distance, vehicle.max_distance)
  /\ Within(Len(order), vehicle.max_tasks)
  /\ \A i \in DOMAIN order :
       (Deadline[order[i]] # Unset /\ Deadline[order[i]] > 0) => timing.arrivals[i] <= Deadline[order[i]]
  /\ LoadOf(order) <= CapacityG

Measured(order) == TimeRoute(order, LegsOf(order))

Honours(order, limits) == Accepts(VroomVehicleLimits(limits), order, Measured(order))

(* The solver keeps to windows and capacities; a build that does not know  *)
(* the newer limits ignores them.                                          *)
Solved(s) ==
  UNION {{order \in SetToSeqs(kept) : Honours(order, NoLimits)} : kept \in SUBSET ToSet(plan[s].order)}

Answered(order, timing) ==
  [duration |-> timing.drive, distance |-> timing.distance, stops |-> Len(order), end |-> timing.return,
   arrivals |-> timing.arrivals]

AnswerOf(order) == Answered(order, Measured(order))

(* A replan that may be written: the packages it could not fit come off.   *)
Replan(s) ==
  /\ s \in Open /\ plan[s].order # <<>>
  /\ \E order \in Solved(s) :
       /\ ~BreachesLimits(AnswerOf(order), Limits(s))
       /\ Write(s, order, "tier2", LegsOf(order))
       /\ item' = [p \in Items |-> IF p \in ToSet(plan[s].order) \ ToSet(order)
                                   THEN [item[p] EXCEPT !.status = "PENDING"] ELSE item[p]]
  /\ UNCHANGED <<rolled, policy>>

Load(p) ==
  /\ p \in Loadable
  /\ item[p].status = "ASSIGNED"
  /\ item' = [item EXCEPT ![p].status = "LOADED"]
  /\ UNCHANGED <<plan, rolled, policy>>

Roll(s) ==
  /\ s \in Open \cap Rolling
  /\ rolled' = rolled \cup {s}
  /\ UNCHANGED <<plan, item, policy>>

(* The dashboard deletes the profile of a driver.                          *)
DeleteProfile(s) ==
  /\ policy.profile[s] # Unset
  /\ policy' = [policy EXCEPT !.deleted = @ \cup {policy.profile[s]}]
  /\ policy' # policy
  /\ UNCHANGED <<plan, item, rolled>>

InsertionNext ==
  \/ \E p \in Items : Place(p) \/ Load(p)
  \/ \E p \in Items, s \in Shifts : EvictFor(p, s) \/ Pin(p, s) \/ TakeOff(p, s)
  \/ \E s \in Shifts : Replan(s) \/ Roll(s) \/ DeleteProfile(s)

InsertionSpec == InsertionInit /\ [][InsertionNext]_insertionVars

-----------------------------------------------------------------------------
(* On the roads as they are, a route the engine has written is driven      *)
(* within the limits of its driver and its window, and is at every         *)
(* promised door in time: an estimate never says yes to what cannot be     *)
(* done.  (What a deadline already past at departure promises is moot.)    *)
DrivenAsPromised(order, limits, truth) ==
  /\ Within(truth.duration, limits.driving)
  /\ Within(truth.distance, limits.distance)
  /\ Within(truth.stops, limits.stops)
  /\ truth.end <= LessOf(ShiftWindow, limits.working)
  /\ \A i \in DOMAIN order :
       (EffectiveDeadline(order[i]) # Unset /\ EffectiveDeadline(order[i]) > 0)
         => truth.arrivals[i] <= EffectiveDeadline(order[i])

NoFalseYes ==
  \A s \in Shifts : plan[s].by # "hand" =>
    DrivenAsPromised(plan[s].order, plan[s].under, AnswerOf(plan[s].order))

(* The van a package goes to does not depend on the order in which the     *)
(* database returned the candidates.                                       *)
SameWinner ==
  \A p \in {q \in Items : item[q].status = "PENDING"} :
    \A results \in {Results(p, Unmeasured)} \ {{}} :
      Cardinality({ChooseBest(seq) : seq \in SetToSeqs(results)}) = 1

(* The two planners agree: what the instant one has just accepted is an    *)
(* answer to the request the replan makes of the solver, so a replan never *)
(* has to throw a package off for the sake of a limit that was known; and  *)
(* the diagnostics report no breach of the limits a route was made under.  *)
(* (The service day is to outlast the window: a deadline after midnight is *)
(* ignored by the first and sent by the second.)                           *)
Rows(order, timing) ==
  [end |-> timing.return, distance |-> timing.distance,
   steps |-> [i \in DOMAIN order |->
                [package |-> order[i], arrival |-> timing.arrivals[i], leg |-> timing.legs[i]]]]

TiersAgree ==
  \A s \in Shifts :
    /\ plan[s].by = "tier1" /\ DayEnd >= ShiftWindow => Honours(plan[s].order, plan[s].under)
    /\ plan[s].by # "hand" =>
         Summary({s}, [x \in {s} |-> Rows(plan[s].order, TimeRoute(plan[s].order, plan[s].measured))],
                 plan[s].under).breaching = <<>>

(* Who is bumped could be, for a package with a promise that fitted on no  *)
(* van, and is needed: had the one most entitled to stay been left on      *)
(* board, it would not have fitted.                                        *)
VictimsAreNeeded ==
  [][\A s \in Shifts :
       LET victims == {q \in Items : item'[q].evictions > item[q].evictions /\ q \in ToSet(plan[s].order)} IN
       victims # {} =>
         \E p \in ToSet(plan'[s].order) \ ToSet(plan[s].order) :
           /\ EffectiveDeadline(p) # Unset
           /\ \A x \in Open : ~TryInsert(plan[x].order, p, Limits(x), {}).feasible
           /\ \A v \in victims : item[v].status = "ASSIGNED" /\ EffectiveDeadline(v) = Unset /\ ~Old[v]
           /\ \A v \in victims : (\A u \in victims \ {v} : Sooner(u, v)) =>
                ~TryInsert(Without(plan[s].order, victims \ {v}), p, Limits(s), {}).feasible]_insertionVars
=============================================================================
