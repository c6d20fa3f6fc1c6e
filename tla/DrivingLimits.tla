--------------------------- MODULE DrivingLimits ---------------------------
(***************************************************************************)
(* What a driver may be asked to do in a shift, how it binds on each of    *)
(* the two planners, and what the diagnostics say it would have cost.      *)
(* src/dispatch/driving-limits.ts, driving-limits-diagnostics*.ts          *)
(*                                                                         *)
(* Times are measured from the shift's departure.                          *)
(***************************************************************************)
EXTENDS Integers, Sequences, FiniteSets, FiniteSetsExt

CONSTANTS
  Unset,           \* null
  TimePerStop,     \* TIME_PER_STOP
  ShiftWindow,     \* SHIFT_WINDOW_SECONDS
  MaxStops         \* MAX_STOPS

ASSUME LimitsAssumption ==
  Unset \notin Int /\ TimePerStop \in Nat /\ ShiftWindow \in Nat /\ MaxStops \in Nat

Dimensions == {"working", "driving", "distance", "stops"}

NoLimits == [d \in Dimensions |-> Unset]

Within(x, limit) == limit = Unset \/ x <= limit

LessOf(x, limit) == IF limit = Unset THEN x ELSE Min({x, limit})

-----------------------------------------------------------------------------
(* Resolution.  A profile is a function of the dimensions; one the         *)
(* dashboard has deleted, or none, limits nothing.                         *)
ProfileLimits(profile, deleted) ==
  IF profile = Unset \/ profile \in deleted THEN NoLimits ELSE profile

(* Dimension by dimension, the driver's before the organisation's.         *)
ResolveLimits(driver, org) ==
  [d \in Dimensions |-> IF driver[d] # Unset THEN driver[d] ELSE org[d]]

(* policy: the switch, the organisation's default profile and each driver's*)
DriverLimits(policy, driver) ==
  IF ~policy.enabled THEN NoLimits
  ELSE ResolveLimits(ProfileLimits(policy.profile[driver], policy.deleted),
                     ProfileLimits(policy.default, policy.deleted))

-----------------------------------------------------------------------------
(* Tier 2.                                                                 *)

(* Mutant: the working time bounds the travel, the driving time the window.*)
SwappedVehicleLimits(limits) ==
  [window_end      |-> LessOf(ShiftWindow, limits.driving),
   max_travel_time |-> limits.working,
   max_distance    |-> limits.distance,
   max_tasks       |-> limits.stops]

VroomVehicleLimits(limits) ==
  [window_end      |-> LessOf(ShiftWindow, limits.working),
   max_travel_time |-> limits.driving,
   max_distance    |-> limits.distance,
   max_tasks       |-> limits.stops]

(* Mutant: the end of the route is not looked at.                          *)
BreachesOnTheRoad(route, limits) ==
  \/ ~Within(route.duration, limits.driving)
  \/ ~Within(route.distance, limits.distance)
  \/ ~Within(route.stops, limits.stops)

(* The backstop for a solver that does not know a field.                   *)
BreachesLimits(route, limits) ==
  \/ ~Within(route.duration, limits.driving)
  \/ ~Within(route.distance, limits.distance)
  \/ ~Within(route.stops, limits.stops)
  \/ ~Within(route.end, limits.working)

-----------------------------------------------------------------------------
(* Diagnostics: what proposed limits would have done to the shifts that    *)
(* have run.  A shift's metrics are its persisted rows: the arrival of its *)
(* end step, its distance, its steps in order (arrival and leg of each).   *)

(* Travel is what is left of the working time without the service.         *)
EstimateDrivingSeconds(working, stops) == Max({0, working - stops * TimePerStop})

Actual(metrics, d) ==
  CASE d = "working"  -> metrics.end
    [] d = "driving"  -> EstimateDrivingSeconds(metrics.end, Len(metrics.steps))
    [] d = "distance" -> metrics.distance
    [] d = "stops"    -> Len(metrics.steps)

(* Mutant: the service counts as driving.                                  *)
BreachedByElapsed(metrics, limits) ==
  {d \in Dimensions : ~Within(IF d = "driving" THEN metrics.end ELSE Actual(metrics, d), limits[d])}

Breached(metrics, limits) == {d \in Dimensions : ~Within(Actual(metrics, d), limits[d])}

(* The running figure at the i-th stop.                                    *)
CumulativeAt(metrics, d, i) ==
  CASE d = "working"  -> metrics.steps[i].arrival
    [] d = "driving"  -> metrics.steps[i].arrival - i * TimePerStop
    [] d = "distance" -> MapThenSumSet(LAMBDA k : metrics.steps[k].leg, 1..i)
    [] d = "stops"    -> i

(* The first stop of those to be placed elsewhere: where the figure first  *)
(* crosses the limit or, if only the way home does, the last one.          *)
AffectedFrom(metrics, limits, d) ==
  LET crossed == {i \in DOMAIN metrics.steps : CumulativeAt(metrics, d, i) > limits[d]} IN
  IF crossed = {} THEN Len(metrics.steps) ELSE Min(crossed)

(* evaluateShiftBreaches: each breached limit with the packages past it.   *)
EvaluateShiftBreaches(metrics, limits) ==
  [d \in Breached(metrics, limits) |->
     [actual   |-> Actual(metrics, d),
      limit    |-> limits[d],
      affected |-> {metrics.steps[i].package : i \in {k \in DOMAIN metrics.steps :
                                                         k >= AffectedFrom(metrics, limits, d)}}]]

(* The rank-interpolated percentile, in hundredths, of a sorted sample.    *)
Percentile(sorted, p) ==
  LET rank  == p * (Len(sorted) - 1)
      lower == 1 + rank \div 100
      upper == Min({lower + 1, Len(sorted)})
  IN  sorted[lower] * (100 - (rank % 100)) + sorted[upper] * (rank % 100)

(* What the dispatcher is told: per dimension a distribution over the      *)
(* shifts that have run, and those the proposal would have breached.       *)
Summary(shifts, metrics, proposed) ==
  LET Sorted(d) == CHOOSE s \in [1..Cardinality(shifts) -> {Actual(metrics[x], d) : x \in shifts}] :
                     /\ \A i \in 2..Cardinality(shifts) : s[i - 1] <= s[i]
                     /\ \A v \in {Actual(metrics[x], d) : x \in shifts} :
                          Cardinality({i \in DOMAIN s : s[i] = v})
                            = Cardinality({x \in shifts : Actual(metrics[x], d) = v})
  IN  [shiftCount   |-> Cardinality(shifts),
       distribution |-> IF shifts = {} THEN Unset
                        ELSE [d \in Dimensions |-> [p \in {50, 90} |-> Percentile(Sorted(d), p)]],
       breaching    |-> [x \in {y \in shifts : Breached(metrics[y], proposed) # {}} |->
                           EvaluateShiftBreaches(metrics[x], proposed)]]
=============================================================================
