------------------------------ MODULE Coverage ------------------------------
(***************************************************************************)
(* Which drivers work the area an address is in, what assignment records   *)
(* of it with every package it places, and the three ways to read that     *)
(* back: the diagnosis of a package, the summary of an organisation, and   *)
(* the counters that are flushed to the metrics.                           *)
(* src/dispatch/coverage.ts, coverage-diagnostics.service.ts,              *)
(* coverage-metrics.service.ts, assignment.service.ts                      *)
(*                                                                         *)
(* A driver stands for himself, his van and his shift of the day.  What    *)
(* room his shift has, and whether it exists, is for Tier1 to say.         *)
(***************************************************************************)
EXTENDS Integers, Sequences, FiniteSets, FiniteSetsExt, Functions

CONSTANTS
  Orgs, Warehouses, Drivers, Areas, Goods, Points,
  WarehouseOrg, DriverHome, AreaOrg,       \* who belongs to what
  Covered,        \* st_covers: the points of an area, its border included
  GoodsAt,         \* the delivery point of a package, Nowhere if not geocoded
  GoodsHome,       \* its warehouse, Nowhere if it has none
  GoodsOrg,
  Needs, Holds,    \* the skills of a package and of a driver's van
  Nowhere,
  Links,           \* bound: the driver_service_area links a dispatcher edits
  Batches,         \* bound: the packages one call assigns
  Pinned,          \* bound: those a dispatcher pins, and that come off again
  LiveAtFirst,     \* bound: what may have been drawn when a history begins
  MaxEdits,        \* bound: edits of the map
  MaxPlacements,   \* bound: over all processes
  MinDecisions,    \* MIN_DECISIONS_BEFORE_ALERT
  AlertRate        \* FALLBACK_RATE_ALERT_THRESHOLD, in per cent

ASSUME CoverageAssumption ==
  /\ WarehouseOrg \in [Warehouses -> Orgs] /\ DriverHome \in [Drivers -> Warehouses]
  /\ AreaOrg \in [Areas -> Orgs] /\ Covered \in [Areas -> SUBSET Points]
  /\ Nowhere \notin Points \cup Warehouses \cup Drivers
  /\ GoodsAt \in [Goods -> Points \cup {Nowhere}]
  /\ GoodsHome \in [Goods -> Warehouses \cup {Nowhere}]
  /\ GoodsOrg \in [Goods -> Orgs]
  /\ \A g \in Goods : GoodsHome[g] # Nowhere => WarehouseOrg[GoodsHome[g]] = GoodsOrg[g]
  \* a territory encloses somebody's door
  /\ Points # {} /\ \A a \in Areas : Covered[a] # {}
  \* the composite foreign keys of driver_service_area
  /\ \A l \in Links : l[1] \in Drivers /\ l[2] \in Areas /\ WarehouseOrg[DriverHome[l[1]]] = AreaOrg[l[2]]
  /\ LiveAtFirst \subseteq SUBSET Areas /\ Batches \subseteq SUBSET Goods /\ Pinned \subseteq Goods
  /\ IsFiniteSet(Drivers) /\ IsFiniteSet(Goods)
  /\ MaxEdits \in Nat /\ MaxPlacements \in Nat /\ MinDecisions \in Nat \ {0} /\ AlertRate \in 0..100

COVERAGE_OUTCOMES ==
  {"covered", "floater", "fallback_no_covering_capacity", "fallback_no_covering_driver", "disabled"}
FALLBACK_OUTCOMES == {"fallback_no_covering_capacity", "fallback_no_covering_driver"}

(* What is counted: placements by outcome, new shifts by the step.         *)
Buckets == COVERAGE_OUTCOMES \cup {"opened_at_step_2", "opened_at_step_4"}

VARIABLES
  map,             \* service_areas and driver_service_area
  row,             \* package_assignment
  made,            \* history: how the placement that stands was decided
  held,            \* coverage an assignment has read and not used yet
  process,         \* is it up, and SERVICE_AREA_MATCHING
  metrics,         \* windows and flushes of CoverageMetricsService
  recorded         \* history: what this process has placed and opened

coverageVars == <<map, row, made, held, process, metrics, recorded>>

NoAssignment == [driver |-> Nowhere, outcome |-> "null"]
NotMade == [driver |-> Nowhere, matching |-> FALSE, explicit |-> {}, floaters |-> {}]
NotHeld == [explicit |-> {Nowhere}, floaters |-> {}]
NoCounts == [o \in Orgs |-> [b \in Buckets |-> 0]]

(* untold: placements committed and not reported to the metrics yet;       *)
(* flushes: those going on at once, numbered, each with the organisations  *)
(* it has still to send.                                                   *)
NewMetrics ==
  [windows |-> NoCounts, flushes |-> [i \in {} |-> NoCounts], sent |-> NoCounts, alerted |-> {},
   untold |-> [g \in Goods |-> <<>>]]

CoverageInit ==
  /\ map \in [live : LiveAtFirst, links : {Links}, edits : {0}]
  /\ row = [g \in Goods |-> NoAssignment]
  /\ made = [g \in Goods |-> NotMade]
  /\ held = [g \in Goods |-> NotHeld]
  /\ process \in [up : {TRUE}, matching : BOOLEAN, placed : {0}]
  /\ metrics = NewMetrics
  /\ recorded = NoCounts

-----------------------------------------------------------------------------
(* The queries.                                                            *)
Eligible(w) == {d \in Drivers : DriverHome[d] = w}

(* Live areas of the organisation that contain the point.                  *)
CoveringAreas(o, point) == {a \in map.live : AreaOrg[a] = o /\ point \in Covered[a]}

(* Mutant: a link to a retired territory makes a driver one with a         *)
(* territory.                                                              *)
UnlinkedDrivers(w) == {d \in Eligible(w) : \A a \in Areas : <<d, a>> \notin map.links}

(* THE FLOATER RULE: a driver with no live service area covers everywhere. *)
Floaters(w) == {d \in Eligible(w) : \A a \in map.live : <<d, a>> \notin map.links}

Explicit(w, areas) == {d \in Eligible(w) : \E a \in areas : <<d, a>> \in map.links}

CoveringDrivers(w, point) ==
  [explicit |-> Explicit(w, CoveringAreas(WarehouseOrg[w], point)), floaters |-> Floaters(w)]

AllDriversAsFloaters(w) == [explicit |-> {}, floaters |-> Eligible(w)]

CoverageForPoint(matching, w, point) ==
  IF matching THEN CoveringDrivers(w, point) ELSE AllDriversAsFloaters(w)

DriverIds(coverage) == coverage.explicit \cup coverage.floaters

CoverageOutcomeFor(matching, coverage, d) ==
  IF ~matching THEN "disabled"
  ELSE IF d \in coverage.explicit THEN "covered"
  ELSE IF d \in coverage.floaters THEN "floater"
  ELSE IF DriverIds(coverage) = {} THEN "fallback_no_covering_driver"
  ELSE "fallback_no_covering_capacity"

-----------------------------------------------------------------------------
(* Placements.                                                             *)
Assignable(g) == row[g] = NoAssignment /\ GoodsAt[g] # Nowhere /\ GoodsHome[g] # Nowhere

(* assign() reads the coverage of one package, assignMany() of a batch; it *)
(* is used later, and for a batch much later.                              *)
ReadCoverage(batch) ==
  /\ process.up
  /\ \A g \in batch : Assignable(g) /\ held[g] = NotHeld
  /\ held' = [g \in Goods |->
                IF g \in batch THEN CoverageForPoint(process.matching, GoodsHome[g], GoodsAt[g])
                ELSE held[g]]
  /\ UNCHANGED <<map, row, made, process, metrics, recorded>>

(* filterBySkills and openShift: the van holds every skill required.       *)
Skilled(g) == {d \in Eligible(GoodsHome[g]) : Needs[g] \subseteq Holds[d]}

(* The drivers a package may go to, and the new shift that takes: one who  *)
(* covers it and has room, a new shift for one who covers it, anybody with *)
(* room, a new shift for anybody; failing all, whoever has victims.        *)
Targets(g, coverage, room, idle) ==
  LET covering == DriverIds(coverage) IN
  CASE room \cap covering # {} -> {<<d, "none">> : d \in room \cap covering}
    [] room \cap covering = {} /\ idle \cap covering # {} ->
         {<<d, "opened_at_step_2">> : d \in idle \cap covering}
    [] (room \cup idle) \cap covering = {} /\ room # {} -> {<<d, "none">> : d \in room}
    [] room = {} /\ idle \cap covering = {} /\ idle # {} -> {<<d, "opened_at_step_4">> : d \in idle}
    [] OTHER -> {<<d, "none">> : d \in Skilled(g)}

(* Mutant: what a writer with nothing to say leaves is null.               *)
Overwritten(old, new) == new

(* COALESCE(EXCLUDED.coverage_outcome, package_assignment.coverage_outcome)*)
Coalesced(old, new) == IF new = "null" THEN old ELSE new

(* upsertAssignments: every stop of the route is written, the outcome of   *)
(* the one being placed alone is not null.                                 *)
Upserted(d, g, outcome) ==
  [h \in Goods |->
     IF h = g THEN [driver |-> d, outcome |-> Coalesced(row[h].outcome, outcome)]
     ELSE IF row[h].driver = d THEN [row[h] EXCEPT !.outcome = Coalesced(@, "null")]
     ELSE row[h]]

Add(counts, o, b, n) == [counts EXCEPT ![o][b] = @ + n]

(* The metrics are told after the commit, one bucket at a time.            *)
Tell(g, told) ==
  /\ metrics' = [metrics EXCEPT !.untold[g] = @ \o told]
  /\ recorded' = [recorded EXCEPT ![GoodsOrg[g]] = [b \in Buckets |-> @[b] + (IF b \in Range(told) THEN 1 ELSE 0)]]

CommitPlacement(g, d, opened, outcome) ==
  /\ row' = Upserted(d, g, outcome)
  /\ made' = [made EXCEPT ![g] = [driver |-> d, matching |-> process.matching,
                                  explicit |-> held[g].explicit, floaters |-> held[g].floaters]]
  /\ Tell(g, IF opened = "none" THEN <<outcome>> ELSE <<outcome, opened>>)

PlaceGoods(g) ==
  /\ process.up /\ held[g] # NotHeld /\ row[g] = NoAssignment /\ process.placed < MaxPlacements
  /\ \E room, idle \in SUBSET Skilled(g) :
       /\ room \cap idle = {}
       /\ \E choice \in Targets(g, held[g], room, idle) :
            CommitPlacement(g, choice[1], choice[2],
                            CoverageOutcomeFor(process.matching, held[g], choice[1]))
  /\ held' = [held EXCEPT ![g] = NotHeld]
  /\ process' = [process EXCEPT !.placed = @ + 1]
  /\ UNCHANGED map

(* No room for it, or somebody else has claimed it meanwhile.              *)
Defer(g) ==
  /\ held[g] # NotHeld
  /\ held' = [held EXCEPT ![g] = NotHeld]
  /\ UNCHANGED <<map, row, made, process, metrics, recorded>>

(* A dispatcher's pin decides nothing about coverage; he is warned.        *)
PinGoods(g, d) ==
  /\ g \in Pinned /\ row[g] = NoAssignment /\ GoodsAt[g] # Nowhere /\ GoodsHome[g] = DriverHome[d]
  /\ row' = Upserted(d, g, "null")
  /\ UNCHANGED <<map, made, held, process, metrics, recorded>>

OutOfArea(matching, g, d) ==
  GoodsAt[g] # Nowhere /\ d \notin DriverIds(CoverageForPoint(matching, GoodsHome[g], GoodsAt[g]))

(* detach: an eviction, a hand edit or a replan that left it over.         *)
DetachGoods(g) ==
  /\ g \in Pinned /\ row[g] # NoAssignment
  /\ row' = [row EXCEPT ![g] = NoAssignment]
  /\ made' = [made EXCEPT ![g] = NotMade]
  /\ UNCHANGED <<map, held, process, metrics, recorded>>

(* A dispatcher draws, retires and un-retires territories, and staffs them.*)
EditMap ==
  /\ map.edits < MaxEdits
  /\ \E a \in Areas, l \in Links :
       map' \in {[map EXCEPT !.live = SymDiff(@, {a}), !.edits = @ + 1],
                 [map EXCEPT !.links = SymDiff(@, {l}), !.edits = @ + 1]}
  /\ UNCHANGED <<row, made, held, process, metrics, recorded>>

-----------------------------------------------------------------------------
(* The metrics.                                                            *)
Empty(window) == \A b \in Buckets : window[b] = 0

Flush(counts) ==
  [windows |-> counts, todo |-> {o \in Orgs : ~Empty(counts[o])}, asking |-> Nowhere]

FreeNumber(flushes) ==
  CHOOSE i \in 1..(Cardinality(DOMAIN flushes) + 1) : i \notin DOMAIN flushes

Begun(flushes, flush) ==
  [i \in DOMAIN flushes \cup {FreeNumber(flushes)} |->
     IF i = FreeNumber(flushes) THEN flush ELSE flushes[i]]

(* Mutant: the window a flush is sending goes on being counted into.       *)
Unswapped(m) == [m EXCEPT !.flushes = Begun(@, Flush(m.windows))]

Swapped(m) == [m EXCEPT !.flushes = Begun(@, Flush(m.windows)), !.windows = NoCounts]

(* recordAssignment, recordShiftOpened: and a flush when a minute is over. *)
Record(g) ==
  /\ metrics.untold[g] # <<>>
  /\ LET counted == [metrics EXCEPT !.windows = Add(@, GoodsOrg[g], Head(metrics.untold[g]), 1),
                                    !.untold[g] = Tail(@)]
     IN  metrics' \in {counted, Swapped(counted)}
  /\ UNCHANGED <<map, row, made, held, process, recorded>>

CoveredOf(window) == window["covered"] + window["floater"]
Fallbacks(window) == window["fallback_no_covering_capacity"] + window["fallback_no_covering_driver"]
Decisions(window) == CoveredOf(window) + Fallbacks(window)

Alarming(window) ==
  /\ Decisions(window) >= MinDecisions
  /\ Fallbacks(window) * 100 > AlertRate * Decisions(window)

Over(flush) == flush.todo = {} /\ flush.asking = Nowhere

Going(flushes) == Restrict(flushes, {i \in DOMAIN flushes : ~Over(flushes[i])})

(* Each organisation is sent and, if its rate is alarming, its territories *)
(* are counted before the next.                                            *)
Emit(i) ==
  /\ metrics.flushes[i].asking = Nowhere
  /\ \E o \in metrics.flushes[i].todo :
       LET flush  == metrics.flushes[i]
           window == flush.windows[o]
           rest   == [flush EXCEPT !.todo = flush.todo \ {o},
                                   !.asking = IF Alarming(window) THEN o ELSE Nowhere]
           sent   == [b \in Buckets |-> metrics.sent[o][b] + window[b]]
       IN  metrics' = [metrics EXCEPT !.flushes = Going([metrics.flushes EXCEPT ![i] = rest]),
                                      !.sent = [metrics.sent EXCEPT ![o] = sent]]
  /\ UNCHANGED <<map, row, made, held, process, recorded>>

LiveAreas(o) == {a \in map.live : AreaOrg[a] = o}

(* An organisation that has drawn nothing is left alone, and one whose     *)
(* count failed.                                                           *)
AlertOnFallbackRate(i) ==
  /\ metrics.flushes[i].asking # Nowhere
  /\ \E alert \in {metrics.flushes[i].asking} :
       metrics' \in {[metrics EXCEPT !.flushes = Going([@ EXCEPT ![i].asking = Nowhere]), !.alerted = told]
                       : told \in {metrics.alerted,
                                   metrics.alerted \cup {o \in {alert} : LiveAreas(o) # {}}}}
  /\ UNCHANGED <<map, row, made, held, process, recorded>>

(* onModuleDestroy: the last window is sent before the process is gone.    *)
Shutdown ==
  /\ process.up /\ held = [g \in Goods |-> NotHeld] /\ \A g \in Goods : metrics.untold[g] = <<>>
  /\ process' = [process EXCEPT !.up = FALSE]
  /\ metrics' = [metrics EXCEPT !.flushes = Going(Swapped(metrics).flushes), !.windows = NoCounts]
  /\ UNCHANGED <<map, row, made, held, recorded>>

(* A new process, with the switch on or off; after a crash what the old    *)
(* one held is lost.                                                       *)
Start ==
  /\ recorded # NoCounts
  /\ process' \in [up : {TRUE}, matching : BOOLEAN, placed : {process.placed}]
  /\ metrics' = NewMetrics
  /\ held' = [g \in Goods |-> NotHeld]
  /\ recorded' = NoCounts
  /\ UNCHANGED <<map, row, made>>

CoverageNext ==
  \/ \E batch \in Batches : ReadCoverage(batch)
  \/ \E g \in Goods : PlaceGoods(g) \/ Defer(g) \/ DetachGoods(g) \/ Record(g)
  \/ \E g \in Goods, d \in Drivers : PinGoods(g, d)
  \/ \E i \in DOMAIN metrics.flushes : Emit(i) \/ AlertOnFallbackRate(i)
  \/ EditMap \/ Shutdown \/ Start

CoverageSpec == CoverageInit /\ [][CoverageNext]_coverageVars

-----------------------------------------------------------------------------
(* What a dispatcher is shown.                                             *)

(* A request names a package or a point, and a point may name a warehouse. *)
ParseRequest(input) ==
  CASE input.package # Nowhere /\ input.point # Nowhere -> "not_both"
    [] input.package # Nowhere /\ input.point = Nowhere /\ input.warehouse # Nowhere ->
         "package_names_warehouse"
    [] input.package # Nowhere /\ input.point = Nowhere /\ input.warehouse = Nowhere -> "package"
    [] input.package = Nowhere /\ input.point = Nowhere -> "neither"
    [] OTHER -> "coordinates"

(* The warehouse asked for, or the only one there is.                      *)
ResolveWarehouse(o, requested) ==
  LET own == {w \in Warehouses : WarehouseOrg[w] = o} IN
  IF requested # Nowhere THEN own \cap {requested}
  ELSE IF Cardinality(own) = 1 THEN own ELSE {}

ResolveSkills(w, required) ==
  LET vans == Eligible(w) IN
  [missing  |-> {s \in required : \A d \in vans : s \notin Holds[d]},
   matching |-> Cardinality({d \in vans : required \subseteq Holds[d]})]

(* How coverage, as it is now, explains the driver a package is with.      *)
ResolveAssignment(d, coverage) ==
  IF d = Nowhere THEN "unassigned"
  ELSE IF d \in coverage.explicit THEN "explicit"
  ELSE IF d \in coverage.floaters THEN "floater"
  ELSE "not_covering"

Staffed(w, area) == Cardinality({d \in Eligible(w) : <<d, area>> \in map.links})

Explain(o, w, areas, coverage) ==
  [territories |-> IF areas # {} THEN "cover_this_point"
                   ELSE IF LiveAreas(o) = {} THEN "none_configured"
                   ELSE "none_covers_this_point",
   drivers     |-> Cardinality(coverage.explicit) + Cardinality(coverage.floaters)]

Evaluated(o, w, point, d, recordedOutcome, required, coverage) ==
  [resolution |-> "evaluated",
   areas      |-> [a \in CoveringAreas(o, point) |-> Staffed(w, a)],
   drivers    |-> coverage,
   matchedBy  |-> ResolveAssignment(d, coverage),
   recorded   |-> recordedOutcome,
   skills     |-> ResolveSkills(w, required),
   explained  |-> Explain(o, w, CoveringAreas(o, point), coverage)]

Unevaluated(resolution, recordedOutcome) ==
  [resolution |-> resolution, matchedBy |-> "unassigned", recorded |-> recordedOutcome]

ExplainPackage(g) ==
  CASE GoodsAt[g] = Nowhere -> Unevaluated("package_not_geocoded", row[g].outcome)
    [] GoodsAt[g] # Nowhere /\ GoodsHome[g] = Nowhere ->
         Unevaluated("package_has_no_warehouse", row[g].outcome)
    [] OTHER -> Evaluated(GoodsOrg[g], GoodsHome[g], GoodsAt[g], row[g].driver, row[g].outcome,
                          Needs[g], CoveringDrivers(GoodsHome[g], GoodsAt[g]))

ExplainCoordinates(o, point, requested) ==
  {Evaluated(o, w, point, Nowhere, "null", {}, CoveringDrivers(w, point)) : w \in ResolveWarehouse(o, requested)}

(* The answers to a request of an organisation; none is an error.          *)
ExplainRequest(o, input) ==
  CASE ParseRequest(input) = "package" ->
         {ExplainPackage(g) : g \in {h \in Goods : h = input.package /\ GoodsOrg[h] = o}}
    [] ParseRequest(input) = "coordinates" -> ExplainCoordinates(o, input.point, input.warehouse)
    [] OTHER -> {}

(* What the rows of the period say of an organisation.                     *)
CountOutcomes(o) ==
  [b \in COVERAGE_OUTCOMES |-> Cardinality({g \in Goods : GoodsOrg[g] = o /\ row[g].outcome = b})]

RecentFallbacks(o) == {g \in Goods : GoodsOrg[g] = o /\ row[g].outcome \in FALLBACK_OUTCOMES}

OrgSummary(o) ==
  LET byOutcome == CountOutcomes(o) IN
  [byOutcome |-> byOutcome,
   decisions |-> Decisions(byOutcome),
   covered   |-> CoveredOf(byOutcome),
   fallbacks |-> RecentFallbacks(o),
   live      |-> Cardinality(LiveAreas(o))]

-----------------------------------------------------------------------------
(* A map nobody at the warehouse is on, be it undrawn, retired or left     *)
(* unstaffed, changes nothing: every driver may be given every address, as *)
(* with the switch off; nobody is ever left who covers nothing at all; and *)
(* what a dispatcher is told of it is so.                                  *)
UnstaffedMapChangesNothing ==
  \A w \in Warehouses :
    LET staffed == {d \in Eligible(w) : \E a \in map.live : <<d, a>> \in map.links} IN
    /\ staffed = {} => \A point \in Points : CoveringDrivers(w, point) = AllDriversAsFloaters(w)
    /\ \A d \in Eligible(w) : \E point \in Points : d \in DriverIds(CoveringDrivers(w, point))
    /\ \A point \in Points : \A e \in ExplainCoordinates(WarehouseOrg[w], point, w) :
         /\ e.explained.drivers = Cardinality(DriverIds(e.drivers))
         /\ e.explained.territories = "none_configured"
              => e.explained.drivers = Cardinality(Eligible(w))

(* The diagnosis of a placement made under the map as it is now agrees     *)
(* with the outcome recorded when it was made, whatever has been written   *)
(* on the route since; what a dispatcher pinned has none; and the summary  *)
(* counts exactly the placements that stand.                               *)
MatchedOutcomes(matchedBy) ==
  CASE matchedBy = "explicit" -> {"covered"}
    [] matchedBy = "floater"  -> {"floater"}
    [] OTHER                  -> FALLBACK_OUTCOMES

DiagnosisAgrees ==
  /\ \A g \in Goods :
       IF made[g] = NotMade THEN ExplainPackage(g).recorded = "null"
       ELSE \A e \in {ExplainPackage(g)} :
              /\ ~made[g].matching => e.recorded = "disabled"
              /\ made[g].matching /\ e.drivers = [explicit |-> made[g].explicit, floaters |-> made[g].floaters]
                   => /\ e.recorded \in MatchedOutcomes(e.matchedBy)
                      /\ e.recorded = "fallback_no_covering_driver" <=> DriverIds(e.drivers) = {}
              /\ e.skills.matching > 0 /\ e.skills.missing = {}
              /\ \A c \in ExplainRequest(GoodsOrg[g], [package |-> Nowhere, point |-> GoodsAt[g],
                                                       warehouse |-> GoodsHome[g]]) :
                   c.drivers = e.drivers /\ c.areas = e.areas
  /\ \A o \in Orgs :
       /\ OrgSummary(o).decisions = Cardinality({g \in Goods : GoodsOrg[g] = o /\ made[g].matching})
       /\ OrgSummary(o).covered + Cardinality(OrgSummary(o).fallbacks) = OrgSummary(o).decisions

(* Every placement and every shift opened is counted once: it is waiting   *)
(* to be reported, or in the window, or in a window being sent, or sent.   *)
(* And nobody is alarmed over a handful of packages.                       *)
Untold(o, b) ==
  UNION {{<<g, i>> : i \in {j \in DOMAIN metrics.untold[g] : metrics.untold[g][j] = b}}
           : g \in {h \in Goods : GoodsOrg[h] = o}}

BeingSent(o, b) ==
  UNION {{<<i, n>> : n \in 1..metrics.flushes[i].windows[o][b]}
           : i \in {j \in DOMAIN metrics.flushes : o \in metrics.flushes[j].todo}}

EveryPlacementCounted ==
  /\ \A o \in Orgs, b \in Buckets :
       recorded[o][b] = Cardinality(Untold(o, b)) + metrics.windows[o][b]
                         + Cardinality(BeingSent(o, b)) + metrics.sent[o][b]
  /\ \A o \in metrics.alerted : Decisions(recorded[o]) >= MinDecisions /\ Fallbacks(recorded[o]) > 0
=============================================================================
