-------------------------- MODULE Planning_proofs --------------------------
(***************************************************************************)
(* What a dispatcher is shown of coverage is so, for any territories,      *)
(* drivers and packages, however often the map is edited, the process      *)
(* restarted and the counters flushed; and what is proved of insertions    *)
(* (Insertion_proofs) holds of the run that checks both.                   *)
(***************************************************************************)
EXTENDS MCPlanning, Insertion_proofs

-----------------------------------------------------------------------------
(* The tables and what an assignment holds.                                *)

MapStates == [live : SUBSET Areas, links : SUBSET Links, edits : Nat]
RowStates == [driver : Drivers \cup {Nowhere}, outcome : COVERAGE_OUTCOMES \cup {"null"}]
MadeStates == [driver : Drivers \cup {Nowhere}, matching : BOOLEAN,
               explicit : SUBSET Drivers, floaters : SUBSET Drivers]
HeldStates == [explicit : SUBSET (Drivers \cup {Nowhere}), floaters : SUBSET Drivers]
ProcessStates == [up : BOOLEAN, matching : BOOLEAN, placed : Nat]

CoverageTyped ==
  /\ map \in MapStates
  /\ row \in [Goods -> RowStates] /\ made \in [Goods -> MadeStates]
  /\ held \in [Goods -> HeldStates]
  /\ process \in ProcessStates

(* Coverage is read of packages with an address and a warehouse.           *)
HeldIsLocated(g) ==
  held[g] # NotHeld => /\ GoodsAt[g] # Nowhere /\ GoodsHome[g] # Nowhere
                       /\ held[g].explicit \subseteq Drivers

(* What the row of a package says is what was decided when it was placed.  *)
RowTellsDecision(g) ==
  /\ row[g] = NoAssignment => made[g] = NotMade
  /\ made[g] = NotMade => row[g].outcome = "null"
  /\ made[g] # NotMade =>
       /\ GoodsAt[g] # Nowhere /\ GoodsHome[g] # Nowhere
       /\ row[g].driver = made[g].driver /\ made[g].driver \in Skilled(g)
       /\ row[g].outcome = CoverageOutcomeFor(made[g].matching,
                             [explicit |-> made[g].explicit, floaters |-> made[g].floaters], made[g].driver)

DecisionsInv ==
  /\ CoverageTyped
  /\ \A g \in Goods : HeldIsLocated(g) /\ RowTellsDecision(g)

LEMMA CoversWithDrivers ==
  ASSUME NEW matching \in BOOLEAN, NEW w, NEW point
  PROVE  CoverageForPoint(matching, w, point) \in [explicit : SUBSET Drivers, floaters : SUBSET Drivers]
BY DEF CoverageForPoint, CoveringDrivers, AllDriversAsFloaters, Explicit, Floaters, Eligible

LEMMA OutcomesAreOutcomes ==
  ASSUME NEW matching, NEW coverage, NEW d
  PROVE  CoverageOutcomeFor(matching, coverage, d) \in COVERAGE_OUTCOMES
BY DEF CoverageOutcomeFor, COVERAGE_OUTCOMES

LEMMA DecisionsInit == CoverageInit => DecisionsInv
<1> SUFFICES ASSUME CoverageInit PROVE DecisionsInv
  OBVIOUS
<1>1. map \in MapStates /\ process \in ProcessStates
  <2>1. /\ map.live \in SUBSET Areas /\ map.links = Links /\ map.edits = 0
        /\ map = [live |-> map.live, links |-> map.links, edits |-> map.edits]
    BY CoverageAssumption DEF CoverageInit
  <2>2. map \in MapStates
    BY <2>1 DEF MapStates
  <2>3. process \in ProcessStates
    <3>1. PICK matching \in BOOLEAN : process = [up |-> TRUE, matching |-> matching, placed |-> 0]
      BY DEF CoverageInit
    <3> QED
      BY <3>1 DEF ProcessStates
  <2> QED
    BY <2>2, <2>3
<1>2. row \in [Goods -> RowStates] /\ made \in [Goods -> MadeStates] /\ held \in [Goods -> HeldStates]
  BY DEF CoverageInit, RowStates, MadeStates, HeldStates, NoAssignment, NotMade, NotHeld
<1>3. CoverageTyped
  BY <1>1, <1>2 DEF CoverageTyped
<1>4. \A g \in Goods : HeldIsLocated(g) /\ RowTellsDecision(g)
  BY DEF CoverageInit, HeldIsLocated, RowTellsDecision, NoAssignment
<1> QED
  BY <1>3, <1>4 DEF DecisionsInv

(* What leaves the tables and the process alone leaves DecisionsInv alone. *)
LEMMA SameDecisions == DecisionsInv /\ UNCHANGED <<map, row, made, held, process>> => DecisionsInv'
BY DEF DecisionsInv, CoverageTyped, HeldIsLocated, RowTellsDecision, Skilled, Eligible

(* The rows and the decisions stand; what is held may change.              *)
LEMMA OnlyHeldChanges ==
  ASSUME DecisionsInv, UNCHANGED <<row, made>>,
         map' \in MapStates, process' \in ProcessStates, held' \in [Goods -> HeldStates],
         \A g \in Goods : HeldIsLocated(g)'
  PROVE  DecisionsInv'
BY DEF DecisionsInv, CoverageTyped, RowTellsDecision, Skilled, Eligible

LEMMA ReadKeeps ==
  ASSUME DecisionsInv, NEW batch \in SUBSET Goods, ReadCoverage(batch)
  PROVE  DecisionsInv'
<1>1. process.matching \in BOOLEAN
  BY DEF DecisionsInv, CoverageTyped, ProcessStates
<1>2. held' \in [Goods -> HeldStates]
  BY <1>1, CoversWithDrivers DEF ReadCoverage, DecisionsInv, CoverageTyped, HeldStates
<1>3. \A g \in Goods : HeldIsLocated(g)'
  BY <1>1, CoversWithDrivers DEF ReadCoverage, Assignable, DecisionsInv, HeldIsLocated
<1> QED
  BY <1>2, <1>3, OnlyHeldChanges DEF ReadCoverage, DecisionsInv, CoverageTyped

LEMMA DeferKeeps ==
  ASSUME DecisionsInv, NEW g \in Goods, Defer(g)
  PROVE  DecisionsInv'
<1>1. held' \in [Goods -> HeldStates]
  BY DEF Defer, DecisionsInv, CoverageTyped, HeldStates, NotHeld
<1>2. \A h \in Goods : HeldIsLocated(h)'
  BY DEF Defer, DecisionsInv, HeldIsLocated, CoverageTyped
<1> QED
  BY <1>1, <1>2, OnlyHeldChanges DEF Defer, DecisionsInv, CoverageTyped

LEMMA EditKeeps == DecisionsInv /\ EditMap => DecisionsInv'
<1> SUFFICES ASSUME DecisionsInv, EditMap PROVE DecisionsInv'
  OBVIOUS
<1>1. map' \in MapStates
  <2>1. PICK a \in Areas, l \in Links :
          map' \in {[map EXCEPT !.live = SymDiff(@, {a}), !.edits = @ + 1],
                    [map EXCEPT !.links = SymDiff(@, {l}), !.edits = @ + 1]}
    BY DEF EditMap
  <2>2. map \in MapStates
    BY DEF DecisionsInv, CoverageTyped
  <2>4. PICK live \in SUBSET Areas, links \in SUBSET Links, edits \in Nat :
          map = [live |-> live, links |-> links, edits |-> edits]
    BY <2>2 DEF MapStates
  <2>5. \/ map' = [live |-> SymDiff(live, {a}), links |-> links, edits |-> edits + 1]
        \/ map' = [live |-> live, links |-> SymDiff(links, {l}), edits |-> edits + 1]
    BY <2>1, <2>4
  <2>6. SymDiff(live, {a}) \in SUBSET Areas /\ SymDiff(links, {l}) \in SUBSET Links /\ edits + 1 \in Nat
    BY DEF SymDiff
  <2> QED
    <3>1. PICK live2 \in SUBSET Areas, links2 \in SUBSET Links, edits2 \in Nat :
            map' = [live |-> live2, links |-> links2, edits |-> edits2]
      BY <2>5, <2>6
    <3> QED
      BY <3>1 DEF MapStates
<1>2. \A h \in Goods : HeldIsLocated(h)'
  BY DEF EditMap, DecisionsInv, HeldIsLocated
<1> QED
  BY <1>1, <1>2, OnlyHeldChanges DEF EditMap, DecisionsInv, CoverageTyped

LEMMA StartKeeps == DecisionsInv /\ (Start \/ Shutdown) => DecisionsInv'
<1> SUFFICES ASSUME DecisionsInv, Start \/ Shutdown PROVE DecisionsInv'
  OBVIOUS
<1>1. held' \in [Goods -> HeldStates]
  <2>1. NotHeld \in HeldStates
    BY DEF HeldStates, NotHeld
  <2> QED
    BY <2>1 DEF Start, Shutdown, DecisionsInv, CoverageTyped
<1>2. process' \in ProcessStates
  BY DEF Start, Shutdown, DecisionsInv, CoverageTyped, ProcessStates
<1>3. \A h \in Goods : HeldIsLocated(h)'
  BY DEF Start, Shutdown, DecisionsInv, HeldIsLocated, NotHeld
<1> QED
  BY <1>1, <1>2, <1>3, OnlyHeldChanges DEF Start, Shutdown, DecisionsInv, CoverageTyped

(* An upsert writes the outcome of the package being placed, and what it   *)
(* writes on the rest of the route says nothing.                           *)
LEMMA UpsertKeepsRest ==
  ASSUME DecisionsInv, NEW g \in Goods, NEW d \in Drivers,
         NEW outcome \in COVERAGE_OUTCOMES \cup {"null"}, row[g] = NoAssignment
  PROVE  /\ Upserted(d, g, outcome) \in [Goods -> RowStates]
         /\ \A h \in Goods \ {g} : Upserted(d, g, outcome)[h] = row[h]
         /\ Upserted(d, g, outcome)[g] = [driver |-> d, outcome |-> outcome]
BY DEF DecisionsInv, CoverageTyped, Upserted, Coalesced, RowStates, NoAssignment

LEMMA TargetsAreSkilled ==
  ASSUME NEW g, NEW coverage, NEW room \in SUBSET Skilled(g), NEW idle \in SUBSET Skilled(g),
         NEW choice \in Targets(g, coverage, room, idle)
  PROVE  /\ choice[1] \in Skilled(g)
         /\ choice[2] \in {"none", "opened_at_step_2", "opened_at_step_4"}
<1> DEFINE covering == DriverIds(coverage)
<1>1. \/ choice \in {<<d, "none">> : d \in room \cap covering}
      \/ choice \in {<<d, "opened_at_step_2">> : d \in idle \cap covering}
      \/ choice \in {<<d, "none">> : d \in room}
      \/ choice \in {<<d, "opened_at_step_4">> : d \in idle}
      \/ choice \in {<<d, "none">> : d \in Skilled(g)}
  <2> HIDE DEF covering
  <2> QED
    BY DEF Targets, covering
<1> QED
  BY <1>1

LEMMA PlaceKeeps ==
  ASSUME DecisionsInv, NEW g \in Goods, PlaceGoods(g)
  PROVE  DecisionsInv'
<1>1. PICK d \in Skilled(g), opened \in {"none", "opened_at_step_2", "opened_at_step_4"} :
        CommitPlacement(g, d, opened, CoverageOutcomeFor(process.matching, held[g], d))
  BY TargetsAreSkilled DEF PlaceGoods
<1>2. PICK outcome : outcome = CoverageOutcomeFor(process.matching, held[g], d)
  OBVIOUS
<1>3. d \in Drivers /\ outcome \in COVERAGE_OUTCOMES /\ row[g] = NoAssignment /\ held[g] # NotHeld
  BY <1>1, <1>2, OutcomesAreOutcomes DEF Skilled, Eligible, PlaceGoods
<1>4. row' = Upserted(d, g, outcome)
  BY <1>1, <1>2 DEF CommitPlacement
<1>5. /\ row' \in [Goods -> RowStates]
      /\ \A h \in Goods \ {g} : row'[h] = row[h]
      /\ row'[g] = [driver |-> d, outcome |-> outcome]
  BY <1>3, <1>4, UpsertKeepsRest
<1>6. /\ held[g] \in [explicit : SUBSET Drivers, floaters : SUBSET Drivers]
      /\ GoodsAt[g] # Nowhere /\ GoodsHome[g] # Nowhere
  BY <1>3 DEF DecisionsInv, HeldIsLocated, CoverageTyped, HeldStates
<1>7. process.matching \in BOOLEAN
  BY DEF DecisionsInv, CoverageTyped, ProcessStates
<1>8. made' = [made EXCEPT ![g] = [driver |-> d, matching |-> process.matching,
                                  explicit |-> held[g].explicit, floaters |-> held[g].floaters]]
  BY <1>1 DEF CommitPlacement
<1>9. made' \in [Goods -> MadeStates]
  BY <1>3, <1>6, <1>7, <1>8 DEF DecisionsInv, CoverageTyped, MadeStates
<1>10. held' = [held EXCEPT ![g] = NotHeld] /\ held' \in [Goods -> HeldStates]
  BY DEF PlaceGoods, DecisionsInv, CoverageTyped, HeldStates, NotHeld
<1>11. process' \in ProcessStates /\ UNCHANGED map
  BY DEF PlaceGoods, DecisionsInv, CoverageTyped, ProcessStates
<1>12. CoverageTyped'
  BY <1>5, <1>9, <1>10, <1>11 DEF DecisionsInv, CoverageTyped
<1>13. \A h \in Goods : HeldIsLocated(h)'
  BY <1>10 DEF DecisionsInv, CoverageTyped, HeldIsLocated
<1>14. \A h \in Goods \ {g} : RowTellsDecision(h)'
  BY <1>5, <1>8 DEF DecisionsInv, CoverageTyped, RowTellsDecision, Skilled, Eligible
<1>15. RowTellsDecision(g)'
  <2>1. made'[g] = [driver |-> d, matching |-> process.matching,
                    explicit |-> held[g].explicit, floaters |-> held[g].floaters]
    BY <1>8 DEF DecisionsInv, CoverageTyped
  <2>2. d # Nowhere /\ made'[g] # NotMade /\ row'[g] # NoAssignment
    BY <1>3, <1>5, <2>1, CoverageAssumption DEF NotMade, NoAssignment
  <2>3. outcome = CoverageOutcomeFor(made'[g].matching,
                    [explicit |-> made'[g].explicit, floaters |-> made'[g].floaters], made'[g].driver)
    BY <1>2, <1>6, <2>1
  <2>4. row'[g].driver = made'[g].driver /\ made'[g].driver \in Skilled(g) /\ row'[g].outcome = outcome
    BY <1>1, <1>5, <2>1
  <2> QED
    BY <1>6, <2>2, <2>3, <2>4 DEF RowTellsDecision, Skilled, Eligible, CoverageOutcomeFor, DriverIds
<1> QED
  BY <1>12, <1>13, <1>14, <1>15 DEF DecisionsInv

LEMMA PinKeeps ==
  ASSUME DecisionsInv, NEW g \in Goods, NEW d \in Drivers, PinGoods(g, d)
  PROVE  DecisionsInv'
<1>1. row' = Upserted(d, g, "null") /\ row[g] = NoAssignment
  BY DEF PinGoods
<1>2. /\ row' \in [Goods -> RowStates]
      /\ \A h \in Goods \ {g} : row'[h] = row[h]
      /\ row'[g] = [driver |-> d, outcome |-> "null"]
  BY <1>1, UpsertKeepsRest
<1>3. UNCHANGED <<map, made, held, process>>
  BY DEF PinGoods
<1>4. CoverageTyped' /\ \A h \in Goods : HeldIsLocated(h)'
  BY <1>2, <1>3 DEF DecisionsInv, CoverageTyped, HeldIsLocated
<1>5. made[g] = NotMade
  BY <1>1 DEF DecisionsInv, RowTellsDecision
<1>6. \A h \in Goods : RowTellsDecision(h)'
  BY <1>2, <1>3, <1>5 DEF DecisionsInv, RowTellsDecision, Skilled, Eligible
<1> QED
  BY <1>4, <1>6 DEF DecisionsInv

LEMMA DetachKeeps ==
  ASSUME DecisionsInv, NEW g \in Goods, DetachGoods(g)
  PROVE  DecisionsInv'
<1>1. CoverageTyped'
  BY CoverageAssumption
  DEF DetachGoods, DecisionsInv, CoverageTyped, RowStates, MadeStates, NoAssignment, NotMade
<1>2. \A h \in Goods : HeldIsLocated(h)'
  BY DEF DetachGoods, DecisionsInv, HeldIsLocated
<1>3. \A h \in Goods : RowTellsDecision(h)'
  BY DEF DetachGoods, DecisionsInv, CoverageTyped, RowTellsDecision, NoAssignment, Skilled, Eligible
<1> QED
  BY <1>1, <1>2, <1>3 DEF DecisionsInv

LEMMA DecisionsStep == DecisionsInv /\ [CoverageNext]_coverageVars => DecisionsInv'
<1> SUFFICES ASSUME DecisionsInv, [CoverageNext]_coverageVars PROVE DecisionsInv'
  OBVIOUS
<1>1. CASE \E batch \in Batches : ReadCoverage(batch)
  BY <1>1, ReadKeeps, CoverageAssumption
<1>2. CASE \E g \in Goods : PlaceGoods(g) \/ Defer(g) \/ DetachGoods(g)
  BY <1>2, PlaceKeeps, DeferKeeps, DetachKeeps
<1>3. CASE \E g \in Goods, d \in Drivers : PinGoods(g, d)
  BY <1>3, PinKeeps
<1>4. CASE (\E g \in Goods : Record(g)) \/ (\E i \in DOMAIN metrics.flushes : Emit(i) \/ AlertOnFallbackRate(i))
  BY <1>4, SameDecisions DEF Record, Emit, AlertOnFallbackRate
<1>5. CASE EditMap \/ Shutdown \/ Start
  BY <1>5, EditKeeps, StartKeeps
<1>6. CASE UNCHANGED coverageVars
  BY <1>6, SameDecisions DEF coverageVars
<1> QED
  BY <1>1, <1>2, <1>3, <1>4, <1>5, <1>6 DEF CoverageNext

LEMMA DecisionsInvariance == CoverageSpec => []DecisionsInv
BY DecisionsInit, DecisionsStep, PTL DEF CoverageSpec

-----------------------------------------------------------------------------
(* What the diagnostics say of it.                                         *)

LEMMA LocatedEvaluated ==
  ASSUME NEW g \in Goods, GoodsAt[g] # Nowhere, GoodsHome[g] # Nowhere
  PROVE  ExplainPackage(g) =
           Evaluated(GoodsOrg[g], GoodsHome[g], GoodsAt[g], row[g].driver, row[g].outcome,
                     Needs[g], CoveringDrivers(GoodsHome[g], GoodsAt[g]))
BY DEF ExplainPackage

LEMMA RecordedIsRow ==
  ASSUME NEW g \in Goods
  PROVE  ExplainPackage(g).recorded = row[g].outcome
BY DEF ExplainPackage, Evaluated, Unevaluated

(* The same address asked of by itself is explained alike.                 *)
LEMMA CoordinatesExplainedAlike ==
  ASSUME NEW g \in Goods, GoodsAt[g] # Nowhere, GoodsHome[g] # Nowhere,
         NEW c \in ExplainRequest(GoodsOrg[g], [package |-> Nowhere, point |-> GoodsAt[g],
                                                warehouse |-> GoodsHome[g]])
  PROVE  /\ c.drivers = CoveringDrivers(GoodsHome[g], GoodsAt[g])
         /\ c.areas = [a \in CoveringAreas(GoodsOrg[g], GoodsAt[g]) |-> Staffed(GoodsHome[g], a)]
<1>1. PICK input : input = [package |-> Nowhere, point |-> GoodsAt[g], warehouse |-> GoodsHome[g]]
  OBVIOUS
<1>2. input.package = Nowhere /\ input.point = GoodsAt[g] /\ input.warehouse = GoodsHome[g]
  BY <1>1
<1>3. ParseRequest(input) = "coordinates"
  BY <1>2 DEF ParseRequest
<1>4. c \in ExplainRequest(GoodsOrg[g], input)
  BY <1>1
<1>5. c \in ExplainCoordinates(GoodsOrg[g], GoodsAt[g], GoodsHome[g])
  BY <1>2, <1>3, <1>4 DEF ExplainRequest
<1>6. ResolveWarehouse(GoodsOrg[g], GoodsHome[g]) \subseteq {GoodsHome[g]}
  BY DEF ResolveWarehouse
<1>7. c = Evaluated(GoodsOrg[g], GoodsHome[g], GoodsAt[g], Nowhere, "null", {},
                    CoveringDrivers(GoodsHome[g], GoodsAt[g]))
  BY <1>5, <1>6 DEF ExplainCoordinates
<1> QED
  BY <1>7 DEF Evaluated

LEMMA DriversAreFinite ==
  ASSUME NEW D \in SUBSET Drivers
  PROVE  IsFiniteSet(D) /\ Cardinality(D) \in Nat /\ (Cardinality(D) = 0 <=> D = {})
<1>1. IsFiniteSet(D)
  BY CoverageAssumption, FS_Subset
<1> QED
  BY <1>1, FS_CardinalityType, FS_EmptySet

(* Whoever a package was placed with is one of the vans that fit.          *)
LEMMA SkillsWereThere ==
  ASSUME NEW g \in Goods, NEW d \in Skilled(g)
  PROVE  LET skills == ResolveSkills(GoodsHome[g], Needs[g]) IN skills.matching > 0 /\ skills.missing = {}
<1>1. Skilled(g) \subseteq Drivers /\ Skilled(g) # {}
  BY DEF Skilled, Eligible
<1>2. Cardinality(Skilled(g)) > 0
  BY <1>1, DriversAreFinite
<1>3. ResolveSkills(GoodsHome[g], Needs[g]).matching = Cardinality(Skilled(g))
  BY DEF ResolveSkills, Skilled
<1>4. ResolveSkills(GoodsHome[g], Needs[g]).missing = {}
  BY DEF ResolveSkills, Skilled
<1> QED
  BY <1>2, <1>3, <1>4

LEMMA MatchedAsRecorded ==
  ASSUME NEW coverage, NEW d, d # Nowhere
  PROVE  /\ CoverageOutcomeFor(TRUE, coverage, d) \in MatchedOutcomes(ResolveAssignment(d, coverage))
         /\ CoverageOutcomeFor(TRUE, coverage, d) = "fallback_no_covering_driver" <=> DriverIds(coverage) = {}
<1>1. d \in coverage.explicit \/ d \in coverage.floaters => DriverIds(coverage) # {}
  BY DEF DriverIds
<1>2. CASE d \in coverage.explicit
  BY <1>1, <1>2 DEF CoverageOutcomeFor, MatchedOutcomes, ResolveAssignment
<1>3. CASE d \notin coverage.explicit /\ d \in coverage.floaters
  BY <1>1, <1>3 DEF CoverageOutcomeFor, MatchedOutcomes, ResolveAssignment
<1>4. CASE d \notin coverage.explicit /\ d \notin coverage.floaters
  BY <1>4 DEF CoverageOutcomeFor, MatchedOutcomes, ResolveAssignment, FALLBACK_OUTCOMES
<1> QED
  BY <1>2, <1>3, <1>4

PackageDiagnosed(g) ==
  IF made[g] = NotMade THEN ExplainPackage(g).recorded = "null"
  ELSE \A e \in {ExplainPackage(g)} :
         /\ ~made[g].matching => e.recorded = "disabled"
         /\ made[g].matching /\ e.drivers = [explicit |-> made[g].explicit, floaters |-> made[g].floaters]
              => /\ e.recorded \in MatchedOutcomes(e.matchedBy)
                 /\ e.recorded = "fallback_no_covering_driver" <=> DriverIds(e.drivers) = {}
         /\ e.skills.matching > 0 /\ e.skills.missing = {}
         /\ \A c \in ExplainRequest(GoodsOrg[g], [package |-> Nowhere, point |-> GoodsAt[g],
                                                  warehouse |-> GoodsHome[g]]) :
              c.drivers = e.drivers /\ c.areas = e.areas

LEMMA PackagesAreDiagnosed ==
  ASSUME DecisionsInv, NEW g \in Goods
  PROVE  PackageDiagnosed(g)
<1>1. CASE made[g] = NotMade
  BY <1>1, RecordedIsRow DEF DecisionsInv, RowTellsDecision, PackageDiagnosed
<1>2. CASE made[g] # NotMade
  <2>1. PICK now, d, e : /\ now = CoveringDrivers(GoodsHome[g], GoodsAt[g])
                         /\ d = made[g].driver
                         /\ e = ExplainPackage(g)
    OBVIOUS
  <2>2. /\ GoodsAt[g] # Nowhere /\ GoodsHome[g] # Nowhere
        /\ row[g].driver = d /\ d \in Skilled(g)
        /\ row[g].outcome = CoverageOutcomeFor(made[g].matching,
                              [explicit |-> made[g].explicit, floaters |-> made[g].floaters], d)
    BY <1>2, <2>1 DEF DecisionsInv, RowTellsDecision
  <2>3. d # Nowhere /\ made[g].matching \in BOOLEAN
    BY <2>2, CoverageAssumption DEF Skilled, Eligible, DecisionsInv, CoverageTyped, MadeStates
  <2>4. e = Evaluated(GoodsOrg[g], GoodsHome[g], GoodsAt[g], d, row[g].outcome, Needs[g], now)
    BY <2>1, <2>2, LocatedEvaluated
  <2>5. /\ e.recorded = row[g].outcome /\ e.drivers = now
        /\ e.matchedBy = ResolveAssignment(d, now)
        /\ e.skills = ResolveSkills(GoodsHome[g], Needs[g])
        /\ e.areas = [a \in CoveringAreas(GoodsOrg[g], GoodsAt[g]) |-> Staffed(GoodsHome[g], a)]
    BY <2>4 DEF Evaluated
  <2>6. ~made[g].matching => e.recorded = "disabled"
    <3> SUFFICES ASSUME ~made[g].matching PROVE row[g].outcome = "disabled"
      BY <2>5
    <3>1. made[g].matching = FALSE
      BY <2>3
    <3>2. PICK coverage : row[g].outcome = CoverageOutcomeFor(FALSE, coverage, d)
      BY <2>2, <3>1
    <3> QED
      BY <3>2 DEF CoverageOutcomeFor
  <2>7. ASSUME made[g].matching, e.drivers = [explicit |-> made[g].explicit, floaters |-> made[g].floaters]
        PROVE  /\ e.recorded \in MatchedOutcomes(e.matchedBy)
               /\ e.recorded = "fallback_no_covering_driver" <=> DriverIds(e.drivers) = {}
    <3>1. made[g].matching = TRUE
      BY <2>3, <2>7
    <3>2. e.recorded = CoverageOutcomeFor(TRUE, now, d)
      BY <2>2, <2>5, <2>7, <3>1
    <3> QED
      BY ZenonT(60), <2>3, <2>5, <3>2, MatchedAsRecorded
  <2>8. e.skills.matching > 0 /\ e.skills.missing = {}
    BY <2>2, <2>5, SkillsWereThere
  <2>9. \A c \in ExplainRequest(GoodsOrg[g], [package |-> Nowhere, point |-> GoodsAt[g],
                                              warehouse |-> GoodsHome[g]]) :
          c.drivers = e.drivers /\ c.areas = e.areas
    BY <2>1, <2>2, <2>5, CoordinatesExplainedAlike
  <2> QED
    BY <1>2, <2>1, <2>6, <2>7, <2>8, <2>9 DEF PackageDiagnosed
<1> QED
  BY <1>1, <1>2

-----------------------------------------------------------------------------
(* The summary of an organisation.                                         *)

LEMMA DisjointUnion ==
  ASSUME NEW A, NEW B, IsFiniteSet(A), IsFiniteSet(B), A \cap B = {}
  PROVE  IsFiniteSet(A \cup B) /\ Cardinality(A \cup B) = Cardinality(A) + Cardinality(B)
<1>1. Cardinality(A) \in Nat /\ Cardinality(B) \in Nat /\ Cardinality(A \cap B) = 0
  BY FS_EmptySet, FS_CardinalityType
<1>2. IsFiniteSet(A \cup B) /\ Cardinality(A \cup B) = Cardinality(A) + Cardinality(B) - Cardinality(A \cap B)
  BY FS_Union
<1> QED
  BY <1>1, <1>2

With(o, outcome) == {g \in Goods : GoodsOrg[g] = o /\ row[g].outcome = outcome}

LEMMA SummaryCounts ==
  ASSUME DecisionsInv, NEW o \in Orgs
  PROVE  /\ OrgSummary(o).decisions = Cardinality({g \in Goods : GoodsOrg[g] = o /\ made[g].matching})
         /\ OrgSummary(o).covered + Cardinality(OrgSummary(o).fallbacks) = OrgSummary(o).decisions
<1>1. \A outcome : IsFiniteSet(With(o, outcome)) /\ Cardinality(With(o, outcome)) \in Nat
  <2>1. \A outcome : With(o, outcome) \in SUBSET Goods
    BY DEF With
  <2> QED
    BY <2>1, CoverageAssumption, FS_Subset, FS_CardinalityType
<1>2. PICK C, F, N, D : /\ C = With(o, "covered") /\ F = With(o, "floater")
                        /\ N = With(o, "fallback_no_covering_capacity")
                        /\ D = With(o, "fallback_no_covering_driver")
  OBVIOUS
<1>3. /\ IsFiniteSet(C) /\ IsFiniteSet(F) /\ IsFiniteSet(N) /\ IsFiniteSet(D)
      /\ Cardinality(C) \in Nat /\ Cardinality(F) \in Nat /\ Cardinality(N) \in Nat /\ Cardinality(D) \in Nat
  BY <1>1, <1>2
<1>4. C \cap F = {} /\ N \cap D = {} /\ (C \cup F) \cap (N \cup D) = {}
  BY <1>2 DEF With
<1>5. IsFiniteSet(C \cup F) /\ Cardinality(C \cup F) = Cardinality(C) + Cardinality(F)
  BY <1>3, <1>4, DisjointUnion
<1>6. IsFiniteSet(N \cup D) /\ Cardinality(N \cup D) = Cardinality(N) + Cardinality(D)
  BY <1>3, <1>4, DisjointUnion
<1>7. Cardinality((C \cup F) \cup (N \cup D)) = Cardinality(C \cup F) + Cardinality(N \cup D)
  BY <1>4, <1>5, <1>6, DisjointUnion
<1>8. \A g \in Goods : made[g].matching <=>
        row[g].outcome \in {"covered", "floater", "fallback_no_covering_capacity", "fallback_no_covering_driver"}
  <2> SUFFICES ASSUME NEW g \in Goods
               PROVE made[g].matching <=> row[g].outcome \in
                 {"covered", "floater", "fallback_no_covering_capacity", "fallback_no_covering_driver"}
    OBVIOUS
  <2>1. CASE made[g] = NotMade
    <3>1. made[g].matching = FALSE
      BY <2>1 DEF NotMade
    <3>2. row[g].outcome = "null"
      BY <2>1 DEF DecisionsInv, RowTellsDecision
    <3> QED
      BY <3>1, <3>2
  <2>2. CASE made[g] # NotMade
    <3>1. PICK coverage, d : row[g].outcome = CoverageOutcomeFor(made[g].matching, coverage, d)
      BY <2>2 DEF DecisionsInv, RowTellsDecision
    <3>2. made[g].matching = TRUE \/ made[g].matching = FALSE
      BY DEF DecisionsInv, CoverageTyped, MadeStates
    <3>3. CASE made[g].matching = TRUE
      <4>1. row[g].outcome = CoverageOutcomeFor(TRUE, coverage, d)
        BY <3>1, <3>3
      <4> QED
        BY <3>3, <4>1 DEF CoverageOutcomeFor
    <3>4. CASE made[g].matching = FALSE
      <4>1. row[g].outcome = CoverageOutcomeFor(FALSE, coverage, d)
        BY <3>1, <3>4
      <4> QED
        BY <3>4, <4>1 DEF CoverageOutcomeFor
    <3> QED
      BY <3>2, <3>3, <3>4
  <2> QED
    BY <2>1, <2>2
<1>9. (C \cup F) \cup (N \cup D) = {g \in Goods : GoodsOrg[g] = o /\ made[g].matching}
  BY <1>2, <1>8 DEF With
<1>10. CountOutcomes(o) = [b \in COVERAGE_OUTCOMES |-> Cardinality(With(o, b))]
  BY DEF CountOutcomes, With
<1>11. /\ CoveredOf(CountOutcomes(o)) = Cardinality(C) + Cardinality(F)
       /\ Fallbacks(CountOutcomes(o)) = Cardinality(N) + Cardinality(D)
  BY <1>2, <1>10 DEF CoveredOf, Fallbacks, COVERAGE_OUTCOMES
<1>12. RecentFallbacks(o) = N \cup D
  BY <1>2 DEF RecentFallbacks, FALLBACK_OUTCOMES, With
<1>13. /\ OrgSummary(o).decisions = CoveredOf(CountOutcomes(o)) + Fallbacks(CountOutcomes(o))
       /\ OrgSummary(o).covered = CoveredOf(CountOutcomes(o))
       /\ OrgSummary(o).fallbacks = RecentFallbacks(o)
  BY DEF OrgSummary, Decisions
<1> QED
  BY <1>3, <1>5, <1>6, <1>7, <1>9, <1>11, <1>12, <1>13

LEMMA DecisionsAreDiagnosed == DecisionsInv => DiagnosisAgrees
<1> SUFFICES ASSUME DecisionsInv PROVE DiagnosisAgrees
  OBVIOUS
<1>1. \A g \in Goods : PackageDiagnosed(g)
  BY PackagesAreDiagnosed
<1>2. \A o \in Orgs :
        /\ OrgSummary(o).decisions = Cardinality({g \in Goods : GoodsOrg[g] = o /\ made[g].matching})
        /\ OrgSummary(o).covered + Cardinality(OrgSummary(o).fallbacks) = OrgSummary(o).decisions
  BY SummaryCounts
<1> QED
  BY <1>1, <1>2 DEF DiagnosisAgrees, PackageDiagnosed

-----------------------------------------------------------------------------
(* The floater rule.                                                       *)

(* A driver is staffed on territories of his own organisation.             *)
LEMMA LinksAreOwn ==
  ASSUME DecisionsInv, NEW d, NEW a, <<d, a>> \in map.links
  PROVE  d \in Drivers /\ a \in Areas /\ WarehouseOrg[DriverHome[d]] = AreaOrg[a]
<1>1. <<d, a>> \in Links
  BY DEF DecisionsInv, CoverageTyped, MapStates
<1> QED
  BY <1>1, CoverageAssumption

LEMMA UnstaffedByRule == DecisionsInv => UnstaffedMapChangesNothing
<1> SUFFICES ASSUME DecisionsInv, NEW w \in Warehouses
             PROVE  LET staffed == {d \in Eligible(w) : \E a \in map.live : <<d, a>> \in map.links} IN
      /\ staffed = {} => \A point \in Points : CoveringDrivers(w, point) = AllDriversAsFloaters(w)
      /\ \A d \in Eligible(w) : \E point \in Points : d \in DriverIds(CoveringDrivers(w, point))
      /\ \A point \in Points : \A e \in ExplainCoordinates(WarehouseOrg[w], point, w) :
           /\ e.explained.drivers = Cardinality(DriverIds(e.drivers))
           /\ e.explained.territories = "none_configured" => e.explained.drivers = Cardinality(Eligible(w))
  BY DEF UnstaffedMapChangesNothing
<1>1. map.live \subseteq Areas /\ \A a \in map.live : Covered[a] # {} /\ Covered[a] \subseteq Points
  BY CoverageAssumption DEF DecisionsInv, CoverageTyped, MapStates
<1>2. ASSUME ~ \E d \in Eligible(w) : \E a \in map.live : <<d, a>> \in map.links, NEW point
      PROVE  CoveringDrivers(w, point) = AllDriversAsFloaters(w)
  <2>1. Floaters(w) = Eligible(w) /\ Explicit(w, CoveringAreas(WarehouseOrg[w], point)) = {}
    BY <1>2 DEF Floaters, Explicit, CoveringAreas
  <2> QED
    BY <2>1 DEF CoveringDrivers, AllDriversAsFloaters
<1>3. ASSUME NEW d \in Eligible(w)
      PROVE  \E point \in Points : d \in DriverIds(CoveringDrivers(w, point))
  <2>1. CASE \E a \in map.live : <<d, a>> \in map.links
    <3>1. PICK a \in map.live : <<d, a>> \in map.links
      BY <2>1
    <3>2. PICK point \in Points : point \in Covered[a]
      BY <1>1
    <3>3. AreaOrg[a] = WarehouseOrg[w]
      BY <3>1, LinksAreOwn DEF Eligible
    <3>4. d \in Explicit(w, CoveringAreas(WarehouseOrg[w], point))
      BY <3>1, <3>2, <3>3 DEF Explicit, CoveringAreas
    <3> QED
      BY <3>4 DEF DriverIds, CoveringDrivers
  <2>2. CASE \A a \in map.live : <<d, a>> \notin map.links
    BY <2>2, CoverageAssumption DEF DriverIds, CoveringDrivers, Floaters
  <2> QED
    BY <2>1, <2>2
<1>4. ASSUME NEW point \in Points, NEW e \in ExplainCoordinates(WarehouseOrg[w], point, w)
      PROVE  /\ e.explained.drivers = Cardinality(DriverIds(e.drivers))
             /\ e.explained.territories = "none_configured" => e.explained.drivers = Cardinality(Eligible(w))
  <2>1. ResolveWarehouse(WarehouseOrg[w], w) = {w}
    BY CoverageAssumption DEF ResolveWarehouse
  <2>2. PICK o, now : o = WarehouseOrg[w] /\ now = CoveringDrivers(w, point)
    OBVIOUS
  <2>3. e = Evaluated(o, w, point, Nowhere, "null", {}, now)
    BY <2>1, <2>2 DEF ExplainCoordinates
  <2>4. e.drivers = now /\ e.explained = Explain(o, w, CoveringAreas(o, point), now)
    BY <2>3 DEF Evaluated
  <2>5. now.explicit \cap now.floaters = {} /\ now.explicit \subseteq Drivers /\ now.floaters \subseteq Drivers
    BY <2>2 DEF CoveringDrivers, Explicit, Floaters, CoveringAreas, Eligible
  <2>6. Cardinality(DriverIds(now)) = Cardinality(now.explicit) + Cardinality(now.floaters)
    BY <2>5, DriversAreFinite, DisjointUnion DEF DriverIds
  <2>7. ASSUME e.explained.territories = "none_configured"
        PROVE  DriverIds(now) = Eligible(w)
    <3>1. LiveAreas(o) = {}
      BY <2>4, <2>7 DEF Explain
    <3>2. \A d \in Eligible(w) : \A a \in map.live : <<d, a>> \notin map.links
      BY <2>2, <3>1, LinksAreOwn DEF Eligible, LiveAreas
    <3>3. now = AllDriversAsFloaters(w)
      BY <1>2, <2>2, <3>2
    <3> QED
      BY <3>3 DEF AllDriversAsFloaters, DriverIds
  <2>8. e.explained.drivers = Cardinality(now.explicit) + Cardinality(now.floaters)
    BY <2>4 DEF Explain
  <2> QED
    BY <2>4, <2>6, <2>7, <2>8
<1> QED
  BY <1>2, <1>3, <1>4

-----------------------------------------------------------------------------
(* The counters.  What is said of the metrics is said of any such record,  *)
(* and so of the one before a step and of the one after it.                *)

Counts == [Orgs -> [Buckets -> Nat]]
FlushStates == [windows : Counts, todo : SUBSET Orgs, asking : Orgs \cup {Nowhere}]

(* Untold and BeingSent, of any metrics.                                   *)
Waiting(untold, o, b) ==
  UNION {{<<g, i>> : i \in {j \in DOMAIN untold[g] : untold[g][j] = b}}
           : g \in {h \in Goods : GoodsOrg[h] = o}}

Sending(flushes, o, b) ==
  UNION {{<<i, n>> : n \in 1..flushes[i].windows[o][b]}
           : i \in {j \in DOMAIN flushes : o \in flushes[j].todo}}

FlushesTyped(flushes) ==
  /\ IsFiniteSet(DOMAIN flushes)
  /\ \A i \in DOMAIN flushes : flushes[i] \in FlushStates
  /\ \A o \in Orgs, b \in Buckets : IsFiniteSet(Sending(flushes, o, b))

UntoldTyped(untold) ==
  /\ untold \in [Goods -> Seq(Buckets)]
  /\ \A o \in Orgs, b \in Buckets : IsFiniteSet(Waiting(untold, o, b))

MetricsTyped(m) ==
  /\ {"windows", "flushes", "sent", "alerted", "untold"} \subseteq DOMAIN m
  /\ m.windows \in Counts /\ m.sent \in Counts
  /\ FlushesTyped(m.flushes) /\ UntoldTyped(m.untold)

Total(m, o, b) ==
  Cardinality(Waiting(m.untold, o, b)) + m.windows[o][b] + Cardinality(Sending(m.flushes, o, b)) + m.sent[o][b]

Justified(counts, o) ==
  o \in Orgs /\ Decisions(counts[o]) >= MinDecisions /\ Fallbacks(counts[o]) > 0

(* Who has been alarmed, or is about to be, had reason to be.              *)
AlarmsJustified(m, counts) ==
  /\ \A o \in m.alerted : Justified(counts, o)
  /\ \A i \in DOMAIN m.flushes : m.flushes[i].asking # Nowhere => Justified(counts, m.flushes[i].asking)

CountsInv ==
  /\ MetricsTyped(metrics) /\ recorded \in Counts
  /\ \A o \in Orgs, b \in Buckets : recorded[o][b] = Total(metrics, o, b)
  /\ AlarmsJustified(metrics, recorded)

LEMMA CountsAreTold == CountsInv => EveryPlacementCounted
<1> SUFFICES ASSUME CountsInv PROVE EveryPlacementCounted
  OBVIOUS
<1>1. \A o \in Orgs, b \in Buckets :
        recorded[o][b] = Cardinality(Untold(o, b)) + metrics.windows[o][b]
                          + Cardinality(BeingSent(o, b)) + metrics.sent[o][b]
  BY DEF CountsInv, Total, Waiting, Sending, Untold, BeingSent
<1>2. \A o \in metrics.alerted : Decisions(recorded[o]) >= MinDecisions /\ Fallbacks(recorded[o]) > 0
  BY DEF CountsInv, AlarmsJustified, Justified
<1> QED
  BY <1>1, <1>2 DEF EveryPlacementCounted

LEMMA CardinalsAreNat ==
  ASSUME NEW m, MetricsTyped(m), NEW o \in Orgs, NEW b \in Buckets
  PROVE  /\ Cardinality(Waiting(m.untold, o, b)) \in Nat /\ m.windows[o][b] \in Nat
         /\ Cardinality(Sending(m.flushes, o, b)) \in Nat /\ m.sent[o][b] \in Nat
  BY FS_CardinalityType DEF MetricsTyped, FlushesTyped, UntoldTyped, Counts

(* k units of one flush.                                                   *)
Units(i, k) == {<<i, n>> : n \in 1..k}

LEMMA UnitsCount ==
  ASSUME NEW i, NEW k \in Nat
  PROVE  IsFiniteSet(Units(i, k)) /\ Cardinality(Units(i, k)) = k
<1>1. IsFiniteSet(1..k) /\ Cardinality(1..k) = k
  BY FS_Interval
<1>2. PICK f : f = [n \in 1..k |-> <<i, n>>]
  OBVIOUS
<1>3. f \in Bijection(1..k, Units(i, k))
  BY <1>2 DEF Bijection, Injection, Surjection, IsInjective, Units
<1> QED
  BY <1>1, <1>3, FS_Bijection DEF ExistsBijection

LEMMA RemoveUnits ==
  ASSUME NEW A, NEW B \in SUBSET A, IsFiniteSet(A)
  PROVE  /\ IsFiniteSet(B) /\ IsFiniteSet(A \ B)
         /\ Cardinality(A \ B) = Cardinality(A) - Cardinality(B)
         /\ Cardinality(B) <= Cardinality(A)
<1>1. IsFiniteSet(B) /\ IsFiniteSet(A \ B) /\ Cardinality(B) <= Cardinality(A)
  BY FS_Subset
<1>2. (A \ B) \cap B = {} /\ (A \ B) \cup B = A
  OBVIOUS
<1>3. Cardinality(A) = Cardinality(A \ B) + Cardinality(B)
  BY <1>1, <1>2, DisjointUnion
<1>4. Cardinality(A) \in Nat /\ Cardinality(B) \in Nat /\ Cardinality(A \ B) \in Nat
  BY <1>1, FS_CardinalityType
<1> QED
  BY <1>1, <1>3, <1>4

LEMMA SendingMember ==
  ASSUME NEW flushes, NEW o, NEW b, NEW p
  PROVE  p \in Sending(flushes, o, b) <=>
           \E i \in DOMAIN flushes : /\ o \in flushes[i].todo
                                     /\ p \in Units(i, flushes[i].windows[o][b])
BY DEF Sending, Units

LEMMA NoCountsAreCounts == NoCounts \in Counts /\ \A o \in Orgs, b \in Buckets : NoCounts[o][b] = 0
BY DEF NoCounts, Counts

LEMMA NewMetricsTyped ==
  /\ MetricsTyped(NewMetrics)
  /\ \A o \in Orgs, b \in Buckets : Total(NewMetrics, o, b) = 0
  /\ \A counts : AlarmsJustified(NewMetrics, counts)
<1>1. /\ NewMetrics.windows = NoCounts /\ NewMetrics.sent = NoCounts /\ NewMetrics.alerted = {}
      /\ DOMAIN NewMetrics.flushes = {} /\ NewMetrics.untold = [g \in Goods |-> <<>>]
      /\ {"windows", "flushes", "sent", "alerted", "untold"} \subseteq DOMAIN NewMetrics
  BY DEF NewMetrics
<1>2. \A o, b : Sending(NewMetrics.flushes, o, b) = {}
  BY <1>1 DEF Sending
<1>3. \A o, b : Waiting(NewMetrics.untold, o, b) = {}
  BY <1>1 DEF Waiting
<1>4. IsFiniteSet({}) /\ Cardinality({}) = 0
  BY FS_EmptySet
<1>5. MetricsTyped(NewMetrics)
  <2>1. FlushesTyped(NewMetrics.flushes)
    BY <1>1, <1>2, <1>4 DEF FlushesTyped
  <2>2. <<>> \in Seq(Buckets)
    OBVIOUS
  <2>3. UntoldTyped(NewMetrics.untold)
    BY <1>1, <1>3, <1>4, <2>2 DEF UntoldTyped
  <2> QED
    BY <1>1, <2>1, <2>3, NoCountsAreCounts DEF MetricsTyped
<1>6. \A o \in Orgs, b \in Buckets : Total(NewMetrics, o, b) = 0
  BY SMTT(30), <1>1, <1>2, <1>3, <1>4, NoCountsAreCounts DEF Total
<1> QED
  BY <1>1, <1>5, <1>6 DEF AlarmsJustified

LEMMA CountsInit == CoverageInit => CountsInv
BY NewMetricsTyped, NoCountsAreCounts DEF CoverageInit, CountsInv

LEMMA SameCounts == CountsInv /\ UNCHANGED <<metrics, recorded>> => CountsInv'
BY DEF CountsInv

LEMMA StartCounts == CountsInv /\ Start => CountsInv'
BY NewMetricsTyped, NoCountsAreCounts DEF Start, CountsInv

-----------------------------------------------------------------------------
(* A flush begins: what was in the window is being sent.                   *)

LEMMA FreeNumberIsFree ==
  ASSUME NEW flushes, IsFiniteSet(DOMAIN flushes)
  PROVE  FreeNumber(flushes) \notin DOMAIN flushes
<1>1. PICK n \in Nat : n = Cardinality(DOMAIN flushes)
  BY FS_CardinalityType
<1>2. Cardinality(1..(n + 1)) = n + 1
  BY FS_Interval
<1>3. ~(1..(n + 1) \subseteq DOMAIN flushes)
  BY <1>1, <1>2, FS_Subset
<1>4. \E i \in 1..(Cardinality(DOMAIN flushes) + 1) : i \notin DOMAIN flushes
  BY <1>1, <1>3
<1> QED
  BY <1>4 DEF FreeNumber

LEMMA FlushIsTyped ==
  ASSUME NEW counts \in Counts
  PROVE  /\ Flush(counts) \in FlushStates /\ Flush(counts).windows = counts /\ Flush(counts).asking = Nowhere
         /\ \A o \in Orgs : o \in Flush(counts).todo <=> ~Empty(counts[o])
BY DEF Flush, FlushStates

LEMMA BegunSends ==
  ASSUME NEW flushes, FlushesTyped(flushes), NEW counts \in Counts
  PROVE  /\ FlushesTyped(Begun(flushes, Flush(counts)))
         /\ \A o \in Orgs, b \in Buckets :
              Cardinality(Sending(Begun(flushes, Flush(counts)), o, b)) =
                Cardinality(Sending(flushes, o, b)) + counts[o][b]
         /\ \A i \in DOMAIN Begun(flushes, Flush(counts)) :
              \/ i \in DOMAIN flushes /\ Begun(flushes, Flush(counts))[i] = flushes[i]
              \/ Begun(flushes, Flush(counts))[i].asking = Nowhere
<1>1. PICK new, k : new = Begun(flushes, Flush(counts)) /\ k = FreeNumber(flushes)
  OBVIOUS
<1>2. k \notin DOMAIN flushes
  BY <1>1, FreeNumberIsFree DEF FlushesTyped
<1>3. /\ DOMAIN new = DOMAIN flushes \cup {k}
      /\ new[k] = Flush(counts)
      /\ \A i \in DOMAIN flushes : new[i] = flushes[i]
  BY <1>1, <1>2 DEF Begun
<1>4. IsFiniteSet(DOMAIN new)
  BY <1>3, FS_AddElement DEF FlushesTyped
<1>5. \A i \in DOMAIN new : new[i] \in FlushStates
  BY <1>3, FlushIsTyped DEF FlushesTyped
<1>6. ASSUME NEW o \in Orgs, NEW b \in Buckets
      PROVE  /\ IsFiniteSet(Sending(new, o, b))
             /\ Cardinality(Sending(new, o, b)) = Cardinality(Sending(flushes, o, b)) + counts[o][b]
  <2>1. counts[o][b] \in Nat /\ IsFiniteSet(Sending(flushes, o, b)) /\ Cardinality(Sending(flushes, o, b)) \in Nat
    BY FS_CardinalityType DEF Counts, FlushesTyped
  <2>2. IsFiniteSet(Units(k, counts[o][b])) /\ Cardinality(Units(k, counts[o][b])) = counts[o][b]
    BY <2>1, UnitsCount
  <2>3. Sending(flushes, o, b) \cap Units(k, counts[o][b]) = {}
    BY <1>2, SendingMember DEF Units
  <2>4. CASE ~Empty(counts[o])
    <3>1. Sending(new, o, b) = Sending(flushes, o, b) \cup Units(k, counts[o][b])
      BY <1>3, <2>4, SendingMember, FlushIsTyped
    <3> QED
      BY <2>1, <2>2, <2>3, <3>1, DisjointUnion
  <2>5. CASE Empty(counts[o])
    <3>1. counts[o][b] = 0
      BY <2>5 DEF Empty
    <3>2. Sending(new, o, b) = Sending(flushes, o, b)
      <4>1. \A p : p \in Sending(new, o, b) <=> p \in Sending(flushes, o, b)
        BY <1>3, <2>5, SendingMember, FlushIsTyped
      <4> QED
        BY <4>1
    <3> QED
      BY <2>1, <3>1, <3>2
  <2> QED
    BY <2>4, <2>5
<1>7. FlushesTyped(new)
  BY <1>4, <1>5, <1>6 DEF FlushesTyped
<1>8. \A i \in DOMAIN new : (i \in DOMAIN flushes /\ new[i] = flushes[i]) \/ new[i].asking = Nowhere
  BY <1>3, FlushIsTyped
<1> QED
  BY <1>1, <1>6, <1>7, <1>8

LEMMA SwapKeepsTotals ==
  ASSUME NEW m, MetricsTyped(m)
  PROVE  /\ MetricsTyped(Swapped(m))
         /\ \A o \in Orgs, b \in Buckets : Total(Swapped(m), o, b) = Total(m, o, b)
         /\ \A counts : AlarmsJustified(m, counts) => AlarmsJustified(Swapped(m), counts)
<1>1. PICK new, fl : new = Swapped(m) /\ fl = Begun(m.flushes, Flush(m.windows))
  OBVIOUS
<1>2. /\ new.flushes = fl /\ new.windows = NoCounts /\ new.sent = m.sent
      /\ new.alerted = m.alerted /\ new.untold = m.untold /\ DOMAIN new = DOMAIN m
  BY <1>1 DEF Swapped, MetricsTyped
<1>3. m.windows \in Counts /\ FlushesTyped(m.flushes)
  BY DEF MetricsTyped
<1>4. /\ FlushesTyped(fl)
      /\ \A o \in Orgs, b \in Buckets :
           Cardinality(Sending(fl, o, b)) = Cardinality(Sending(m.flushes, o, b)) + m.windows[o][b]
      /\ \A i \in DOMAIN fl : (i \in DOMAIN m.flushes /\ fl[i] = m.flushes[i]) \/ fl[i].asking = Nowhere
  BY <1>1, <1>3, BegunSends
<1>5. MetricsTyped(new)
  BY <1>2, <1>4, NoCountsAreCounts DEF MetricsTyped
<1>6. \A o \in Orgs, b \in Buckets : Total(new, o, b) = Total(m, o, b)
  BY <1>2, <1>4, CardinalsAreNat, NoCountsAreCounts DEF Total
<1>7. \A counts : AlarmsJustified(m, counts) => AlarmsJustified(new, counts)
  BY <1>2, <1>4 DEF AlarmsJustified
<1> QED
  BY <1>1, <1>5, <1>6, <1>7

-----------------------------------------------------------------------------
(* A placement is told of.                                                 *)

LEMMA WaitingMember ==
  ASSUME NEW untold, NEW o, NEW b, NEW p
  PROVE  p \in Waiting(untold, o, b) <=>
           \E g \in Goods : GoodsOrg[g] = o /\ \E i \in DOMAIN untold[g] : untold[g][i] = b /\ p = <<g, i>>
BY DEF Waiting

LEMMA OneMoreWaiting ==
  ASSUME NEW untold, UntoldTyped(untold), NEW g \in Goods, NEW x \in Buckets
  PROVE  LET more == [untold EXCEPT ![g] = Append(@, x)] IN
         /\ UntoldTyped(more)
         /\ \A o \in Orgs, b \in Buckets :
              Cardinality(Waiting(more, o, b)) =
                Cardinality(Waiting(untold, o, b)) + (IF o = GoodsOrg[g] /\ b = x THEN 1 ELSE 0)
<1>1. PICK more, n : more = [untold EXCEPT ![g] = Append(@, x)] /\ n = Len(untold[g]) + 1
  OBVIOUS
<1>2. untold \in [Goods -> Seq(Buckets)] /\ untold[g] \in Seq(Buckets)
  BY DEF UntoldTyped
<1>3. /\ more \in [Goods -> Seq(Buckets)]
      /\ \A h \in Goods \ {g} : more[h] = untold[h]
      /\ more[g] = Append(untold[g], x)
  BY <1>1, <1>2
<1>4. /\ DOMAIN more[g] = DOMAIN untold[g] \cup {n} /\ n \notin DOMAIN untold[g]
      /\ more[g][n] = x /\ \A i \in DOMAIN untold[g] : more[g][i] = untold[g][i]
  BY <1>1, <1>2, <1>3
<1>5. ASSUME NEW o, NEW b, NEW p \in Waiting(untold, o, b) PROVE p \in Waiting(more, o, b)
  <2>1. PICK h \in Goods : GoodsOrg[h] = o /\ \E i \in DOMAIN untold[h] : untold[h][i] = b /\ p = <<h, i>>
    BY WaitingMember
  <2>2. PICK i \in DOMAIN untold[h] : untold[h][i] = b /\ p = <<h, i>>
    BY <2>1
  <2>3. i \in DOMAIN more[h] /\ more[h][i] = b
    BY <1>3, <1>4, <2>2
  <2> QED
    BY <2>1, <2>2, <2>3, WaitingMember
<1>6. ASSUME NEW o \in Orgs, NEW b \in Buckets
      PROVE  /\ IsFiniteSet(Waiting(more, o, b))
             /\ Cardinality(Waiting(more, o, b)) =
                  Cardinality(Waiting(untold, o, b)) + (IF o = GoodsOrg[g] /\ b = x THEN 1 ELSE 0)
  <2>1. IsFiniteSet(Waiting(untold, o, b)) /\ Cardinality(Waiting(untold, o, b)) \in Nat
    BY FS_CardinalityType DEF UntoldTyped
  <2>2. CASE o = GoodsOrg[g] /\ b = x
    <3>0. ASSUME NEW p \in Waiting(more, o, b) PROVE p \in Waiting(untold, o, b) \cup {<<g, n>>}
      <4>1. PICK h \in Goods : GoodsOrg[h] = o /\ \E i \in DOMAIN more[h] : more[h][i] = b /\ p = <<h, i>>
        BY WaitingMember
      <4>2. PICK i \in DOMAIN more[h] : more[h][i] = b /\ p = <<h, i>>
        BY <4>1
      <4>3. (i \in DOMAIN untold[h] /\ untold[h][i] = b) \/ p = <<g, n>>
        BY <1>3, <1>4, <4>2
      <4> QED
        BY <4>1, <4>2, <4>3, WaitingMember
    <3>1. \A p : p \in Waiting(more, o, b) <=> p \in Waiting(untold, o, b) \cup {<<g, n>>}
      <4>1. <<g, n>> \in Waiting(more, o, b)
        BY <1>4, <2>2, WaitingMember
      <4> QED
        BY <1>5, <3>0, <4>1
    <3>2. Waiting(more, o, b) = Waiting(untold, o, b) \cup {<<g, n>>}
      BY <3>1
    <3>3. <<g, n>> \notin Waiting(untold, o, b)
      BY <1>4, WaitingMember
    <3> QED
      BY <2>1, <2>2, <3>2, <3>3, FS_AddElement
  <2>3. CASE ~(o = GoodsOrg[g] /\ b = x)
    <3>1. \A p : p \in Waiting(more, o, b) <=> p \in Waiting(untold, o, b)
      <4>1. ASSUME NEW p \in Waiting(more, o, b) PROVE p \in Waiting(untold, o, b)
        <5>1. PICK h \in Goods : GoodsOrg[h] = o /\ \E i \in DOMAIN more[h] : more[h][i] = b /\ p = <<h, i>>
          BY WaitingMember
        <5>2. PICK i \in DOMAIN more[h] : more[h][i] = b /\ p = <<h, i>>
          BY <5>1
        <5>3. i \in DOMAIN untold[h] /\ untold[h][i] = b
          BY <1>3, <1>4, <2>3, <5>1, <5>2
        <5> QED
          BY <5>1, <5>2, <5>3, WaitingMember
      <4> QED
        BY <1>5, <4>1
    <3>2. Waiting(more, o, b) = Waiting(untold, o, b)
      BY <3>1
    <3> QED
      BY <2>1, <2>3, <3>2
  <2> QED
    BY <2>2, <2>3
<1>7. UntoldTyped(more)
  BY <1>3, <1>6 DEF UntoldTyped
<1> QED
  BY <1>1, <1>6, <1>7

(* A told bucket leaves those that wait; the rest of them move up.         *)
LEMMA OneLessWaiting ==
  ASSUME NEW untold, UntoldTyped(untold), NEW g \in Goods, untold[g] # <<>>
  PROVE  LET less == [untold EXCEPT ![g] = Tail(@)] IN
         /\ UntoldTyped(less)
         /\ Head(untold[g]) \in Buckets
         /\ \A o \in Orgs, b \in Buckets :
              Cardinality(Waiting(untold, o, b)) =
                Cardinality(Waiting(less, o, b)) + (IF o = GoodsOrg[g] /\ b = Head(untold[g]) THEN 1 ELSE 0)
<1>1. PICK less, x : less = [untold EXCEPT ![g] = Tail(@)] /\ x = Head(untold[g])
  OBVIOUS
<1>2. untold \in [Goods -> Seq(Buckets)] /\ untold[g] \in Seq(Buckets)
  BY DEF UntoldTyped
<1>3. /\ less \in [Goods -> Seq(Buckets)]
      /\ \A h \in Goods \ {g} : less[h] = untold[h]
      /\ less[g] = Tail(untold[g])
  BY <1>1, <1>2
<1>4. /\ x \in Buckets /\ x = untold[g][1] /\ 1 \in DOMAIN untold[g]
      /\ \A i : i \in DOMAIN less[g] <=> i \in Nat \ {0} /\ i + 1 \in DOMAIN untold[g]
      /\ \A i \in DOMAIN less[g] : less[g][i] = untold[g][i + 1]
      /\ DOMAIN untold[g] \subseteq Nat \ {0}
  BY <1>1, <1>2, <1>3
<1>5. ASSUME NEW o \in Orgs, NEW b \in Buckets
      PROVE  /\ IsFiniteSet(Waiting(less, o, b))
             /\ Cardinality(Waiting(untold, o, b)) =
                  Cardinality(Waiting(less, o, b)) + (IF o = GoodsOrg[g] /\ b = x THEN 1 ELSE 0)
  <2>1. IsFiniteSet(Waiting(untold, o, b)) /\ Cardinality(Waiting(untold, o, b)) \in Nat
    BY FS_CardinalityType DEF UntoldTyped
  <2>2. PICK rest : rest = Waiting(untold, o, b) \ {<<g, 1>>}
    OBVIOUS
  <2>3. <<g, 1>> \in Waiting(untold, o, b) <=> o = GoodsOrg[g] /\ b = x
    BY <1>4, WaitingMember
  <2>4. /\ IsFiniteSet(rest)
        /\ Cardinality(rest) = Cardinality(Waiting(untold, o, b)) - (IF o = GoodsOrg[g] /\ b = x THEN 1 ELSE 0)
    BY <2>1, <2>2, <2>3, FS_RemoveElement
  <2>5. PICK up : up = [p \in rest |-> IF p[1] = g THEN <<g, p[2] - 1>> ELSE p]
    OBVIOUS
  <2>6. \A p \in rest : \E h \in Goods : \E i \in DOMAIN untold[h] :
          p = <<h, i>> /\ GoodsOrg[h] = o /\ untold[h][i] = b /\ (h = g => i # 1)
    BY <2>2, WaitingMember
  <2>7. \A h \in Goods : \A i \in DOMAIN untold[h] :
          GoodsOrg[h] = o /\ untold[h][i] = b /\ (h = g => i # 1) => <<h, i>> \in rest
    BY <2>2, WaitingMember
  <2>8. \A p \in rest : up[p] \in Waiting(less, o, b)
    <3> SUFFICES ASSUME NEW p \in rest PROVE up[p] \in Waiting(less, o, b)
      OBVIOUS
    <3>1. PICK h \in Goods : \E i \in DOMAIN untold[h] :
            p = <<h, i>> /\ GoodsOrg[h] = o /\ untold[h][i] = b /\ (h = g => i # 1)
      BY <2>6
    <3>2. PICK i \in DOMAIN untold[h] : p = <<h, i>> /\ GoodsOrg[h] = o /\ untold[h][i] = b /\ (h = g => i # 1)
      BY <3>1
    <3>3. CASE h = g
      <4>1. up[p] = <<g, i - 1>> /\ i \in Nat \ {0} /\ i # 1
        BY <1>4, <2>5, <3>2, <3>3
      <4>2. i - 1 \in DOMAIN less[g] /\ less[g][i - 1] = b
        <5>1. i - 1 \in Nat \ {0} /\ (i - 1) + 1 = i /\ i \in DOMAIN untold[g] /\ untold[g][i] = b
          BY <3>2, <3>3, <4>1
        <5>2. i - 1 \in DOMAIN less[g]
          BY <1>4, <5>1
        <5> QED
          BY <1>4, <5>1, <5>2
      <4> QED
        BY <3>2, <3>3, <4>1, <4>2, WaitingMember
    <3>4. CASE h # g
      <4>1. up[p] = <<h, i>> /\ i \in DOMAIN less[h] /\ less[h][i] = b
        BY <1>3, <2>5, <3>2, <3>4
      <4> QED
        BY <3>2, <4>1, WaitingMember
    <3> QED
      BY <3>3, <3>4
  <2>9. \A p, q \in rest : up[p] = up[q] => p = q
    BY <1>4, <2>5, <2>6
  <2>10. \A q \in Waiting(less, o, b) : \E p \in rest : up[p] = q
    <3> SUFFICES ASSUME NEW q \in Waiting(less, o, b) PROVE \E p \in rest : up[p] = q
      OBVIOUS
    <3>0. PICK h \in Goods : GoodsOrg[h] = o /\ \E i \in DOMAIN less[h] : less[h][i] = b /\ q = <<h, i>>
      BY WaitingMember
    <3>1. PICK i \in DOMAIN less[h] : GoodsOrg[h] = o /\ less[h][i] = b /\ q = <<h, i>>
      BY <3>0
    <3>2. CASE h = g
      <4>1. i \in Nat \ {0} /\ i + 1 \in DOMAIN untold[g] /\ untold[g][i + 1] = b /\ i + 1 # 1
        BY <1>4, <3>1, <3>2
      <4>2. <<g, i + 1>> \in rest
        BY <2>7, <3>1, <3>2, <4>1
      <4>3. up[<<g, i + 1>>] = <<g, (i + 1) - 1>>
        BY <2>5, <4>2
      <4> QED
        BY <3>1, <3>2, <4>1, <4>2, <4>3
    <3>3. CASE h # g
      <4>1. <<h, i>> \in rest
        BY <1>3, <2>7, <3>1, <3>3
      <4> QED
        BY <2>5, <3>1, <3>3, <4>1
    <3> QED
      BY <3>2, <3>3
  <2>11. up \in Bijection(rest, Waiting(less, o, b))
    BY <2>5, <2>8, <2>9, <2>10 DEF Bijection, Injection, Surjection, IsInjective
  <2>12. IsFiniteSet(Waiting(less, o, b)) /\ Cardinality(Waiting(less, o, b)) = Cardinality(rest)
    BY <2>4, <2>11, FS_Bijection DEF ExistsBijection
  <2> QED
    BY <2>1, <2>4, <2>12
<1>6. UntoldTyped(less)
  BY <1>3, <1>5 DEF UntoldTyped
<1> QED
  BY <1>1, <1>4, <1>5, <1>6

LEMMA JustifiedStays ==
  ASSUME NEW counts \in Counts, NEW more \in Counts,
         \A o \in Orgs, b \in Buckets : more[o][b] >= counts[o][b]
  PROVE  /\ \A o : Justified(counts, o) => Justified(more, o)
         /\ \A m : AlarmsJustified(m, counts) => AlarmsJustified(m, more)
<1>1. \A o \in Orgs, b \in Buckets : counts[o][b] \in Nat /\ more[o][b] \in Nat
  BY DEF Counts
<1>2. COVERAGE_OUTCOMES \subseteq Buckets
  BY DEF Buckets
<1>3. \A o \in Orgs : Decisions(more[o]) >= Decisions(counts[o]) /\ Fallbacks(more[o]) >= Fallbacks(counts[o])
                      /\ Decisions(counts[o]) \in Nat /\ Fallbacks(counts[o]) \in Nat
                      /\ Decisions(more[o]) \in Nat /\ Fallbacks(more[o]) \in Nat
  BY <1>1, <1>2 DEF Decisions, Fallbacks, CoveredOf, COVERAGE_OUTCOMES
<1>4. \A o : Justified(counts, o) => Justified(more, o)
  BY <1>3, CoverageAssumption DEF Justified
<1> QED
  BY <1>4 DEF AlarmsJustified

LEMMA AppendsTold ==
  ASSUME NEW s \in Seq(Buckets), NEW x \in Buckets, NEW y \in Buckets
  PROVE  s \o <<x>> = Append(s, x) /\ s \o <<x, y>> = Append(Append(s, x), y)
OBVIOUS

LEMMA TellCounts ==
  ASSUME CountsInv, NEW g \in Goods, NEW x \in Buckets, NEW y \in Buckets, x # y,
         NEW told, told = <<x>> \/ told = <<x, y>>, Tell(g, told)
  PROVE  CountsInv'
<1>1. PICK once, twice : /\ once = [metrics.untold EXCEPT ![g] = Append(@, x)]
                         /\ twice = [once EXCEPT ![g] = Append(@, y)]
  OBVIOUS
<1>2. /\ MetricsTyped(metrics) /\ recorded \in Counts /\ UntoldTyped(metrics.untold)
      /\ metrics.untold \in [Goods -> Seq(Buckets)] /\ GoodsOrg[g] \in Orgs
  BY CoverageAssumption DEF CountsInv, MetricsTyped, UntoldTyped
<1>3. /\ UntoldTyped(once)
      /\ \A o \in Orgs, b \in Buckets :
           Cardinality(Waiting(once, o, b)) =
             Cardinality(Waiting(metrics.untold, o, b)) + (IF o = GoodsOrg[g] /\ b = x THEN 1 ELSE 0)
  BY <1>1, <1>2, OneMoreWaiting
<1>4. /\ UntoldTyped(twice)
      /\ \A o \in Orgs, b \in Buckets :
           Cardinality(Waiting(twice, o, b)) =
             Cardinality(Waiting(once, o, b)) + (IF o = GoodsOrg[g] /\ b = y THEN 1 ELSE 0)
  BY <1>1, <1>3, OneMoreWaiting
<1>5. /\ metrics'.untold = IF told = <<x>> THEN once ELSE twice
      /\ metrics'.windows = metrics.windows /\ metrics'.flushes = metrics.flushes
      /\ metrics'.sent = metrics.sent /\ metrics'.alerted = metrics.alerted
      /\ DOMAIN metrics' = DOMAIN metrics
  <2>1. metrics' = [metrics EXCEPT !.untold = [metrics.untold EXCEPT ![g] = @ \o told]]
    BY <1>2 DEF Tell, MetricsTyped
  <2>2. [metrics.untold EXCEPT ![g] = @ \o told] = IF told = <<x>> THEN once ELSE twice
    BY <1>1, <1>2, AppendsTold
  <2> QED
    BY <1>2, <2>1, <2>2 DEF MetricsTyped
<1>6. /\ recorded' \in Counts
      /\ \A o \in Orgs, b \in Buckets :
           recorded'[o][b] = recorded[o][b] +
             (IF o = GoodsOrg[g] /\ (b = x \/ (told = <<x, y>> /\ b = y)) THEN 1 ELSE 0)
  <2>1. told = <<x>> => Range(told) = {x}
    BY DEF Range
  <2>2. told = <<x, y>> => Range(told) = {x, y}
    BY DEF Range
  <2>3. <<x>> # <<x, y>>
    OBVIOUS
  <2>4. recorded' = [recorded EXCEPT ![GoodsOrg[g]] =
                       [b \in Buckets |-> recorded[GoodsOrg[g]][b] + (IF b \in Range(told) THEN 1 ELSE 0)]]
    BY <1>2 DEF Tell, Counts
  <2>5. \A b \in Buckets : recorded[GoodsOrg[g]][b] \in Nat
    BY <1>2 DEF Counts
  <2> QED
    BY <1>2, <2>1, <2>2, <2>3, <2>4, <2>5 DEF Counts
<1>7. MetricsTyped(metrics')
  BY <1>2, <1>3, <1>4, <1>5 DEF MetricsTyped
<1>8. \A o \in Orgs, b \in Buckets : recorded'[o][b] = Total(metrics', o, b)
  <2> SUFFICES ASSUME NEW o \in Orgs, NEW b \in Buckets PROVE recorded'[o][b] = Total(metrics', o, b)
    OBVIOUS
  <2>1. Cardinality(Waiting(metrics'.untold, o, b)) = Cardinality(Waiting(metrics.untold, o, b)) +
             (IF o = GoodsOrg[g] /\ (b = x \/ (told = <<x, y>> /\ b = y)) THEN 1 ELSE 0)
    <3>1. Cardinality(Waiting(metrics.untold, o, b)) \in Nat
      BY <1>2, CardinalsAreNat
    <3>2. <<x>> # <<x, y>>
      OBVIOUS
    <3> QED
      BY <1>3, <1>4, <1>5, <3>1, <3>2
  <2>2. recorded[o][b] = Total(metrics, o, b)
    BY DEF CountsInv
  <2>3. /\ Cardinality(Waiting(metrics.untold, o, b)) \in Nat /\ metrics.windows[o][b] \in Nat
        /\ Cardinality(Sending(metrics.flushes, o, b)) \in Nat /\ metrics.sent[o][b] \in Nat
    BY <1>2, CardinalsAreNat
  <2> QED
    BY <1>5, <1>6, <2>1, <2>2, <2>3 DEF Total
<1>9. AlarmsJustified(metrics', recorded')
  <2>1. AlarmsJustified(metrics', recorded)
    BY <1>5 DEF CountsInv, AlarmsJustified
  <2>2. \A o \in Orgs, b \in Buckets : recorded'[o][b] >= recorded[o][b]
    <3>1. \A o \in Orgs, b \in Buckets : recorded[o][b] \in Nat
      BY <1>2 DEF Counts
    <3> QED
      BY <1>6, <3>1
  <2> QED
    BY <1>2, <1>6, <2>1, <2>2, JustifiedStays
<1> QED
  BY <1>6, <1>7, <1>8, <1>9 DEF CountsInv

LEMMA PlaceCounts ==
  ASSUME CountsInv, NEW g \in Goods, PlaceGoods(g)
  PROVE  CountsInv'
<1>1. PICK d \in Skilled(g), opened \in {"none", "opened_at_step_2", "opened_at_step_4"} :
        CommitPlacement(g, d, opened, CoverageOutcomeFor(process.matching, held[g], d))
  BY TargetsAreSkilled DEF PlaceGoods
<1>2. PICK x \in COVERAGE_OUTCOMES : x = CoverageOutcomeFor(process.matching, held[g], d)
  BY OutcomesAreOutcomes
<1>3. PICK told : told = IF opened = "none" THEN <<x>> ELSE <<x, opened>>
  OBVIOUS
<1>4. Tell(g, told)
  BY <1>1, <1>2, <1>3 DEF CommitPlacement
<1>5. x \in Buckets /\ x # "opened_at_step_2" /\ x # "opened_at_step_4"
  BY <1>2 DEF Buckets, COVERAGE_OUTCOMES
<1>6. PICK y : y = IF opened = "none" THEN "opened_at_step_2" ELSE opened
  OBVIOUS
<1>7. y \in Buckets /\ x # y /\ (told = <<x>> \/ told = <<x, y>>)
  BY <1>3, <1>5, <1>6 DEF Buckets
<1> QED
  BY <1>4, <1>5, <1>7, TellCounts

LEMMA RecordCounts ==
  ASSUME CountsInv, NEW g \in Goods, Record(g)
  PROVE  CountsInv'
<1>1. PICK less, x, o, counted :
        /\ less = [metrics.untold EXCEPT ![g] = Tail(@)]
        /\ x = Head(metrics.untold[g]) /\ o = GoodsOrg[g]
        /\ counted = [metrics EXCEPT !.windows = Add(@, o, x, 1), !.untold[g] = Tail(@)]
  OBVIOUS
<1>2. /\ MetricsTyped(metrics) /\ UntoldTyped(metrics.untold) /\ metrics.untold[g] # <<>>
      /\ metrics.windows \in Counts /\ o \in Orgs
  BY <1>1, CoverageAssumption DEF CountsInv, MetricsTyped, Record
<1>3. /\ UntoldTyped(less) /\ x \in Buckets
      /\ \A p \in Orgs, b \in Buckets :
           Cardinality(Waiting(metrics.untold, p, b)) =
             Cardinality(Waiting(less, p, b)) + (IF p = o /\ b = x THEN 1 ELSE 0)
  <2>1. /\ UntoldTyped([metrics.untold EXCEPT ![g] = Tail(@)])
        /\ Head(metrics.untold[g]) \in Buckets
        /\ \A p \in Orgs, b \in Buckets :
             Cardinality(Waiting(metrics.untold, p, b)) =
               Cardinality(Waiting([metrics.untold EXCEPT ![g] = Tail(@)], p, b)) +
                 (IF p = GoodsOrg[g] /\ b = Head(metrics.untold[g]) THEN 1 ELSE 0)
    BY <1>2, OneLessWaiting
  <2> QED
    BY <1>1, <2>1
<1>4. /\ counted.untold = less /\ counted.windows = Add(metrics.windows, o, x, 1)
      /\ counted.flushes = metrics.flushes /\ counted.sent = metrics.sent
      /\ counted.alerted = metrics.alerted /\ DOMAIN counted = DOMAIN metrics
  BY <1>1, <1>2 DEF MetricsTyped
<1>5. /\ Add(metrics.windows, o, x, 1) \in Counts
      /\ \A p \in Orgs, b \in Buckets :
           Add(metrics.windows, o, x, 1)[p][b] = metrics.windows[p][b] + (IF p = o /\ b = x THEN 1 ELSE 0)
  <2>1. \A p \in Orgs : metrics.windows[p] \in [Buckets -> Nat]
    BY <1>2 DEF Counts
  <2>2. PICK w : w = [metrics.windows[o] EXCEPT ![x] = metrics.windows[o][x] + 1]
    OBVIOUS
  <2>3. metrics.windows[o] \in [Buckets -> Nat] /\ metrics.windows[o][x] \in Nat
    BY <1>2, <1>3, <2>1
  <2>4. /\ w \in [Buckets -> Nat]
        /\ \A b \in Buckets : w[b] = metrics.windows[o][b] + (IF b = x THEN 1 ELSE 0)
    <3>1. \A b \in Buckets : metrics.windows[o][b] \in Nat
      BY <2>3
    <3>2. \A b \in Buckets : w[b] = IF b = x THEN metrics.windows[o][x] + 1 ELSE metrics.windows[o][b]
      BY <2>2, <2>3
    <3>3. w \in [Buckets -> Nat]
      <4>1. PICK f, k : f = metrics.windows[o] /\ k = metrics.windows[o][x] + 1
        OBVIOUS
      <4>2. f \in [Buckets -> Nat] /\ k \in Nat /\ w = [f EXCEPT ![x] = k]
        BY <2>2, <2>3, <4>1
      <4> QED
        BY <4>2
    <3> QED
      BY <3>1, <3>2, <3>3
  <2>5. Add(metrics.windows, o, x, 1) = [metrics.windows EXCEPT ![o] = w]
    BY <1>2, <2>2 DEF Add, Counts
  <2>6. [metrics.windows EXCEPT ![o] = w] \in Counts
    BY <1>2, <2>4 DEF Counts
  <2>7. \A p \in Orgs : [metrics.windows EXCEPT ![o] = w][p] = IF p = o THEN w ELSE metrics.windows[p]
    BY <1>2 DEF Counts
  <2>8. \A p \in Orgs, b \in Buckets : metrics.windows[p][b] \in Nat
    BY <2>1
  <2>9. ASSUME NEW p \in Orgs, NEW b \in Buckets
        PROVE  [metrics.windows EXCEPT ![o] = w][p][b] = metrics.windows[p][b] + (IF p = o /\ b = x THEN 1 ELSE 0)
    <3>1. CASE p = o
      BY <2>4, <2>7, <3>1
    <3>2. CASE p # o
      BY <2>7, <2>8, <3>2
    <3> QED
      BY <3>1, <3>2
  <2> QED
    BY ZenonT(60), <2>5, <2>6, <2>9
<1>6. MetricsTyped(counted)
  BY <1>2, <1>3, <1>4, <1>5 DEF MetricsTyped
<1>7. \A p \in Orgs, b \in Buckets : Total(counted, p, b) = Total(metrics, p, b)
  <2> SUFFICES ASSUME NEW p \in Orgs, NEW b \in Buckets PROVE Total(counted, p, b) = Total(metrics, p, b)
    OBVIOUS
  <2>1. /\ Cardinality(Waiting(counted.untold, p, b)) \in Nat
        /\ metrics.windows[p][b] \in Nat /\ Cardinality(Sending(metrics.flushes, p, b)) \in Nat
        /\ metrics.sent[p][b] \in Nat
    BY <1>2, <1>6, CardinalsAreNat
  <2> QED
    BY <1>3, <1>4, <1>5, <2>1 DEF Total
<1>8. AlarmsJustified(counted, recorded)
  BY <1>4 DEF CountsInv, AlarmsJustified
<1>9. metrics' \in {counted, Swapped(counted)} /\ recorded' = recorded
  BY <1>1 DEF Record
<1>10. /\ MetricsTyped(metrics') /\ AlarmsJustified(metrics', recorded)
       /\ \A p \in Orgs, b \in Buckets : Total(metrics', p, b) = Total(metrics, p, b)
  <2>1. CASE metrics' = counted
    BY <1>6, <1>7, <1>8, <2>1
  <2>2. CASE metrics' = Swapped(counted)
    BY <1>6, <1>7, <1>8, <2>2, SwapKeepsTotals
  <2> QED
    BY <1>9, <2>1, <2>2
<1> QED
  BY <1>9, <1>10 DEF CountsInv

-----------------------------------------------------------------------------
(* An organisation is sent, and its territories counted.                   *)

LEMMA GoingSends ==
  ASSUME NEW flushes
  PROVE  /\ DOMAIN Going(flushes) \subseteq DOMAIN flushes
         /\ \A i \in DOMAIN Going(flushes) : Going(flushes)[i] = flushes[i]
         /\ \A o, b : Sending(Going(flushes), o, b) = Sending(flushes, o, b)
<1>1. PICK going : going = Going(flushes)
  OBVIOUS
<1>2. /\ DOMAIN going = {i \in DOMAIN flushes : ~Over(flushes[i])}
      /\ \A i \in DOMAIN going : going[i] = flushes[i]
  BY <1>1 DEF Going, Restrict
<1>3. \A i \in DOMAIN flushes : i \notin DOMAIN going => flushes[i].todo = {}
  BY <1>2 DEF Over
<1>4. ASSUME NEW o, NEW b PROVE Sending(going, o, b) = Sending(flushes, o, b)
  <2>1. \A p : p \in Sending(going, o, b) <=> p \in Sending(flushes, o, b)
    BY <1>2, <1>3, SendingMember
  <2> QED
    BY <2>1
<1> QED
  BY <1>1, <1>2, <1>4

LEMMA GoingTyped ==
  ASSUME NEW flushes, FlushesTyped(flushes)
  PROVE  FlushesTyped(Going(flushes))
BY GoingSends, FS_Subset DEF FlushesTyped

(* What flush i has left, and whose territories it is counting.            *)
RestOf(flushes, i, todo, asking) ==
  [flushes EXCEPT ![i] = [flushes[i] EXCEPT !.todo = todo, !.asking = asking]]

IsRest(rest, flushes, i, todo, asking) ==
  /\ FlushesTyped(rest)
  /\ \A o \in Orgs, b \in Buckets :
       Sending(rest, o, b) = IF o \in flushes[i].todo \ todo
                             THEN Sending(flushes, o, b) \ Units(i, flushes[i].windows[o][b])
                             ELSE Sending(flushes, o, b)
  /\ DOMAIN rest = DOMAIN flushes
  /\ \A j \in DOMAIN flushes : rest[j].asking = IF j = i THEN asking ELSE flushes[j].asking

LEMMA RestSends ==
  ASSUME NEW flushes, FlushesTyped(flushes), NEW i \in DOMAIN flushes,
         NEW todo, todo \subseteq flushes[i].todo, NEW asking \in Orgs \cup {Nowhere},
         NEW rest, rest = RestOf(flushes, i, todo, asking)
  PROVE  IsRest(rest, flushes, i, todo, asking)
<1>1. flushes[i] \in FlushStates
  BY DEF FlushesTyped
<1>2. /\ DOMAIN rest = DOMAIN flushes
      /\ \A j \in DOMAIN flushes : j # i => rest[j] = flushes[j]
      /\ rest[i].windows = flushes[i].windows /\ rest[i].todo = todo /\ rest[i].asking = asking
  BY <1>1 DEF FlushStates, RestOf
<1>3. rest[i] \in FlushStates
  BY <1>1 DEF FlushStates, RestOf
<1>4. ASSUME NEW o \in Orgs, NEW b \in Buckets
      PROVE  Sending(rest, o, b) = IF o \in flushes[i].todo \ todo
                                   THEN Sending(flushes, o, b) \ Units(i, flushes[i].windows[o][b])
                                   ELSE Sending(flushes, o, b)
  <2>1. CASE o \in flushes[i].todo \ todo
    <3>1. \A p : p \in Sending(rest, o, b) <=>
                   p \in Sending(flushes, o, b) \ Units(i, flushes[i].windows[o][b])
      <4>1. \A j, k, l, p : p \in Units(j, k) /\ p \in Units(i, l) => j = i
        BY DEF Units
      <4>2. ASSUME NEW p \in Sending(rest, o, b)
            PROVE  p \in Sending(flushes, o, b) \ Units(i, flushes[i].windows[o][b])
        <5>1. PICK j \in DOMAIN rest : o \in rest[j].todo /\ p \in Units(j, rest[j].windows[o][b])
          BY SendingMember
        <5>2. j # i /\ rest[j] = flushes[j]
          BY <1>2, <2>1, <5>1
        <5> QED
          BY <1>2, <4>1, <5>1, <5>2, SendingMember
      <4>3. ASSUME NEW p \in Sending(flushes, o, b) \ Units(i, flushes[i].windows[o][b])
            PROVE  p \in Sending(rest, o, b)
        <5>1. PICK j \in DOMAIN flushes : o \in flushes[j].todo /\ p \in Units(j, flushes[j].windows[o][b])
          BY SendingMember
        <5>2. j # i
          BY <5>1
        <5> QED
          BY <1>2, <5>1, <5>2, SendingMember
      <4> QED
        BY <4>2, <4>3
    <3> QED
      BY <2>1, <3>1
  <2>2. CASE o \notin flushes[i].todo \ todo
    <3>1. \A j \in DOMAIN flushes : /\ o \in rest[j].todo <=> o \in flushes[j].todo
                                    /\ rest[j].windows = flushes[j].windows
      BY <1>2, <2>2
    <3>2. \A p : p \in Sending(rest, o, b) <=> p \in Sending(flushes, o, b)
      <4>1. ASSUME NEW p \in Sending(rest, o, b) PROVE p \in Sending(flushes, o, b)
        <5>1. PICK j \in DOMAIN rest : o \in rest[j].todo /\ p \in Units(j, rest[j].windows[o][b])
          BY SendingMember
        <5> QED
          BY <1>2, <3>1, <5>1, SendingMember
      <4>2. ASSUME NEW p \in Sending(flushes, o, b) PROVE p \in Sending(rest, o, b)
        <5>1. PICK j \in DOMAIN flushes : o \in flushes[j].todo /\ p \in Units(j, flushes[j].windows[o][b])
          BY SendingMember
        <5> QED
          BY <1>2, <3>1, <5>1, SendingMember
      <4> QED
        BY <4>1, <4>2
    <3>3. Sending(rest, o, b) = Sending(flushes, o, b)
      BY <3>2
    <3> QED
      BY <2>2, <3>3
  <2> QED
    BY <2>1, <2>2
<1>5. \A o \in Orgs, b \in Buckets : IsFiniteSet(Sending(rest, o, b))
  <2> SUFFICES ASSUME NEW o \in Orgs, NEW b \in Buckets PROVE IsFiniteSet(Sending(rest, o, b))
    OBVIOUS
  <2>1. Sending(rest, o, b) \subseteq Sending(flushes, o, b) /\ IsFiniteSet(Sending(flushes, o, b))
    BY <1>4 DEF FlushesTyped
  <2> QED
    BY <2>1, FS_Subset
<1>6. FlushesTyped(rest)
  BY <1>2, <1>3, <1>5 DEF FlushesTyped
<1> QED
  BY <1>2, <1>4, <1>6 DEF IsRest

(* A rate is alarming only if there are fallbacks.                         *)
LEMMA AlarmingHasFallbacks ==
  ASSUME NEW window \in [Buckets -> Nat], Alarming(window)
  PROVE  Decisions(window) >= MinDecisions /\ Fallbacks(window) > 0
<1>1. COVERAGE_OUTCOMES \subseteq Buckets
  BY DEF Buckets
<1>2. Decisions(window) \in Nat /\ Fallbacks(window) \in Nat
  BY <1>1 DEF Decisions, Fallbacks, CoveredOf, COVERAGE_OUTCOMES
<1>3. PICK k \in Nat : k = AlertRate * Decisions(window)
  BY <1>2, CoverageAssumption
<1>4. Fallbacks(window) * 100 > k /\ Decisions(window) >= MinDecisions
  BY <1>3 DEF Alarming
<1> QED
  BY <1>2, <1>4

LEMMA ShutdownCounts == CountsInv /\ Shutdown => CountsInv'
<1> SUFFICES ASSUME CountsInv, Shutdown PROVE CountsInv'
  OBVIOUS
<1>1. PICK new : new = Swapped(metrics)
  OBVIOUS
<1>2. /\ MetricsTyped(new)
      /\ \A o \in Orgs, b \in Buckets : Total(new, o, b) = Total(metrics, o, b)
      /\ AlarmsJustified(new, recorded)
  BY <1>1, SwapKeepsTotals DEF CountsInv
<1>3. /\ metrics' = [metrics EXCEPT !.flushes = Going(new.flushes), !.windows = NoCounts]
      /\ recorded' = recorded
  BY <1>1 DEF Shutdown
<1>4. /\ new.windows = NoCounts /\ new.sent = metrics.sent /\ new.alerted = metrics.alerted
      /\ new.untold = metrics.untold /\ DOMAIN new = DOMAIN metrics
  BY <1>1 DEF Swapped, CountsInv, MetricsTyped
<1>5. /\ metrics'.flushes = Going(new.flushes) /\ metrics'.windows = new.windows /\ metrics'.sent = new.sent
      /\ metrics'.alerted = new.alerted /\ metrics'.untold = new.untold /\ DOMAIN metrics' = DOMAIN new
  BY <1>3, <1>4 DEF CountsInv, MetricsTyped
<1>6. MetricsTyped(metrics')
  BY <1>2, <1>5, GoingTyped DEF MetricsTyped
<1>7. \A o \in Orgs, b \in Buckets : Total(metrics', o, b) = Total(new, o, b)
  BY <1>5, GoingSends DEF Total
<1>8. AlarmsJustified(metrics', recorded)
  BY <1>2, <1>5, GoingSends DEF AlarmsJustified
<1> QED
  BY <1>2, <1>3, <1>6, <1>7, <1>8 DEF CountsInv

LEMMA EmitCounts ==
  ASSUME CountsInv, NEW i \in DOMAIN metrics.flushes, Emit(i)
  PROVE  CountsInv'
<1>1. PICK o \in metrics.flushes[i].todo :
        metrics' = [metrics EXCEPT
          !.flushes = Going(RestOf(metrics.flushes, i, metrics.flushes[i].todo \ {o},
                              IF Alarming(metrics.flushes[i].windows[o]) THEN o ELSE Nowhere)),
          !.sent = [metrics.sent EXCEPT ![o] = [b \in Buckets |->
                      metrics.sent[o][b] + metrics.flushes[i].windows[o][b]]]]
  <2>1. PICK o \in metrics.flushes[i].todo :
          metrics' = [metrics EXCEPT
            !.flushes = Going([metrics.flushes EXCEPT ![i] =
                          [metrics.flushes[i] EXCEPT !.todo = metrics.flushes[i].todo \ {o},
                             !.asking = IF Alarming(metrics.flushes[i].windows[o]) THEN o ELSE Nowhere]]),
            !.sent = [metrics.sent EXCEPT ![o] = [b \in Buckets |->
                        metrics.sent[o][b] + metrics.flushes[i].windows[o][b]]]]
    BY DEF Emit
  <2>2. PICK left : left = metrics.flushes[i].todo \ {o}
    OBVIOUS
  <2>3. PICK asking : asking = IF Alarming(metrics.flushes[i].windows[o]) THEN o ELSE Nowhere
    OBVIOUS
  <2>4. RestOf(metrics.flushes, i, left, asking)
          = [metrics.flushes EXCEPT ![i] = [metrics.flushes[i] EXCEPT !.todo = left, !.asking = asking]]
    BY Zenon DEF RestOf
  <2>5. metrics' = [metrics EXCEPT
            !.flushes = Going(RestOf(metrics.flushes, i, left, asking)),
            !.sent = [metrics.sent EXCEPT ![o] = [b \in Buckets |->
                        metrics.sent[o][b] + metrics.flushes[i].windows[o][b]]]]
    BY <2>1, <2>2, <2>3, <2>4
  <2> QED
    BY <2>2, <2>3, <2>5
<1>2. PICK fl, window, todo, asking, rest :
        /\ fl = metrics.flushes /\ window = fl[i].windows[o] /\ todo = fl[i].todo \ {o}
        /\ asking = IF Alarming(window) THEN o ELSE Nowhere
        /\ rest = RestOf(fl, i, todo, asking)
  OBVIOUS
<1>3. /\ MetricsTyped(metrics) /\ FlushesTyped(fl) /\ recorded \in Counts /\ recorded' = recorded
      /\ metrics.sent \in Counts
  BY <1>2 DEF CountsInv, MetricsTyped, Emit
<1>4. fl[i] \in FlushStates
  BY <1>2, <1>3 DEF FlushesTyped
<1>5. /\ o \in Orgs /\ o \in fl[i].todo /\ window \in [Buckets -> Nat]
      /\ todo \in SUBSET fl[i].todo /\ asking \in Orgs \cup {Nowhere}
  BY <1>1, <1>2, <1>4 DEF FlushStates, Counts
<1>6. /\ FlushesTyped(rest) /\ DOMAIN rest = DOMAIN fl
      /\ \A p \in Orgs, b \in Buckets :
           Sending(rest, p, b) = IF p \in fl[i].todo \ todo THEN Sending(fl, p, b) \ Units(i, fl[i].windows[p][b])
                                 ELSE Sending(fl, p, b)
      /\ \A j \in DOMAIN fl : rest[j].asking = IF j = i THEN asking ELSE fl[j].asking
  <2>1. i \in DOMAIN fl /\ todo \subseteq fl[i].todo
    BY <1>2, <1>5
  <2>2. IsRest(rest, fl, i, todo, asking)
    BY <1>2, <1>3, <1>5, <2>1, RestSends
  <2> QED
    BY <2>2 DEF IsRest
<1>7. /\ metrics'.flushes = Going(rest)
      /\ metrics'.sent = [metrics.sent EXCEPT ![o] = [b \in Buckets |-> metrics.sent[o][b] + window[b]]]
      /\ metrics'.windows = metrics.windows /\ metrics'.untold = metrics.untold
      /\ metrics'.alerted = metrics.alerted /\ DOMAIN metrics' = DOMAIN metrics
  <2>1. metrics' = [metrics EXCEPT !.flushes = Going(rest),
                                   !.sent = [metrics.sent EXCEPT ![o] = [b \in Buckets |-> metrics.sent[o][b] + window[b]]]]
    BY <1>1, <1>2
  <2> QED
    BY <1>3, <2>1 DEF MetricsTyped
<1>8. /\ metrics'.sent \in Counts
      /\ \A p \in Orgs, b \in Buckets :
           metrics'.sent[p][b] = metrics.sent[p][b] + (IF p = o THEN window[b] ELSE 0)
  <2>1. \A p \in Orgs, b \in Buckets : metrics.sent[p][b] \in Nat
    BY <1>3 DEF Counts
  <2>2. PICK w : w = [b \in Buckets |-> metrics.sent[o][b] + window[b]]
    OBVIOUS
  <2>3. w \in [Buckets -> Nat] /\ \A b \in Buckets : w[b] = metrics.sent[o][b] + window[b]
    BY <1>5, <2>1, <2>2
  <2>4. metrics'.sent = [metrics.sent EXCEPT ![o] = w]
    BY <1>7, <2>2
  <2>5. metrics'.sent \in Counts /\ \A p \in Orgs : metrics'.sent[p] = IF p = o THEN w ELSE metrics.sent[p]
    BY <1>3, <2>3, <2>4 DEF Counts
  <2>6. ASSUME NEW p \in Orgs, NEW b \in Buckets
        PROVE  metrics'.sent[p][b] = metrics.sent[p][b] + (IF p = o THEN window[b] ELSE 0)
    <3>1. CASE p = o
      BY <2>3, <2>5, <3>1
    <3>2. CASE p # o
      BY <2>1, <2>5, <3>2
    <3> QED
      BY <3>1, <3>2
  <2> QED
    BY <2>5, <2>6
<1>9. \A b \in Buckets :
        /\ Cardinality(Sending(rest, o, b)) = Cardinality(Sending(fl, o, b)) - window[b]
        /\ window[b] <= Cardinality(Sending(fl, o, b))
  <2> SUFFICES ASSUME NEW b \in Buckets
               PROVE  /\ Cardinality(Sending(rest, o, b)) = Cardinality(Sending(fl, o, b)) - window[b]
                      /\ window[b] <= Cardinality(Sending(fl, o, b))
    OBVIOUS
  <2>1. Sending(rest, o, b) = Sending(fl, o, b) \ Units(i, window[b])
    BY <1>2, <1>5, <1>6
  <2>2. Units(i, window[b]) \in SUBSET Sending(fl, o, b)
    BY <1>2, <1>5, SendingMember
  <2>3. IsFiniteSet(Sending(fl, o, b))
    BY <1>3, <1>5 DEF FlushesTyped
  <2>4. window[b] \in Nat /\ Cardinality(Units(i, window[b])) = window[b]
    BY <1>5, UnitsCount
  <2> QED
    BY <2>1, <2>2, <2>3, <2>4, RemoveUnits
<1>10. MetricsTyped(metrics')
  BY <1>3, <1>6, <1>7, <1>8, GoingTyped DEF MetricsTyped
<1>11. \A p \in Orgs, b \in Buckets : Total(metrics', p, b) = Total(metrics, p, b)
  <2> SUFFICES ASSUME NEW p \in Orgs, NEW b \in Buckets PROVE Total(metrics', p, b) = Total(metrics, p, b)
    OBVIOUS
  <2>1. /\ Cardinality(Waiting(metrics.untold, p, b)) \in Nat /\ metrics.windows[p][b] \in Nat
        /\ Cardinality(Sending(metrics.flushes, p, b)) \in Nat /\ metrics.sent[p][b] \in Nat /\ window[b] \in Nat
    BY <1>3, <1>5, CardinalsAreNat
  <2>2. Sending(metrics'.flushes, p, b) = Sending(rest, p, b)
    BY <1>7, GoingSends
  <2>3. CASE p = o
    <3>1. /\ Cardinality(Sending(rest, p, b)) = Cardinality(Sending(metrics.flushes, p, b)) - window[b]
          /\ metrics'.sent[p][b] = metrics.sent[p][b] + window[b]
      BY <1>2, <1>8, <1>9, <2>3
    <3> QED
      BY <1>7, <2>1, <2>2, <3>1 DEF Total
  <2>4. CASE p # o
    <3>1. Sending(rest, p, b) = Sending(fl, p, b)
      BY <1>2, <1>6, <2>4
    <3> QED
      BY <1>2, <1>7, <1>8, <2>1, <2>2, <2>4, <3>1 DEF Total
  <2> QED
    BY <2>3, <2>4
<1>12. Alarming(window) => Justified(recorded, o)
  <2> SUFFICES ASSUME Alarming(window) PROVE Justified(recorded, o)
    OBVIOUS
  <2>1. \A b \in Buckets : window[b] \in Nat /\ recorded[o][b] \in Nat /\ window[b] <= recorded[o][b]
    <3> SUFFICES ASSUME NEW b \in Buckets
                 PROVE  window[b] \in Nat /\ recorded[o][b] \in Nat /\ window[b] <= recorded[o][b]
      OBVIOUS
    <3>1. /\ Cardinality(Waiting(metrics.untold, o, b)) \in Nat /\ metrics.windows[o][b] \in Nat
          /\ Cardinality(Sending(metrics.flushes, o, b)) \in Nat /\ metrics.sent[o][b] \in Nat
      BY <1>3, <1>5, CardinalsAreNat
    <3>2. recorded[o][b] = Total(metrics, o, b)
      BY <1>5 DEF CountsInv
    <3>3. window[b] \in Nat /\ window[b] <= Cardinality(Sending(metrics.flushes, o, b))
      BY <1>2, <1>5, <1>9
    <3> QED
      BY <3>1, <3>2, <3>3 DEF Total
  <2>2. Decisions(window) >= MinDecisions /\ Fallbacks(window) > 0
    BY <1>5, AlarmingHasFallbacks
  <2>3. COVERAGE_OUTCOMES \subseteq Buckets
    BY DEF Buckets
  <2>4. /\ Decisions(recorded[o]) >= Decisions(window) /\ Fallbacks(recorded[o]) >= Fallbacks(window)
        /\ Decisions(recorded[o]) \in Nat /\ Fallbacks(recorded[o]) \in Nat
        /\ Decisions(window) \in Nat /\ Fallbacks(window) \in Nat
    BY <2>1, <2>3 DEF Decisions, Fallbacks, CoveredOf, COVERAGE_OUTCOMES
  <2> QED
    BY <1>5, <2>2, <2>4, CoverageAssumption DEF Justified
<1>13. AlarmsJustified(metrics', recorded)
  <2>1. \A j \in DOMAIN fl : rest[j].asking # Nowhere => Justified(recorded, rest[j].asking)
    BY <1>2, <1>6, <1>12 DEF CountsInv, AlarmsJustified
  <2>2. \A j \in DOMAIN metrics'.flushes : j \in DOMAIN fl /\ metrics'.flushes[j] = rest[j]
    BY <1>6, <1>7, GoingSends
  <2> QED
    BY <1>7, <2>1, <2>2 DEF CountsInv, AlarmsJustified
<1> QED
  BY <1>3, <1>10, <1>11, <1>13 DEF CountsInv

LEMMA AlertCounts ==
  ASSUME CountsInv, NEW i \in DOMAIN metrics.flushes, AlertOnFallbackRate(i)
  PROVE  CountsInv'
<1>1. PICK fl, alert, rest :
        /\ fl = metrics.flushes /\ alert = fl[i].asking
        /\ rest = RestOf(fl, i, fl[i].todo, Nowhere)
  OBVIOUS
<1>2. /\ MetricsTyped(metrics) /\ FlushesTyped(fl) /\ recorded \in Counts /\ recorded' = recorded
      /\ alert # Nowhere
  BY <1>1 DEF CountsInv, MetricsTyped, AlertOnFallbackRate
<1>3. fl[i] \in FlushStates
  BY <1>1, <1>2 DEF FlushesTyped
<1>4. [fl EXCEPT ![i].asking = Nowhere] = rest
  BY <1>1, <1>3 DEF FlushStates, RestOf
<1>5. PICK told \in {metrics.alerted, metrics.alerted \cup {o \in {alert} : LiveAreas(o) # {}}} :
        metrics' = [metrics EXCEPT !.flushes = Going([@ EXCEPT ![i].asking = Nowhere]), !.alerted = told]
  BY <1>1 DEF AlertOnFallbackRate
<1>6. /\ metrics'.flushes = Going(rest) /\ metrics'.alerted = told
      /\ metrics'.sent = metrics.sent /\ metrics'.windows = metrics.windows
      /\ metrics'.untold = metrics.untold /\ DOMAIN metrics' = DOMAIN metrics
  BY <1>1, <1>2, <1>4, <1>5 DEF MetricsTyped
<1>7. /\ FlushesTyped(rest) /\ DOMAIN rest = DOMAIN fl
      /\ \A p \in Orgs, b \in Buckets : Sending(rest, p, b) = Sending(fl, p, b)
      /\ \A j \in DOMAIN fl : rest[j].asking = IF j = i THEN Nowhere ELSE fl[j].asking
  <2>1. i \in DOMAIN fl /\ fl[i].todo \subseteq fl[i].todo /\ Nowhere \in Orgs \cup {Nowhere}
    BY <1>1
  <2>2. IsRest(rest, fl, i, fl[i].todo, Nowhere)
    BY <1>1, <1>2, <2>1, RestSends
  <2> QED
    BY <2>2 DEF IsRest
<1>8. MetricsTyped(metrics')
  BY <1>2, <1>6, <1>7, GoingTyped DEF MetricsTyped
<1>9. \A p \in Orgs, b \in Buckets : Total(metrics', p, b) = Total(metrics, p, b)
  BY <1>1, <1>6, <1>7, GoingSends DEF Total
<1>10. AlarmsJustified(metrics', recorded)
  <2>1. Justified(recorded, alert)
    BY <1>1, <1>2 DEF CountsInv, AlarmsJustified
  <2>2. \A o \in told : Justified(recorded, o)
    BY <1>5, <2>1 DEF CountsInv, AlarmsJustified
  <2>3. \A j \in DOMAIN metrics'.flushes : j \in DOMAIN fl /\ metrics'.flushes[j] = rest[j]
    BY <1>6, <1>7, GoingSends
  <2>4. \A j \in DOMAIN fl : rest[j].asking # Nowhere => Justified(recorded, rest[j].asking)
    BY <1>1, <1>7 DEF CountsInv, AlarmsJustified
  <2> QED
    BY <1>6, <2>2, <2>3, <2>4 DEF AlarmsJustified
<1> QED
  BY <1>2, <1>8, <1>9, <1>10 DEF CountsInv

LEMMA CountsStep == CountsInv /\ [CoverageNext]_coverageVars => CountsInv'
<1> SUFFICES ASSUME CountsInv, [CoverageNext]_coverageVars PROVE CountsInv'
  OBVIOUS
<1>1. CASE \/ \E batch \in Batches : ReadCoverage(batch)
           \/ \E g \in Goods : Defer(g) \/ DetachGoods(g)
           \/ \E g \in Goods, d \in Drivers : PinGoods(g, d)
           \/ EditMap \/ UNCHANGED coverageVars
  BY <1>1, SameCounts DEF ReadCoverage, Defer, DetachGoods, PinGoods, EditMap, coverageVars
<1>2. CASE \E g \in Goods : PlaceGoods(g) \/ Record(g)
  BY <1>2, PlaceCounts, RecordCounts
<1>3. CASE \E i \in DOMAIN metrics.flushes : Emit(i) \/ AlertOnFallbackRate(i)
  BY <1>3, EmitCounts, AlertCounts
<1>4. CASE Shutdown \/ Start
  BY <1>4, ShutdownCounts, StartCounts
<1> QED
  BY <1>1, <1>2, <1>3, <1>4 DEF CoverageNext

LEMMA CountsInvariance == CoverageSpec => []CountsInv
BY CountsInit, CountsStep, PTL DEF CoverageSpec

-----------------------------------------------------------------------------
(* What the run checks, for every value of the constants.                  *)

LEMMA CoverageOfPlanning == PlanningSpec => CoverageSpec
<1>1. PlanningInit => CoverageInit
  BY Zenon DEF PlanningInit
<1>2. [PlanningNext]_planningVars => [CoverageNext]_coverageVars
  BY Zenon DEF PlanningNext, planningVars
<1> QED
  BY <1>1, <1>2, PTL DEF PlanningSpec, CoverageSpec

(* A map nobody at the warehouse is on, undrawn, retired or unstaffed,     *)
(* gives every driver every address, as with the switch off; there is no   *)
(* driver who covers nothing at all; and what a dispatcher is told of it   *)
(* is so (coverageForPoints, explain).                                     *)
THEOREM AnUnstaffedMapIsHarmless ==
  /\ CoverageSpec => []UnstaffedMapChangesNothing
  /\ PlanningSpec => []AnUnstaffedMapChangesNothing
<1>1. CoverageSpec => []UnstaffedMapChangesNothing
  BY DecisionsInvariance, UnstaffedByRule, PTL
<1>2. UnstaffedMapChangesNothing => AnUnstaffedMapChangesNothing
  BY DEF AnUnstaffedMapChangesNothing
<1> QED
  BY <1>1, <1>2, CoverageOfPlanning, PTL

(* The diagnosis of a placement made under the map as it is now agrees     *)
(* with the outcome recorded when it was made, whatever has been written   *)
(* on the route since, and the summary counts exactly the placements that  *)
(* stand (resolveAssignment, coverageOutcomeFor, summarise).               *)
THEOREM TheDiagnosisIsTrue ==
  /\ CoverageSpec => []DiagnosisAgrees
  /\ PlanningSpec => []TheDiagnosisAgrees
<1>1. CoverageSpec => []DiagnosisAgrees
  BY DecisionsInvariance, DecisionsAreDiagnosed, PTL
<1>2. DiagnosisAgrees => TheDiagnosisAgrees
  BY DEF TheDiagnosisAgrees
<1> QED
  BY <1>1, <1>2, CoverageOfPlanning, PTL

(* Every placement is counted once: it waits to be reported, or is in the  *)
(* window, in a window being sent, or sent; and nobody is alarmed over a   *)
(* handful of packages (CoverageMetricsService record, flush, emit).       *)
THEOREM PlacementsAreCountedOnce ==
  /\ CoverageSpec => []EveryPlacementCounted
  /\ PlanningSpec => []EachPlacementCounted
<1>1. CoverageSpec => []EveryPlacementCounted
  BY CountsInvariance, CountsAreTold, PTL
<1>2. EveryPlacementCounted => EachPlacementCounted
  BY DEF EachPlacementCounted
<1> QED
  BY <1>1, <1>2, CoverageOfPlanning, PTL

LEMMA InsertionOfPlanning == PlanningSpec => InsertionSpec
<1>1. PlanningInit => InsertionInit
  BY Zenon DEF PlanningInit
<1>2. [PlanningNext]_planningVars => [InsertionNext]_insertionVars
  BY Zenon DEF PlanningNext, planningVars
<1> QED
  BY <1>1, <1>2, PTL DEF PlanningSpec, InsertionSpec

(* An estimate never says yes to what cannot be done: on the roads as they *)
(* are, a route either planner has written is driven within the limits of  *)
(* its driver and its window and is at every promised door in time         *)
(* (timeRoute, tryInsert, breachesLimits), for any roads within the        *)
(* margin.                                                                 *)
THEOREM AYesIsTrue ==
  /\ InsertionSpec => []NoFalseYes
  /\ PlanningSpec => []NoFalseYes
<1>1. InsertionSpec => []NoFalseYes
  BY InsertionInvariance, YesIsTrue, PTL
<1> QED
  BY <1>1, InsertionOfPlanning, PTL

(* The van a package goes to does not depend on the order in which the     *)
(* database returned the candidates: the comparisons by which one replaces *)
(* another are a strict order (chooseBest).                                *)
THEOREM TheWinnerIsTheSame ==
  /\ InsertionSpec => []SameWinner
  /\ PlanningSpec => []TheSameWinner
<1>1. InsertionSpec => []SameWinner
  BY InsertionInvariance, OneWinner, PTL
<1>2. SameWinner => TheSameWinner
  BY DEF TheSameWinner
<1> QED
  BY <1>1, <1>2, InsertionOfPlanning, PTL

(* What the instant planner has just accepted is an answer to the request  *)
(* the replan makes of the solver, and the diagnostics report no breach of *)
(* the limits a route was made under (tryInsert, vroomVehicleLimits,       *)
(* evaluateShiftBreaches).                                                 *)
THEOREM TheTiersAgree ==
  /\ InsertionSpec => []TiersAgree
  /\ PlanningSpec => []TiersAgree
<1>1. InsertionSpec => []TiersAgree
  BY InsertionInvariance, TiersDoAgree, PTL
<1> QED
  BY <1>1, InsertionOfPlanning, PTL

(* Nobody is bumped who need not be: only for a package with a promise     *)
(* that fitted on no van, only those who may be, and had the one most      *)
(* entitled to stay been left on board it would not have fitted            *)
(* (pickVictims).                                                          *)
THEOREM OnlyTheNeededAreBumped ==
  /\ InsertionSpec => VictimsAreNeeded
  /\ PlanningSpec => VictimsAreNeeded
BY InsertionStepsBumpTheNeeded, InsertionOfPlanning

=============================================================================
