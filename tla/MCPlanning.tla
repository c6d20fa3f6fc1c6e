----------------------------- MODULE MCPlanning -----------------------------
(***************************************************************************)
(* Three models checked by one run: a behaviour is one of the whole-       *)
(* warehouse solve, or of one warehouse's insertions, or of an             *)
(* organisation's coverage, and the other two stay as they began.          *)
(***************************************************************************)
EXTENDS MCWarehouseRun, MCInsertion, MCCoverage

VARIABLE focus

PlanningInit ==
  /\ focus \in {"run", "insertion", "coverage"}
  /\ IF focus = "run" THEN RunInit ELSE RunInit /\ \A p \in Parcels : parcel[p].departure = None
  /\ IF focus = "insertion" THEN InsertionInit
     ELSE InsertionInit /\ policy = CHOOSE x \in Policies : TRUE
  /\ IF focus = "coverage" THEN CoverageInit ELSE CoverageInit /\ process.matching

PlanningNext ==
  /\ UNCHANGED focus
  /\ \/ focus = "run" /\ RunNext /\ UNCHANGED <<insertionVars, coverageVars>>
     \/ focus = "insertion" /\ InsertionNext /\ UNCHANGED <<runVars, coverageVars>>
     \/ focus = "coverage" /\ CoverageNext /\ UNCHANGED <<runVars, insertionVars>>

planningVars == <<focus, runVars, insertionVars, coverageVars>>

PlanningSpec == PlanningInit /\ [][PlanningNext]_planningVars

-----------------------------------------------------------------------------
(* The invariants that take long to evaluate are evaluated where their     *)
(* variables move.                                                         *)

(* Insertion: the winner does not depend on the order of the candidates.   *)
TheSameWinner == focus = "insertion" => SameWinner

(* Coverage: a map nobody is on changes nothing.                           *)
AnUnstaffedMapChangesNothing == focus = "coverage" => UnstaffedMapChangesNothing

(* Coverage: the diagnosis agrees with what was recorded.                  *)
TheDiagnosisAgrees == focus = "coverage" => DiagnosisAgrees

(* Coverage: every placement is counted once.                              *)
EachPlacementCounted == focus = "coverage" => EveryPlacementCounted
=============================================================================
