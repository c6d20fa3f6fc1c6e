------------------------------ MODULE OnDemand ------------------------------
(***************************************************************************)
(* What a person asks of OptimisationService: the mobile wizard that opens *)
(* a shift and puts packages on it, and the button that has every planned  *)
(* shift of a warehouse solved again.  src/optimisation/optimisation.      *)
(* service.ts, with ShiftsService.create behind the wizard.                *)
(*                                                                         *)
(* A wizard opens at most one shift, so a shift goes by its wizard: a      *)
(* retry is another wizard with the same request.                          *)
(***************************************************************************)
EXTENDS Integers, FiniteSets

CONSTANTS
  Wizards, Form,   \* Form[w] : [depot, start, driver, vehicle, packages]
  LocalDay,        \* LocalDay[depot][start]: localShiftDate
  Homes,           \* the homes drivers and vehicles have had, [Crew -> depots] each
  PackageDepot,    \* warehouse_id; NoDepot when the recipient has no location
  NoDepot,
  Allowance,       \* shifts the organisation may still open
  Triggers, At0,   \* who press the button, and the depot each means
  Limit, MaxTime   \* RATE_LIMIT_MINUTES; bound of the clock

ASSUME OnDemandAssumption == {Limit, MaxTime, Allowance} \subseteq Nat /\ Limit > 0

Parcelled == DOMAIN PackageDepot

VARIABLES
  wizard,          \* where each run of the wizard is
  opened,          \* the shift it opened
  claims,          \* optimisation_id of the packages
  home,            \* warehouse_id of drivers and vehicles
  depotLock,       \* pg_advisory_xact_lock assign:<warehouse>
  time,
  trigger,         \* where each triggerRun is, and its transaction's now()
  runLock,         \* pg_advisory_xact_lock of the organisation
  runs             \* optimisation_run

wizardVars == <<wizard, opened, claims, home, depotLock>>
triggerVars == <<trigger, runLock, runs>>
onDemandVars == <<wizardVars, time, triggerVars>>

NoShift == [status |-> "none", day |-> 0]
NoTrigger == [at |-> "idle", now |-> 0]
Unlocked == "unlocked"

ASSUME LockAssumption == Unlocked \notin Triggers

OnDemandInit ==
  /\ wizard = [w \in Wizards |-> "idle"]
  /\ opened = [w \in Wizards |-> NoShift]
  /\ claims = [p \in Parcelled |-> Unlocked]
  /\ home \in Homes
  /\ depotLock = [d \in {Form[w].depot : w \in Wizards} |-> Unlocked]
  /\ time = 0
  /\ trigger = [t \in Triggers |-> NoTrigger]
  /\ runLock = Unlocked
  /\ runs = {}

-----------------------------------------------------------------------------
(* runAdhoc: validation, every answer but the last a refusal.              *)

Becomes(w, at) == wizard' = [wizard EXCEPT ![w] = at]

CheckFleet(w) ==
  /\ wizard[w] = "idle"
  /\ Becomes(w, IF home[Form[w].driver] = home[Form[w].vehicle] THEN "packages" ELSE "400")
  /\ UNCHANGED <<opened, claims, home, depotLock>>

(* Bad input before live contention.                                       *)
CheckPackages(w) ==
  LET asked == Form[w].packages IN
  /\ wizard[w] = "packages"
  /\ Becomes(w, IF \E p \in asked : PackageDepot[p] # Form[w].depot THEN "400"
                ELSE IF \E p \in asked : claims[p] # Unlocked THEN "409" ELSE "crew")
  /\ UNCHANGED <<opened, claims, home, depotLock>>

-----------------------------------------------------------------------------
(* ShiftsService.create.                                                   *)

CheckCrew(w) ==
  /\ wizard[w] = "crew"
  /\ Becomes(w, IF {home[Form[w].driver], home[Form[w].vehicle]} = {Form[w].depot} THEN "lock" ELSE "400")
  /\ UNCHANGED <<opened, claims, home, depotLock>>

LockDepot(w) ==
  /\ wizard[w] = "lock" /\ depotLock[Form[w].depot] = Unlocked
  /\ depotLock' = [depotLock EXCEPT ![Form[w].depot] = w]
  /\ Becomes(w, "clash")
  /\ UNCHANGED <<opened, claims, home>>

Day(w) == LocalDay[Form[w].depot][Form[w].start]

(* Mutant: a shift on the road does not count as open.                     *)
TakenUntilDispatched(w, day) ==
  \E v \in Wizards : /\ opened[v].status = "planned" /\ opened[v].day = day
                     /\ Form[v].driver = Form[w].driver \/ Form[v].vehicle = Form[w].vehicle

(* What the SELECT looks for and the two partial unique indexes refuse.    *)
Taken(w, day) ==
  \E v \in Wizards : /\ opened[v].status \in {"planned", "dispatched"} /\ opened[v].day = day
                     /\ Form[v].driver = Form[w].driver \/ Form[v].vehicle = Form[w].vehicle

Unlocks(w) == depotLock' = [depotLock EXCEPT ![Form[w].depot] = Unlocked]

FindClash(w) ==
  /\ wizard[w] = "clash"
  /\ IF Taken(w, Day(w)) THEN Becomes(w, "409") /\ Unlocks(w)
     ELSE Becomes(w, "insert") /\ UNCHANGED depotLock
  /\ UNCHANGED <<opened, claims, home>>

Billed == {w \in Wizards : opened[w].status # "none"}

(* The insert with its triggers, which answer before the unique indexes    *)
(* do, ensureRoute and the commit: a wizard at another depot, whither the  *)
(* driver has moved, holds another lock.                                   *)
InsertShift(w) ==
  /\ wizard[w] = "insert"
  /\ IF Cardinality(Billed) >= Allowance THEN Becomes(w, "402") /\ UNCHANGED opened
     ELSE IF Taken(w, Day(w)) THEN Becomes(w, "409") /\ UNCHANGED opened
     ELSE Becomes(w, "assign") /\ opened' = [opened EXCEPT ![w] = [status |-> "planned", day |-> Day(w)]]
  /\ Unlocks(w)
  /\ UNCHANGED <<claims, home>>

-----------------------------------------------------------------------------
(* assignToShift gives its verdict on each package; what others have taken *)
(* meanwhile, or the driver's limits forbid, is not added.  It reaches     *)
(* planned shifts only.                                                    *)
AssignToShift(w) ==
  LET free == {p \in Form[w].packages : claims[p] = Unlocked} IN
  /\ wizard[w] = "assign"
  /\ \/ /\ opened[w].status = "planned"
        /\ \E added \in SUBSET free :
             claims' = [p \in Parcelled |-> IF p \in added THEN w ELSE claims[p]]
        /\ Becomes(w, "done")
     \/ Becomes(w, "failed") /\ UNCHANGED claims
  /\ UNCHANGED <<opened, home, depotLock>>

(* A step fails or the process goes down: an open transaction is undone, a *)
(* shift that was opened stays.                                            *)
WizardFails(w) ==
  /\ wizard[w] \in {"packages", "crew", "lock", "clash", "insert", "assign"}
  /\ Becomes(w, "failed")
  /\ IF wizard[w] \in {"clash", "insert"} THEN Unlocks(w) ELSE UNCHANGED depotLock
  /\ UNCHANGED <<opened, claims, home>>

(* The van leaves, and the shift ends: the driver may have another.        *)
Advance(w) ==
  /\ \/ opened[w].status = "planned" /\ opened' = [opened EXCEPT ![w].status = "dispatched"]
     \/ opened[w].status = "dispatched" /\ opened' = [opened EXCEPT ![w].status = "completed"]
  /\ UNCHANGED <<wizard, claims, home, depotLock>>

(* The web app moves a driver or a vehicle to another warehouse.           *)
Rehome ==
  /\ home' \in Homes
  /\ UNCHANGED <<wizard, opened, claims, depotLock>>

-----------------------------------------------------------------------------
(* triggerRun, after the warehouse was found the caller's.                 *)

Goes(t, at) == trigger' = [trigger EXCEPT ![t].at = at]

(* BEGIN: now() is this moment until the commit.                           *)
BeginRun(t) ==
  /\ trigger[t].at = "idle"
  /\ trigger' = [trigger EXCEPT ![t] = [at |-> "lock", now |-> time]]
  /\ UNCHANGED <<runLock, runs>>

(* Mutant: the advisory lock excludes nobody.                              *)
LockOrganisationShared(t) ==
  /\ trigger[t].at = "lock"
  /\ runLock' = t
  /\ Goes(t, "recent")
  /\ UNCHANGED runs

LockOrganisation(t) ==
  /\ trigger[t].at = "lock" /\ runLock = Unlocked
  /\ runLock' = t
  /\ Goes(t, "recent")
  /\ UNCHANGED runs

Counts(r) == r.status \notin {"failed", "skipped"}

FindRecent(t) ==
  /\ trigger[t].at = "recent"
  /\ IF \E r \in runs : Counts(r) /\ r.at > trigger[t].now - Limit
     THEN Goes(t, "429") /\ runLock' = Unlocked
     ELSE Goes(t, "queue") /\ UNCHANGED runLock
  /\ UNCHANGED runs

(* The run, one message a planned shift and the notification, all at the   *)
(* commit; without a planned shift the run is skipped, which does not      *)
(* count.  A run older releases left to their worker is in ReplanQueue.    *)
QueueRun(t) ==
  LET shifts == {w \in Wizards : opened[w].status = "planned" /\ Form[w].depot = At0[t]} IN
  /\ trigger[t].at = "queue"
  /\ runs' = runs \cup {[by |-> t, at |-> trigger[t].now,
                         status |-> IF shifts = {} THEN "skipped" ELSE "completed", queued |-> shifts]}
  /\ Goes(t, "done")
  /\ runLock' = Unlocked

TriggerFails(t) ==
  /\ trigger[t].at \in {"lock", "recent", "queue"}
  /\ Goes(t, "failed")
  /\ runLock' = IF trigger[t].at = "lock" THEN runLock ELSE Unlocked
  /\ UNCHANGED runs

Tick == time < MaxTime /\ time' = time + 1

WizardNext ==
  /\ \/ \E w \in Wizards : \/ CheckFleet(w) \/ CheckPackages(w) \/ CheckCrew(w) \/ LockDepot(w) \/ FindClash(w)
                            \/ InsertShift(w) \/ AssignToShift(w) \/ WizardFails(w)
     \/ Rehome
  /\ UNCHANGED <<time, triggerVars>>

RoadNext == \E w \in Wizards : Advance(w) /\ UNCHANGED <<time, triggerVars>>

TriggerNext ==
  \/ /\ \E t \in Triggers : BeginRun(t) \/ LockOrganisation(t) \/ FindRecent(t) \/ QueueRun(t) \/ TriggerFails(t)
     /\ UNCHANGED <<wizardVars, time>>
  \/ Tick /\ UNCHANGED <<wizardVars, triggerVars>>

OnDemandNext == WizardNext \/ RoadNext \/ TriggerNext

OnDemandSpec == OnDemandInit /\ [][OnDemandNext]_onDemandVars

-----------------------------------------------------------------------------
(* A wizard that is pressed twice, fails after it opened its shift and is  *)
(* tried again, or runs at two depots while the driver moves between them, *)
(* never has an organisation billed for two shifts one driver or one van   *)
(* drives on one day, unless the first is over.                            *)
WizardBillsOnce ==
  \A v, w \in Wizards :
    /\ v # w /\ opened[v].day = opened[w].day
    /\ {opened[v].status, opened[w].status} \subseteq {"planned", "dispatched"}
    => Form[v].driver # Form[w].driver /\ Form[v].vehicle # Form[w].vehicle

(* Two runs that count are Limit apart, though a transaction that waited   *)
(* for the lock stamps its run with the moment it began.                   *)
RunsAreSpaced ==
  \A r, s \in {x \in runs : Counts(x)} : r # s => r.at - s.at >= Limit \/ s.at - r.at >= Limit
=============================================================================
