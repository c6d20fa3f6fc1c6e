------------------------------ MODULE Dispatch ------------------------------
(***************************************************************************)
(* The whole dispatch subsystem of one warehouse: instant assignment       *)
(* (Tier1) together with the two other planners that write the same        *)
(* tables, the replan worker and the dispatcher's hand edits.              *)
(*                                                                         *)
(* Neither of these two looks at the revision before it writes.  A hand    *)
(* edit reads the shift before it takes the warehouse's lock; a replan     *)
(* never takes that lock, only replan:<shift>, and calls the solver        *)
(* between its reads and its write.                                        *)
(***************************************************************************)
EXTENDS Tier1

CONSTANTS Workers,    \* one ReplanWorker per replica; its calls of assign()
          Editors,    \* requests of a dispatcher to add or remove a package
          Routable(_, _, _), \* what the solver, which has the road network,
                             \* makes of a driver, a vehicle and a set of stops
          MaxRetries,
          SharedPool  \* pg_advisory_unlock may go out on another connection

ASSUME WorkerAssumption == /\ Workers \subseteq Calls
                           /\ Nobody \notin Workers
                           /\ Packages # {}
                           /\ MaxRetries \in Nat \ {0}
                           /\ SharedPool \in BOOLEAN

VARIABLES job,      \* the message each worker is handling, and its batch
          held,     \* the advisory lock replan:<shift>
          attempts, \* read_ct of the oldest message of each shift
          dropped,  \* history: the worker logged that it gave a replan up, and
                    \* no worker has read the shift's packages since
          edit      \* each hand edit, between its reads and its write

workerVars == <<job, held, attempts, dropped>>
dispatchVars == <<vars, workerVars, edit>>

NoJob == [at |-> "idle", batch |-> {}, shift |-> NoShift, packages |-> {}, left |-> {}]

Jobs == [at       : {"idle", "batch", "shift", "packages", "solve", "assign"},
         batch    : SUBSET Shifts,   \* read and not handled yet
         shift    : Shifts \cup {NoShift},
         packages : SUBSET Packages, \* what the shift claimed when it was read
         left     : SUBSET Packages] \* dropped by the solver, not re-assigned yet

NoEdit == [at |-> "idle", kind |-> "add", shift |-> NoShift,
           pkg |-> CHOOSE p \in Packages : TRUE, route |-> {}, wanted |-> FALSE]

Edits == [at     : {"idle", "stops", "package", "write", "done"},
          kind   : {"add", "remove"},
          shift  : Shifts \cup {NoShift},
          pkg    : Packages,
          route  : SUBSET Packages,
          wanted : BOOLEAN] \* add: the package was not on another shift

DispatchInit ==
  /\ Init
  /\ \A w \in Workers : pkg[w] = CHOOSE p \in Packages : TRUE
  /\ job = [w \in Workers |-> NoJob]
  /\ held = [s \in Shifts |-> Nobody]
  /\ attempts = [s \in Shifts |-> 0]
  /\ dropped = {}
  /\ edit = [e \in Editors |-> NoEdit]

----------------------------------------------------------------------------
(* The replan worker: one message at a time, on behalf of its whole batch. *)

(* drainOnce: every visible message, duplicates of a shift counted once.   *)
ReadBatch(w) ==
  /\ job[w].at = "idle"
  /\ db.replans # {}
  /\ job' = [job EXCEPT ![w].at = "batch", ![w].batch = db.replans]
  /\ attempts' = [s \in Shifts |-> IF s \in db.replans /\ attempts[s] < MaxRetries
                                   THEN attempts[s] + 1 ELSE attempts[s]]
  /\ db' = [db EXCEPT !.replans = {}]
  /\ UNCHANGED <<callVars, held, dropped>>

EmptyBatch(w) ==
  /\ job[w].at = "batch"
  /\ job[w].batch = {}
  /\ job' = [job EXCEPT ![w] = NoJob]
  /\ UNCHANGED <<vars, held, attempts, dropped>>

(* pg_try_advisory_lock: re-entrant on the connection that has it.         *)
TryLock(w, s) ==
  /\ job[w].at = "batch"
  /\ s \in job[w].batch
  /\ held[s] \in {Nobody, w}
  /\ held' = [held EXCEPT ![s] = w]
  /\ job' = [job EXCEPT ![w].at = "shift", ![w].shift = s, ![w].batch = @ \ {s}]
  /\ UNCHANGED <<vars, attempts, dropped>>

(* Another session has it: the message is archived, solved or not.         *)
SkipLocked(w, s) ==
  /\ job[w].at = "batch"
  /\ s \in job[w].batch
  /\ held[s] # Nobody
  /\ held[s] = w => SharedPool
  /\ job' = [job EXCEPT ![w].batch = @ \ {s}]
  /\ attempts' = [attempts EXCEPT ![s] = 0]
  /\ dropped' = dropped \cup {s}
  /\ UNCHANGED <<vars, held>>

(* The end of replanShift, whatever made it end.                           *)
NextMessage(w) ==
  job' = [job EXCEPT ![w] = [NoJob EXCEPT !.at = "batch", !.batch = job[w].batch]]

Unlock(w) ==
  \/ held' = [held EXCEPT ![job[w].shift] = Nobody]
  \/ SharedPool /\ UNCHANGED held

Archive(w) ==
  /\ NextMessage(w)
  /\ Unlock(w)
  /\ attempts' = [attempts EXCEPT ![job[w].shift] = 0]

(* loadShift, and the return for a van that has rolled.                    *)
LoadShift(w) ==
  /\ job[w].at = "shift"
  /\ IF db.status[job[w].shift] = "planned"
     THEN /\ job' = [job EXCEPT ![w].at = "packages"]
          /\ UNCHANGED <<held, attempts>>
     ELSE Archive(w)
  /\ UNCHANGED <<vars, dropped>>

(* loadShiftPackages, and the return for a shift without any.              *)
LoadShiftPackages(w) ==
  /\ job[w].at = "packages"
  /\ LET claimed == {p \in Packages : db.optimisation[p] = job[w].shift}
     IN  IF claimed # {}
         THEN /\ job' = [job EXCEPT ![w].at = "solve", ![w].packages = claimed]
              /\ UNCHANGED <<held, attempts>>
         ELSE Archive(w)
  /\ dropped' = dropped \ {job[w].shift}
  /\ UNCHANGED vars

(* The solver leaves out no package it has room for.                       *)
Solutions(s, packages) ==
  {stops \in SUBSET packages :
     /\ Routable(db.driver[s], db.vehicle[s], stops)
     /\ \A p \in packages \ stops : ~Routable(db.driver[s], db.vehicle[s], stops \cup {p})}

(* One transaction: what the solver left out is detached, then the plan is *)
(* rewritten.  Nothing is claimed, and no revision or status is looked at. *)
Replanned(d, s, stops, unassigned) ==
  WritePlan(Detach(SnapshotRevision(d, s), unassigned, 0), s, stops)

CanReplan(d, s, stops, unassigned) == CanWritePlan(Detach(d, unassigned, 0), s, stops)

WriteReplan(w) ==
  /\ job[w].at = "solve"
  /\ LET s == job[w].shift IN
     \E stops \in Solutions(s, job[w].packages) :
       LET unassigned == job[w].packages \ stops IN
       /\ CanReplan(db, s, stops, unassigned)
       /\ db' = Replanned(db, s, stops, unassigned)
       /\ job' = [job EXCEPT ![w].at = "assign", ![w].packages = {}, ![w].left = unassigned]
  /\ UNCHANGED <<callVars, held, attempts, dropped>>

(* breachesLimits: the plan is left as it is.                              *)
RefuseReplan(w) ==
  /\ job[w].at = "solve"
  /\ Archive(w)
  /\ dropped' = dropped \cup {job[w].shift}
  /\ UNCHANGED vars

(* Mutant: handleMessage archives a message whose handling failed.         *)
ForgetReplan(w) ==
  /\ job[w].at \in {"shift", "packages", "solve"}
  /\ Archive(w)
  /\ UNCHANGED <<vars, dropped>>

(* A query, the solver or the write fails: the message comes back after    *)
(* the visibility timeout, until it has been read MAX_RETRIES times.       *)
FailReplan(w) ==
  /\ job[w].at \in {"shift", "packages", "solve"}
  /\ NextMessage(w)
  /\ Unlock(w)
  /\ LET s == job[w].shift IN
     IF attempts[s] < MaxRetries
     THEN /\ db' = EnqueueReplan(db, s)
          /\ UNCHANGED <<attempts, dropped>>
     ELSE /\ attempts' = [attempts EXCEPT ![s] = 0]
          /\ dropped' = dropped \cup {s}
          /\ UNCHANGED db
  /\ UNCHANGED callVars

(* What the solver left out goes back through assign(), one by one.        *)
AssignLeftOut(w) ==
  /\ job[w].at = "assign"
  /\ pc[w] \in {"idle", "done"}
  /\ \E p \in job[w].left :
       /\ pkg' = [pkg EXCEPT ![w] = p]
       /\ job' = [job EXCEPT ![w].left = @ \ {p}]
  /\ pc' = [pc EXCEPT ![w] = "load"]
  /\ evicts' = [evicts EXCEPT ![w] = TRUE]
  /\ UNCHANGED <<db, tries, owed, seen, held, attempts, dropped>>

FinishReplan(w) ==
  /\ job[w].at = "assign"
  /\ job[w].left = {}
  /\ pc[w] \in {"idle", "done"}
  /\ pc' = [pc EXCEPT ![w] = "idle"]
  /\ Archive(w)
  /\ UNCHANGED <<db, pkg, evicts, tries, owed, seen, dropped>>

(* The replica dies: its sessions close, its messages become visible.      *)
(* Bound: a message outlives fewer than MaxRetries crashes.                *)
CrashWorker(w) ==
  /\ job[w].at # "idle"
  /\ \A s \in job[w].batch \cup ({job[w].shift} \ {NoShift}) : attempts[s] < MaxRetries
  /\ db' = [db EXCEPT !.replans = @ \cup job[w].batch \cup ({job[w].shift} \ {NoShift})]
  /\ job' = [job EXCEPT ![w] = NoJob]
  /\ held' = [s \in Shifts |-> IF held[s] = w THEN Nobody ELSE held[s]]
  /\ pc' = [pc EXCEPT ![w] = "idle"]
  /\ owed' = [owed EXCEPT ![w] = {}]
  /\ seen' = [seen EXCEPT ![w] = Nothing]
  /\ tries' = [tries EXCEPT ![w] = 0]
  /\ UNCHANGED <<pkg, evicts, attempts, dropped>>

(* The pool closes the idle connection a lock was left behind on.          *)
CloseIdle(s) ==
  /\ held[s] # Nobody
  /\ job[held[s]].shift # s
  /\ held' = [held EXCEPT ![s] = Nobody]
  /\ UNCHANGED <<vars, job, attempts, dropped>>

ReplanWork(w) ==
  \/ ReadBatch(w) \/ EmptyBatch(w)
  \/ \E s \in Shifts : TryLock(w, s) \/ SkipLocked(w, s)
  \/ LoadShift(w) \/ LoadShiftPackages(w)
  \/ WriteReplan(w) \/ RefuseReplan(w) \/ FailReplan(w)
  \/ AssignLeftOut(w) \/ FinishReplan(w)

----------------------------------------------------------------------------
(* assignToShift and removeFromShift, for one package.                     *)

(* loadShiftForEdit: only a removal may touch a van that has rolled.       *)
OpenEdit(e) ==
  /\ edit[e].at = "idle"
  /\ \E s \in Shifts, p \in Packages, kind \in {"add", "remove"} :
       /\ IsOpen(db, s)
       /\ kind = "add" => db.status[s] = "planned"
       /\ edit' = [edit EXCEPT ![e] = [@ EXCEPT !.at = "stops", !.kind = kind,
                                                !.shift = s, !.pkg = p]]
  /\ UNCHANGED db

(* loadStops; a package that is not there or is loaded cannot be removed.  *)
ReadStops(e) ==
  /\ edit[e].at = "stops"
  /\ LET p     == edit[e].pkg
         stops == db.route[edit[e].shift]
         movable == p \in stops /\ db.timeline[p] \in {"ASSIGNED", "PENDING"}
     IN  edit' = [edit EXCEPT ![e] =
           IF edit[e].kind = "add" THEN [@ EXCEPT !.at = "package", !.route = stops]
           ELSE IF movable THEN [@ EXCEPT !.at = "write", !.route = stops]
           ELSE [NoEdit EXCEPT !.at = "done"]]
  /\ UNCHANGED db

(* loadPackagesForShift: another shift's package is left where it is.      *)
ReadPackage(e) ==
  /\ edit[e].at = "package"
  /\ edit' = [edit EXCEPT ![e] =
       [@ EXCEPT !.at = "write",
                 !.wanted = db.optimisation[edit[e].pkg] \in {NoShift, edit[e].shift}]]
  /\ UNCHANGED db

(* Under the lock, on the stops that were read before it: a pin is added   *)
(* whether it fits or not.                                                 *)
Pinned(e) == edit[e].route \cup {p \in {edit[e].pkg} : edit[e].wanted}

Repinned(e) ==
  WritePlan(SnapshotRevision(db, edit[e].shift), edit[e].shift, Pinned(e))

(* Mutant: the edit is not queued for a replan.                            *)
WriteAddUnqueued(e) ==
  LET s     == edit[e].shift
      added == {p \in {edit[e].pkg} : edit[e].wanted}
  IN  /\ edit[e].at = "write" /\ edit[e].kind = "add"
      /\ db' = IF /\ added \cap edit[e].route = {}
                  /\ CanWritePlan(db, s, Pinned(e))
                  /\ CanClaim(db, s, added)
               THEN ClaimPackages(Repinned(e), s, added)
               ELSE db
      /\ edit' = [edit EXCEPT ![e] = [NoEdit EXCEPT !.at = "done"]]

WriteAdd(e) ==
  LET s     == edit[e].shift
      added == {p \in {edit[e].pkg} : edit[e].wanted}
  IN  /\ edit[e].at = "write" /\ edit[e].kind = "add"
      /\ db' = IF /\ added \cap edit[e].route = {}
                  /\ CanWritePlan(db, s, Pinned(e))
                  /\ CanClaim(db, s, added)
               THEN EnqueueReplan(ClaimPackages(Repinned(e), s, added), s)
               ELSE db
      /\ edit' = [edit EXCEPT ![e] = [NoEdit EXCEPT !.at = "done"]]

WriteRemove(e) ==
  LET s    == edit[e].shift
      left == edit[e].route \ {edit[e].pkg}
      cut  == Detach(db, {edit[e].pkg}, 0)
  IN  /\ edit[e].at = "write" /\ edit[e].kind = "remove"
      /\ db' = IF CanWritePlan(cut, s, left)
               THEN EnqueueReplan(WritePlan(SnapshotRevision(cut, s), s, left), s)
               ELSE db
      /\ edit' = [edit EXCEPT ![e] = [NoEdit EXCEPT !.at = "done"]]

HandEdit(e) ==
  /\ \/ OpenEdit(e) \/ ReadStops(e) \/ ReadPackage(e)
     \/ WriteAdd(e) \/ WriteRemove(e)
  /\ UNCHANGED <<callVars, workerVars>>

----------------------------------------------------------------------------
Assigning(c) == Work(c) /\ UNCHANGED <<workerVars, edit>>

Requests ==
  /\ \E c \in Calls \ Workers : Begin(c) \/ Crash(c)
  /\ UNCHANGED <<workerVars, edit>>

DispatchNext ==
  \/ People /\ UNCHANGED <<workerVars, edit>>
  \/ Requests
  \/ \E c \in Calls : Assigning(c)
  \/ \E w \in Workers : (ReplanWork(w) \/ CrashWorker(w)) /\ UNCHANGED edit
  \/ (\E s \in Shifts : CloseIdle(s)) /\ UNCHANGED edit
  \/ \E e \in Editors : HandEdit(e)

(* A handler that began runs to its end, and the worker polls on: a drain  *)
(* that failed is repeated by the next notification or the safety net.     *)
(* Dispatchers, drivers and failures owe nobody a step.                    *)
DispatchSpec ==
  /\ DispatchInit /\ [][DispatchNext]_dispatchVars
  /\ \A c \in Calls : WF_dispatchVars(Assigning(c))
  /\ \A w \in Workers : WF_dispatchVars(ReplanWork(w) /\ UNCHANGED edit)

----------------------------------------------------------------------------
DispatchTypeOK ==
  /\ TypeOK
  /\ job \in [Workers -> Jobs]
  /\ held \in [Shifts -> Workers \cup {Nobody}]
  /\ attempts \in [Shifts -> 0..MaxRetries]
  /\ dropped \subseteq Shifts
  /\ edit \in [Editors -> Edits]

(* A package a planned shift claims but has no stop for (a stale rewrite   *)
(* lost it) is on its way back: a replan of that shift is queued, or one   *)
(* is running that has the package or has not read the packages yet.  Only *)
(* a replan the worker gave up breaks that promise.                        *)
Replanning(w, s, p) ==
  \/ s \in job[w].batch
  \/ /\ job[w].shift = s
     /\ job[w].at \in {"shift", "packages"} \/ p \in job[w].packages

LostStopIsQueued ==
  \A p \in Packages, s \in Shifts :
    db.status[s] = "planned" /\ db.optimisation[p] = s /\ p \notin db.route[s] =>
      s \in db.replans \/ s \in dropped \/ \E w \in Workers : Replanning(w, s, p)

(* ... and it gets there: a stop that was lost is planned again, or its    *)
(* package leaves the shift, or the van leaves, or the worker logs that it *)
(* gave the replan up.                                                     *)
LostStopIsSettled ==
  \A p \in Packages, s \in Shifts :
    db.status[s] = "planned" /\ db.optimisation[p] = s /\ p \notin db.route[s] ~>
      \/ db.status[s] # "planned" \/ db.optimisation[p] # s
      \/ p \in db.route[s] \/ s \in dropped

(* Refuted: replanShift, "if another replica is already solving this shift *)
(* there is nothing useful to wait for -- its solve will include whatever  *)
(* this one would have".  A package placed after that replica read its     *)
(* packages is in neither solve.                                           *)
SkippedSolveIsCovered ==
  [][\A w \in Workers, s \in Shifts : SkipLocked(w, s) =>
       \A p \in Packages : db.optimisation[p] = s =>
         \E other \in Workers \ {w} : Replanning(other, s, p)]_dispatchVars

=============================================================================
