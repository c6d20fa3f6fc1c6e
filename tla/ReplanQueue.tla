---------------------------- MODULE ReplanQueue ----------------------------
(***************************************************************************)
(* The replan queue message by message: pgmq with its visibility timeout,  *)
(* the drains of one ReplanWorker per replica, and the job an older        *)
(* release left on the queue, the whole-warehouse run.                     *)
(* src/dispatch/queue.service.ts, src/dispatch/replan.worker.ts            *)
(*                                                                         *)
(* A drain may start at any moment, since a notification or the sweep      *)
(* timer wakes it: what notifications are worth is the matter of Notify.   *)
(* What a solve reads and writes is the matter of Dispatch: here it is the *)
(* set of requests that were on the queue when it read the shift.          *)
(***************************************************************************)
EXTENDS Integers, FiniteSets, Sequences, Functions

CONSTANTS
  Replicas,
  Shifts,
  OnDemand,        \* kind: 'on_demand', queued by an older release
  Nightly,         \* a message without a kind, queued by a yet older one
  Leftovers,       \* what those releases may have left: sequences of the two
  Nobody,
  MaxMessages,     \* bound: messages ever sent
  BatchSize,
  MaxRetries,
  SharedPool       \* pg_advisory_unlock may go out on another connection

ASSUME QueueAssumption ==
  /\ {MaxMessages, MaxRetries, BatchSize} \subseteq Nat \ {0}
  /\ SharedPool \in BOOLEAN
  /\ \A l \in Leftovers :
       /\ l \in Seq({OnDemand, Nightly}) /\ Len(l) <= MaxMessages
       /\ \A i, j \in 1..Len(l) : l[i] = OnDemand /\ l[j] = OnDemand => i = j
  /\ OnDemand # Nightly /\ Shifts \cap {OnDemand, Nightly} = {}
  /\ Nobody \notin Replicas /\ IsFiniteSet(Shifts)

Ids == 1..MaxMessages
Subjects == Shifts \cup {OnDemand, Nightly}

VARIABLES
  queue,           \* by msg_id, what each message says and where it is
  worker,          \* the drain of each replica
  held,            \* the advisory lock replan:<shift>
  run,             \* the optimisation_run the leftover message names
  settled,         \* history: requests a solve has answered, or a skip dropped
  tries,           \* history: readings since a shift has had messages
  disturbed        \* history: the run's handling was cut short or repeated

histVars == <<settled, tries, disturbed>>
queueVars == <<queue, worker, held, run, histVars>>

Unsent == [subject |-> Nightly, at |-> "unsent", reads |-> 0]

Messages == [subject : Subjects,
             at      : {"unsent", "visible", "hidden", "gone"},
             reads   : 0..MaxRetries]     \* read_ct, as far as it matters

NoDrain == [at |-> "idle", batch |-> {}, seen |-> {},
            msg |-> 0, answers |-> {}, outcome |-> "none"]

Workers == [at      : {"idle", "read", "batch", "load", "solve", "solved",
                       "build", "insert", "archive", "report"},
            batch   : SUBSET Ids,         \* read and not handled yet
            seen    : SUBSET Shifts,      \* seenShifts
            msg     : Ids \cup {0},       \* the message being handled
            answers : SUBSET Ids,         \* what the solve will have answered
            outcome : {"none", "completed", "skipped", "failed"}]

Live(m) == queue[m].at \in {"visible", "hidden"}
Subject(r) == queue[worker[r].msg].subject

(* Every message of a shift is a request to solve it again, and any of them*)
(* will do to have it solved: a request is waited for until it is settled, *)
(* while one of the shift's messages is left.                              *)
Requested(s) == {m \in Ids : queue[m].at # "unsent" /\ queue[m].subject = s}
Queued(s) == {m \in Requested(s) : Live(m)}
Asked == {s \in Shifts : Queued(s) # {} /\ ~(Requested(s) \subseteq settled)}

Sent(kind) == [subject |-> kind, at |-> "visible", reads |-> 0]

QueueInit ==
  /\ \E l \in Leftovers :
       queue = [m \in Ids |-> IF m <= Len(l) THEN Sent(l[m]) ELSE Unsent]
  /\ worker = [r \in Replicas |-> NoDrain]
  /\ held = [s \in Shifts |-> Nobody]
  /\ run = [status |-> "queued", packages |-> "pending", plans |-> 0]
  /\ settled = {}
  /\ tries = [s \in Shifts |-> 0]
  /\ disturbed = FALSE

-----------------------------------------------------------------------------
(* enqueueReplan: one message a shift, the ids going up, in *)
(* the transaction of what asks for them.                                  *)
Enqueue(shifts) ==
  LET unused == {m \in Ids : queue[m].at = "unsent"}
      new    == {m \in unused : Cardinality({k \in unused : k < m}) < Cardinality(shifts)}
  IN  /\ shifts # {} /\ Cardinality(new) = Cardinality(shifts)
      /\ \E f \in Bijection(new, shifts) :
           queue' = [m \in Ids |-> IF m \in new THEN Sent(f[m]) ELSE queue[m]]

EnqueueReplans ==
  /\ \E shifts \in SUBSET Shifts : Enqueue(shifts)
  /\ UNCHANGED <<worker, held, run, histVars>>

(* pgmq: a hidden message is anybody's again when its visibility timeout   *)
(* is over, which twenty solves in one batch may well outlast.             *)
TimeoutExpires(m) ==
  /\ queue[m].at = "hidden"
  /\ queue' = [queue EXCEPT ![m].at = "visible"]
  /\ disturbed' = (disturbed \/ \E r \in Replicas : m \in worker[r].batch \cup {worker[r].msg})
  /\ UNCHANGED <<worker, held, run, settled, tries>>

-----------------------------------------------------------------------------
(* drain and drainOnce.                                                    *)

(* Single flight: a drain asked for during another follows it at once, and *)
(* since one may be asked for at any moment, a pass may end either way.    *)
Drain(r) ==
  /\ worker[r].at = "idle"
  /\ worker' = [worker EXCEPT ![r].at = "read"]
  /\ UNCHANGED <<queue, held, run, histVars>>

EndPass(r) == \E next \in {"read", "idle"} :
                worker' = [worker EXCEPT ![r] = [NoDrain EXCEPT !.at = next]]

(* pgmq.read: the oldest visible ones.                                     *)
ReadBatch(r) ==
  LET visible == {m \in Ids : queue[m].at = "visible"}
      batch   == {m \in visible : Cardinality({k \in visible : k < m}) < BatchSize}
      taken   == {s \in Shifts : \E m \in batch : queue[m].subject = s}
  IN  /\ worker[r].at = "read"
      /\ batch # {}
      /\ queue' = [m \in Ids |-> IF m \in batch
                     THEN [queue[m] EXCEPT !.at = "hidden", !.reads = IF @ < MaxRetries THEN @ + 1 ELSE @]
                     ELSE queue[m]]
      /\ worker' = [worker EXCEPT ![r].at = "batch", ![r].batch = batch]
      /\ tries' = [s \in Shifts |-> IF s \in taken /\ tries[s] < MaxRetries
                                     THEN tries[s] + 1 ELSE tries[s]]
      /\ UNCHANGED <<held, run, settled, disturbed>>

(* Nothing to read, or the read fails.                                     *)
ReadNothing(r) ==
  /\ worker[r].at = "read" \/ (worker[r].at = "batch" /\ worker[r].batch = {})
  /\ EndPass(r)
  /\ UNCHANGED <<queue, held, run, histVars>>

Archived(m) == [queue EXCEPT ![m].at = "gone"]

(* A shift without a message on the queue starts counting from nothing.    *)
Recount ==
  tries' = [s \in Shifts |-> IF Queued(s)' # {} THEN tries[s] ELSE 0]

(* A second message of a shift in one batch is archived unhandled, whatever*)
(* became of the first.                                                    *)
ArchiveDuplicate(r, m) ==
  /\ worker[r].at = "batch" /\ m \in worker[r].batch
  /\ queue[m].subject \in worker[r].seen
  /\ queue' = Archived(m)
  /\ worker' = [worker EXCEPT ![r].batch = @ \ {m}]
  /\ UNCHANGED <<held, run, settled, disturbed>>
  /\ Recount

NextMessage(r) == [worker[r] EXCEPT !.at = "batch", !.msg = 0, !.answers = {}, !.outcome = "none"]

-----------------------------------------------------------------------------
(* handleMessage: a replan.                                                *)

Unhandled(r, m) ==
  /\ worker[r].at = "batch" /\ m \in worker[r].batch
  /\ queue[m].subject \in Shifts \ worker[r].seen

Begun(r, m) == [worker[r] EXCEPT !.batch = @ \ {m}, !.seen = @ \cup {queue[m].subject}]

TryLock(r, m) ==
  LET s == queue[m].subject IN
  /\ Unhandled(r, m)
  /\ held[s] \in {Nobody, r}
  /\ held' = [held EXCEPT ![s] = r]
  /\ worker' = [worker EXCEPT ![r] = [Begun(r, m) EXCEPT !.at = "load", !.msg = m]]
  /\ UNCHANGED <<queue, run, histVars>>

(* "already being replanned": the message is archived like a handled one,  *)
(* and the shift's other messages in the batch will be after it.  With     *)
(* them goes whatever was asked by a message that is off the queue.        *)
SkipLocked(r, m) ==
  LET s == queue[m].subject IN
  /\ Unhandled(r, m)
  /\ held[s] # Nobody
  /\ held[s] = r => SharedPool
  /\ queue' = Archived(m)
  /\ settled' = settled \cup {k \in Requested(s) : ~Live(k) \/ k \in worker[r].batch}
  /\ worker' = [worker EXCEPT ![r] = Begun(r, m)]
  /\ UNCHANGED <<held, run, disturbed>>
  /\ Recount

(* What throws before the message is handled, the archiving of a skipped   *)
(* or unknown one included, is counted against it like what throws later:  *)
(* the message waits for its timeout, and is deleted after MAX_RETRIES.    *)
FailEarly(r, m) ==
  /\ worker[r].at = "batch" /\ m \in worker[r].batch
  /\ queue[m].subject \notin worker[r].seen
  /\ queue' = IF queue[m].reads >= MaxRetries THEN Archived(m) ELSE queue
  /\ worker' = [worker EXCEPT ![r].batch = @ \ {m},
                              ![r].seen = @ \cup ({queue[m].subject} \cap Shifts)]
  /\ UNCHANGED <<held, run, settled, disturbed>>
  /\ Recount

(* loadShift and loadShiftPackages: the requests sent by now are answered  *)
(* by what follows.                                                        *)
LoadShift(r) ==
  /\ worker[r].at = "load"
  /\ worker' = [worker EXCEPT ![r].at = "solve",
                              ![r].answers = Requested(Subject(r))]
  /\ UNCHANGED <<queue, held, run, histVars>>

(* The plan is rewritten, or left as it is: the van has rolled, it has no  *)
(* depot, driver, vehicle or package, or the solver's answer breaches the  *)
(* driver's limits.                                                        *)
Answer(r) ==
  /\ worker[r].at = "solve"
  /\ settled' = settled \cup worker[r].answers
  /\ worker' = [worker EXCEPT ![r].at = "solved"]
  /\ UNCHANGED <<queue, held, run, disturbed>>
  /\ Recount

Unlock(r) ==
  \/ held' = [held EXCEPT ![Subject(r)] = Nobody]
  \/ SharedPool /\ UNCHANGED held

ArchiveReplan(r) ==
  /\ worker[r].at = "solved"
  /\ queue' = Archived(worker[r].msg)
  /\ worker' = [worker EXCEPT ![r] = NextMessage(r)]
  /\ Unlock(r)
  /\ UNCHANGED <<run, settled, disturbed>>
  /\ Recount

(* Mutant: a failure archives the message like a success.                  *)
FailOnce(r) ==
  /\ worker[r].at \in {"load", "solve", "solved"}
  /\ queue' = Archived(worker[r].msg)
  /\ worker' = [worker EXCEPT ![r] = NextMessage(r)]
  /\ Unlock(r)
  /\ UNCHANGED <<run, settled, disturbed>>
  /\ Recount

(* Anything that throws, up to the tries of assign() for what was left out *)
(* and the archiving itself.                                               *)
Fail(r) ==
  /\ worker[r].at \in {"load", "solve", "solved"}
  /\ queue' = IF queue[worker[r].msg].reads >= MaxRetries THEN Archived(worker[r].msg) ELSE queue
  /\ worker' = [worker EXCEPT ![r] = NextMessage(r)]
  /\ Unlock(r)
  /\ UNCHANGED <<run, settled, disturbed>>
  /\ Recount

CloseIdle(s) ==
  /\ held[s] # Nobody
  /\ ~(worker[held[s]].msg # 0 /\ Subject(held[s]) = s)
  /\ held' = [held EXCEPT ![s] = Nobody]
  /\ UNCHANGED <<queue, worker, run, histVars>>

-----------------------------------------------------------------------------
(* handleMessage: what older releases left.                                *)

(* No kind: archived, since nothing knows how to handle it.                *)
ArchiveUnknown(r, m) ==
  /\ worker[r].at = "batch" /\ m \in worker[r].batch
  /\ queue[m].subject = Nightly
  /\ queue' = Archived(m)
  /\ worker' = [worker EXCEPT ![r].batch = @ \ {m}]
  /\ UNCHANGED <<held, run, histVars>>

StartRun(r, m) ==
  /\ worker[r].at = "batch" /\ m \in worker[r].batch
  /\ queue[m].subject = OnDemand
  /\ worker' = [worker EXCEPT ![r].at = "build", ![r].batch = @ \ {m}, ![r].msg = m]
  /\ run' = [run EXCEPT !.status = "running"]
  /\ UNCHANGED <<queue, held, histVars>>

RunStep(r, at) == worker[r].at = at /\ Subject(r) = OnDemand

Ending(r, outcome) == worker' = [worker EXCEPT ![r].at = "archive", ![r].outcome = outcome]

(* Mutant: without the row locks two replicas build the same request.      *)
BuildUnlocked(r) ==
  /\ RunStep(r, "build")
  /\ IF run.packages # "planned"
     THEN /\ run' = [run EXCEPT !.packages = "locked"]
          /\ worker' = [worker EXCEPT ![r].at = "insert"]
     ELSE Ending(r, "skipped") /\ UNCHANGED run
  /\ UNCHANGED <<queue, held, histVars>>

(* buildOptimizationRequest: FOR UPDATE SKIP LOCKED over the packages that *)
(* no shift has.                                                           *)
BuildRun(r) ==
  /\ RunStep(r, "build")
  /\ IF run.packages = "pending"
     THEN /\ run' = [run EXCEPT !.packages = "locked"]
          /\ worker' = [worker EXCEPT ![r].at = "insert"]
     ELSE Ending(r, "skipped") /\ UNCHANGED run
  /\ UNCHANGED <<queue, held, histVars>>

(* insertOptimisedRoutes, insertAdhocRoutes and the commit.                *)
InsertRun(r) ==
  /\ RunStep(r, "insert")
  /\ run' = [run EXCEPT !.packages = "planned", !.plans = @ + 1]
  /\ Ending(r, "completed")
  /\ UNCHANGED <<queue, held, histVars>>

(* Mutant: a transaction that failed is reported like one that went well.  *)
RollBackUnnoticed(r) ==
  /\ RunStep(r, "build") \/ RunStep(r, "insert")
  /\ run' = IF worker[r].at = "insert" THEN [run EXCEPT !.packages = "pending"] ELSE run
  /\ Ending(r, "completed")
  /\ UNCHANGED <<queue, held, histVars>>

(* The transaction is rolled back; the dispatcher is to trigger again.     *)
RollBackRun(r) ==
  /\ RunStep(r, "build") \/ RunStep(r, "insert")
  /\ run' = IF worker[r].at = "insert" THEN [run EXCEPT !.packages = "pending"] ELSE run
  /\ Ending(r, "failed")
  /\ UNCHANGED <<queue, held, histVars>>

(* Archived, or deleted when it failed.                                    *)
ArchiveRun(r) ==
  /\ RunStep(r, "archive")
  /\ queue' = Archived(worker[r].msg)
  /\ worker' = [worker EXCEPT ![r].at = "report"]
  /\ UNCHANGED <<held, run, histVars>>

(* Mutant: the outcome is read after it was cleared.                       *)
ReportCleared(r) ==
  /\ RunStep(r, "report")
  /\ run' = [run EXCEPT !.status = NextMessage(r).outcome]
  /\ worker' = [worker EXCEPT ![r] = NextMessage(r)]
  /\ UNCHANGED <<queue, held, histVars>>

ReportRun(r) ==
  /\ RunStep(r, "report")
  /\ run' = [run EXCEPT !.status = worker[r].outcome]
  /\ worker' = [worker EXCEPT ![r] = NextMessage(r)]
  /\ UNCHANGED <<queue, held, histVars>>

(* Archiving or reporting fails after the commit: the same catch answers,  *)
(* and calls the run failed.  What fails inside the catch is handleMessage's*)
ReportFails(r) ==
  /\ RunStep(r, "archive") \/ RunStep(r, "report")
  /\ IF worker[r].outcome # "failed"
     THEN Ending(r, "failed") /\ UNCHANGED queue
     ELSE /\ queue' = IF queue[worker[r].msg].reads >= MaxRetries THEN Archived(worker[r].msg) ELSE queue
          /\ worker' = [worker EXCEPT ![r] = NextMessage(r)]
  /\ disturbed' = TRUE
  /\ UNCHANGED <<held, run, settled, tries>>

-----------------------------------------------------------------------------
(* The replica dies: its sessions close, open transactions are rolled back,*)
(* and what it had read stays hidden until its timeout.  Only an error is  *)
(* counted against a message, so one whose handling kills the process is   *)
(* read for ever.                                                          *)
(* Bound: a message outlives fewer than MaxRetries crashes.                *)
Crash(r) ==
  LET kept == worker[r].batch \cup ({worker[r].msg} \ {0}) IN
  /\ kept # {} /\ \A m \in kept : queue[m].reads < MaxRetries
  /\ worker' = [worker EXCEPT ![r] = NoDrain]
  /\ held' = [s \in Shifts |-> IF held[s] = r THEN Nobody ELSE held[s]]
  /\ run' = IF worker[r].at = "insert" THEN [run EXCEPT !.packages = "pending"] ELSE run
  /\ disturbed' = (disturbed \/ (worker[r].msg # 0 /\ Subject(r) = OnDemand))
  /\ UNCHANGED <<queue, settled, tries>>

(* What throws out of drainOnce, the archiving of a duplicate, ends the    *)
(* drain with the rest of its batch hidden.  The one who called the drain  *)
(* is to catch it: PgNotifyService does, a timer's callback is a Crash.    *)
(* Bound: as of a crash.                                                   *)
Abandon(r) ==
  /\ worker[r].at = "batch" /\ worker[r].batch # {}
  /\ \A m \in worker[r].batch : queue[m].reads < MaxRetries
  /\ worker' = [worker EXCEPT ![r] = NoDrain]
  /\ UNCHANGED <<queue, held, run, histVars>>

(* What a drain does when nothing fails.                                   *)
Handle(r) ==
  \/ ReadBatch(r) \/ ReadNothing(r)
  \/ \E m \in Ids : ArchiveDuplicate(r, m) \/ TryLock(r, m) \/ SkipLocked(r, m)
                    \/ ArchiveUnknown(r, m) \/ StartRun(r, m)
  \/ LoadShift(r) \/ Answer(r) \/ ArchiveReplan(r)
  \/ BuildRun(r) \/ InsertRun(r) \/ ArchiveRun(r) \/ ReportRun(r)

QueueNext ==
  \/ EnqueueReplans
  \/ \E s \in Shifts : CloseIdle(s)
  \/ \E m \in Ids : TimeoutExpires(m)
  \/ \E r \in Replicas : \/ Drain(r) \/ Handle(r) \/ Fail(r) \/ RollBackRun(r)
                          \/ ReportFails(r) \/ Crash(r) \/ Abandon(r)
                          \/ \E m \in Ids : FailEarly(r, m)

(* The sweep timer starts a drain every minute, a drain that began goes on,*)
(* and the visibility timeout of a message ends.  Nothing is owed by the   *)
(* callers, by failures or by crashes; a read that finds nothing stands for*)
(* one that failed too, so a read must succeed when it may again and again.*)
QueueFairness ==
  /\ \A r \in Replicas : /\ WF_queueVars(Drain(r)) /\ WF_queueVars(Handle(r))
                          /\ SF_queueVars(ReadBatch(r))
  /\ \A m \in Ids : WF_queueVars(TimeoutExpires(m))

QueueSpec == QueueInit /\ [][QueueNext]_queueVars /\ QueueFairness

-----------------------------------------------------------------------------
QueueTypeOK ==
  /\ queue \in [Ids -> Messages]
  /\ worker \in [Replicas -> Workers]
  /\ held \in [Shifts -> Replicas \cup {Nobody}]
  /\ run \in [status   : {"queued", "running", "completed", "skipped", "failed"},
               packages : {"pending", "locked", "planned"},
               plans    : 0..2]
  /\ settled \subseteq Ids /\ disturbed \in BOOLEAN
  /\ tries \in [Shifts -> 0..MaxRetries]

(* However often the on-demand message comes back, and however many        *)
(* replicas handle it at once, its packages are planned once: each plan    *)
(* inserts shifts the organisation is billed for.                          *)
PlannedOnce == run.plans <= 1

(* What the dispatcher is told is what happened: a run that completed      *)
(* planned the packages, and one that was skipped or failed, and may be    *)
(* triggered again, planned nothing.  Only a crash, a timeout that ends    *)
(* under the handler, or a failure to archive or to report after the       *)
(* commit may make the two disagree.                                       *)
RunTellsOutcome ==
  ~disturbed /\ run.status \in {"completed", "skipped", "failed"} =>
    (run.status = "completed" <=> run.plans = 1)

(* The queue with its workers implements the promise of ReplanRequests.    *)
Requests == INSTANCE ReplanRequests WITH
  want  <- Asked,
  tries <- tries,
  busy  <- {s \in Shifts : held[s] # Nobody}

RequestsAreKept == Requests!ReqSpec

(* Refuted: MAX_RETRIES, "consumer attempts before a message is discarded  *)
(* as a poison pill".  A request read for the first time is archived as a  *)
(* duplicate of one that has just failed for the last time, and nothing of *)
(* the two is left on the queue.                                           *)
DiscardedAfterRetries ==
  [][\A m \in Ids \ settled' :
       queue[m].subject \in Asked \ Asked' /\ Live(m) /\ ~Live(m)' =>
         queue[m].reads >= MaxRetries]_queueVars
=============================================================================
