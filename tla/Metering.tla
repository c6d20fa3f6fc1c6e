------------------------------ MODULE Metering ------------------------------
(***************************************************************************)
(* Shift metering: the outbox stripe.shift_usage_events, the reporters     *)
(* that claim its rows, and a Stripe meter that counts an identifier once. *)
(* src/billing/shift-usage.reporter.ts, reportShiftUsageBatch in           *)
(* billing.service.ts, log_shift_usage_event in the migrations             *)
(*                                                                         *)
(* A row's claim names no holder: markReported and releaseClaim find their *)
(* rows by id, whoever claimed them since.  fire() does not wait for the   *)
(* handler before, so one replica may run several drains at once, and a    *)
(* drain reports its organisations one after another, which is how a claim *)
(* gets to be five minutes old.                                            *)
(***************************************************************************)
EXTENDS Notify

CONSTANTS
  Rows, Organisations,
  Owners,          \* whose shifts the rows may be
  Drains,          \* bound: drains running at a time, over all replicas
  Faults,          \* what may fail: "listen", "claim", "answer", "post", "mark", "crash"
  MaxFaults        \* bound: how often

ASSUME FaultAssumption == MaxFaults \in Nat

ASSUME OwnerAssumption == Owners \subseteq [Rows -> Organisations]

VARIABLES
  row,             \* Rows -> "unlogged" | "outstanding" | "claimed" | "stale" | "reported"
  organisation,    \* Rows -> Organisations, a column that is never updated
  drain,           \* Drains -> [pc, at, claimed, ids]
  counted,         \* the identifiers, as id sets, that the Stripe meter has counted
  faults,
  overrun,         \* history: rows whose claim grew old in the hands of a running drain
  unmarked,        \* history: rows that Stripe has counted and their drain did not mark
  missed           \* history: since the last claim, a failure may have left outstanding
                   \* rows with nothing to wake a drain for them

drainVars == <<row, organisation, drain, counted, faults, overrun, unmarked, missed>>
vars == <<notifyVars, drainVars>>

DrainStates ==
  [pc : {"idle", "report", "mark", "release"}, at : Replicas \union {"nowhere"},
   claimed : SUBSET Rows, ids : SUBSET Rows]

Idle == [pc |-> "idle", at |-> "nowhere", claimed |-> {}, ids |-> {}]

TypeOK ==
  /\ NotifyTypeOK
  /\ row \in [Rows -> {"unlogged", "outstanding", "claimed", "stale", "reported"}]
  /\ organisation \in [Rows -> Organisations]
  /\ drain \in [Drains -> DrainStates]
  /\ counted \in SUBSET (SUBSET Rows)
  /\ faults \in 0..MaxFaults
  /\ overrun \in SUBSET Rows
  /\ unmarked \in SUBSET Rows
  /\ missed \in BOOLEAN

Init ==
  /\ NotifyInit
  /\ row = [i \in Rows |-> "unlogged"]
  /\ organisation \in Owners
  /\ drain = [d \in Drains |-> Idle]
  /\ counted = {}
  /\ faults = 0
  /\ overrun = {}
  /\ unmarked = {}
  /\ missed = FALSE

-----------------------------------------------------------------------------

RowsIn(states) == {i \in Rows : row[i] \in states}

SetRows(ids, state) == [i \in Rows |-> IF i \in ids THEN state ELSE row[i]]

(* One more thing fails.                                                   *)
Fault(what) == what \in Faults /\ faults < MaxFaults /\ faults' = faults + 1

(* A failure leaves outstanding rows that no replica is going to look for. *)
MayMiss == missed' = (missed \/ ~\E r \in Replicas : WillWake(r)')

(* log_shift_usage_event: the row and its notification commit together     *)
(* with the shift.                                                         *)
LogShiftUsage(i) ==
  /\ row[i] = "unlogged"
  /\ row' = [row EXCEPT ![i] = "outstanding"]
  /\ OnNotification
  /\ missed' = (missed \/ ~\E r \in Replicas : Attentive(r))
  /\ UNCHANGED <<drain, counted, faults, overrun, unmarked, organisation>>

(* reporting_started_at < now() - STALE_CLAIM_MINUTES                      *)
ClaimGrowsOld(i) ==
  /\ row[i] = "claimed"
  /\ row' = [row EXCEPT ![i] = "stale"]
  /\ overrun' = IF \E d \in Drains : i \in drain[d].claimed
                THEN overrun \union {i} ELSE overrun
  /\ UNCHANGED <<notifyVars, drain, counted, faults, unmarked, missed, organisation>>

(* The old job: rows are read, not claimed.                                *)
Unreported == RowsIn({"outstanding", "claimed", "stale"})

(* A claim that nobody takes over.                                         *)
NeverClaimed == RowsIn({"outstanding"})

(* claim(): UPDATE ... RETURNING, for every organisation at once.          *)
Claimable == RowsIn({"outstanding", "stale"})

Running == {d \in Drains : drain[d].pc # "idle"}

Claim(r) ==
  /\ Running # Drains
  /\ OnWake(r)
  /\ row' = SetRows(Claimable, "claimed")
  /\ drain' = IF Claimable = {} THEN drain
              ELSE [drain EXCEPT ![CHOOSE d \in Drains \ Running : TRUE] =
                      [pc |-> "report", at |-> r, claimed |-> Claimable, ids |-> {}]]
  /\ missed' = FALSE
  /\ UNCHANGED <<counted, faults, overrun, unmarked, organisation>>

(* claim() answers [] to an error of the query, and the drain is over.     *)
ClaimFails(r) ==
  /\ Fault("claim")
  /\ OnWake(r)
  /\ MayMiss
  /\ UNCHANGED <<row, drain, counted, overrun, unmarked, organisation>>

-----------------------------------------------------------------------------
(* One organisation of a drain: post, then mark, or else release.          *)

(* The ids of an organisation the drain has not come to yet.               *)
Batches(d) ==
  {ids \in {{i \in drain[d].claimed : organisation[i] = o} : o \in Organisations} : ids # {}}

Goes(d, pc, ids) == drain' = [drain EXCEPT ![d] = [@ EXCEPT !.pc = pc, !.ids = ids]]

(* The batch in hand is settled: on to the next organisation.              *)
NextBatch(d) ==
  LET rest == drain[d].claimed \ drain[d].ids
  IN  drain' = [drain EXCEPT ![d] = IF rest = {} THEN Idle
                                    ELSE [@ EXCEPT !.pc = "report", !.claimed = rest, !.ids = {}]]

(* billing.meterEvents.create: identifierFor(ids) is counted once.         *)
Post(d) ==
  /\ drain[d].pc = "report"
  /\ \E ids \in Batches(d) : Goes(d, "mark", ids) /\ counted' = counted \union {ids}
  /\ UNCHANGED <<notifyVars, row, faults, overrun, unmarked, missed, organisation>>

(* Stripe took the event, but the answer is an error or a timeout.         *)
PostUnanswered(d) ==
  /\ drain[d].pc = "report" /\ Fault("answer")
  /\ \E ids \in Batches(d) : /\ Goes(d, "release", ids)
                             /\ counted' = counted \union {ids}
                             /\ unmarked' = unmarked \union ids
  /\ UNCHANGED <<notifyVars, row, overrun, missed, organisation>>

(* A refusal that is only logged.                                          *)
PostIgnored(d) ==
  /\ drain[d].pc = "report" /\ Fault("post")
  /\ \E ids \in Batches(d) : Goes(d, "mark", ids)
  /\ UNCHANGED <<notifyVars, row, counted, overrun, unmarked, missed, organisation>>

(* No organisation, no active price, no subscription, or a refusal.        *)
PostRejected(d) ==
  /\ drain[d].pc = "report" /\ Fault("post")
  /\ \E ids \in Batches(d) : Goes(d, "release", ids)
  /\ UNCHANGED <<notifyVars, row, counted, overrun, unmarked, missed, organisation>>

MarkReported(d) ==
  /\ drain[d].pc = "mark"
  /\ row' = SetRows(drain[d].ids, "reported")
  /\ NextBatch(d)
  /\ UNCHANGED <<notifyVars, counted, faults, overrun, unmarked, missed, organisation>>

(* The catch of drain() covers markReported too.                           *)
MarkFails(d) ==
  /\ drain[d].pc = "mark" /\ Fault("mark")
  /\ Goes(d, "release", drain[d].ids)
  /\ unmarked' = unmarked \union drain[d].ids
  /\ UNCHANGED <<notifyVars, row, counted, overrun, missed, organisation>>

ReleaseClaim(d) ==
  /\ drain[d].pc = "release"
  /\ row' = SetRows(drain[d].ids \ RowsIn({"reported"}), "outstanding")
  /\ NextBatch(d)
  /\ UNCHANGED notifyVars
  /\ MayMiss
  /\ UNCHANGED <<counted, faults, overrun, unmarked, organisation>>

(* .catch(() => undefined): the rows stay claimed until the claim is old.  *)
ReleaseFails(d) ==
  /\ drain[d].pc = "release"
  /\ NextBatch(d)
  /\ UNCHANGED <<notifyVars, row, counted, faults, overrun, unmarked, missed, organisation>>

(* A replica dies with its drains.  A batch it had posted and not marked   *)
(* is reported again by whoever finds the claim old.                       *)
Crash(r) ==
  /\ Fault("crash")
  /\ CrashNotify(r)
  /\ LET lost == {d \in Drains : drain[d].at = r}
     IN  /\ drain' = [d \in Drains |-> IF d \in lost THEN Idle ELSE drain[d]]
         /\ unmarked' = unmarked \union
              UNION {drain[d].ids : d \in {e \in lost : drain[e].pc = "mark"}}
  /\ MayMiss
  /\ UNCHANGED <<row, counted, overrun, organisation>>

-----------------------------------------------------------------------------

Notified(r) ==
  \/ NotifyStep(r) /\ UNCHANGED drainVars
  \/ /\ Fault("listen") /\ ListenFails(r) /\ MayMiss
     /\ UNCHANGED <<row, organisation, drain, counted, overrun, unmarked>>

Report(d) ==
  \/ Post(d) \/ PostUnanswered(d) \/ PostRejected(d)
  \/ MarkReported(d) \/ MarkFails(d) \/ ReleaseClaim(d) \/ ReleaseFails(d)

Next ==
  \/ \E i \in Rows : LogShiftUsage(i)
  \/ \E i \in Rows : ClaimGrowsOld(i)
  \/ \E r \in Replicas : Notified(r)
  \/ \E r \in Replicas : Claim(r)
  \/ \E r \in Replicas : ClaimFails(r)
  \/ \E d \in Drains : Report(d)
  \/ \E r \in Replicas : Crash(r)

(* Timers fire, handlers run, awaited calls are answered, and time passes. *)
Fairness ==
  /\ \A r \in Replicas : /\ WF_vars(NotifyProgress(r) /\ UNCHANGED drainVars)
                         /\ WF_vars(Claim(r))
  /\ \A d \in Drains : WF_vars(Report(d))
  /\ \A i \in Rows : WF_vars(ClaimGrowsOld(i))

Spec == Init /\ [][Next]_vars /\ Fairness

-----------------------------------------------------------------------------
(* Properties.                                                             *)

(* A row leaves the outbox only after Stripe has counted it: no shift is   *)
(* marked reported on the strength of another reporter's failed post.      *)
ReportedIsCounted == \A i \in RowsIn({"reported"}) : i \in UNION counted

(* The claim does what the old job did not: a shift is counted twice only  *)
(* if a running drain held it for longer than STALE_CLAIM_MINUTES, or      *)
(* Stripe had its event and the row could not be marked.                   *)
CountedOnceUnlessInterrupted ==
  \A i \in Rows \ (overrun \union unmarked) : \A b1, b2 \in counted : i \in b1 /\ i \in b2 => b1 = b2

(* Dropped connections, slow reconnects and debouncing never lose a        *)
(* wake-up: an outstanding row has a replica on its way to drain it,       *)
(* unless a failure the service only logs took that away.                  *)
WakeUpsSurviveDrops ==
  RowsIn({"outstanding"}) # {} /\ ~missed => \E r \in Replicas : WillWake(r)

(* Each drain retries what earlier ones failed at: while drains keep being *)
(* started, every shift is reported in the end, whatever crashed, timed    *)
(* out or was released in between.                                         *)
DrainsReportEverything ==
  []<><<\E r \in Replicas : Claim(r)>>_vars
    => \A i \in Rows : row[i] = "outstanding" ~> row[i] = "reported"

(* "The stale-claim recovery will re-report the same id set -- and Stripe  *)
(* recognises the identifier and counts it once": a shift whose reporter   *)
(* was in time is never counted in two meter events.                       *)
MeteredOnce ==
  \A i \in Rows \ overrun : \A b1, b2 \in counted : i \in b1 /\ i \in b2 => b1 = b2

=============================================================================
