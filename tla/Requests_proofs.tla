-------------------------- MODULE Requests_proofs --------------------------
(***************************************************************************)
(* What an organisation asks of the program from outside, for any number   *)
(* of overlapping calls: the wizard and the button (OnDemand), its own     *)
(* plan with the platform (Subscription), how a person comes into it       *)
(* (Accounts), and what its customers book (Booking).                      *)
(*                                                                         *)
(* The arguments: a shift is tested once more where it is inserted, so the *)
(* property is inductive as it stands; what a transaction under the lock   *)
(* has found recent stays so until it commits, as only the holder of the   *)
(* lock adds runs (NothingRecent); and a Stripe customer nobody has heard  *)
(* of is not there yet, while one somebody names never loses an item       *)
(* (KnownAreThere, CallsGoOn).                                             *)
(*                                                                         *)
(* And of a person: a call that has written the row of an invitation holds *)
(* it, so what an accepter has read of the row still stands when he        *)
(* commits (AcceptersHold); and he commits without the person's primary    *)
(* key only if the person is a member (Joining), who alone has permissions *)
(* (NoneHasNothing).  So nobody adds to the permissions of a stranger.     *)
(*                                                                         *)
(* Of the storefront, the packages API and the dashboard together: a       *)
(* delivery makes parcels only in the transaction that completes the       *)
(* payment, so a session that is not completed has none (Made), and keys,  *)
(* which are never reused (KeysName), count the ones a completed session   *)
(* has; a row of a customer is written by its owner's identity, found by   *)
(* an index of his own strength, or by the dashboard, whose people have    *)
(* the strongest.                                                          *)
(***************************************************************************)
EXTENDS OnDemand, Subscription, Accounts, Booking, FiniteSetTheorems, TLAPS

-----------------------------------------------------------------------------
(* The wizard.                                                             *)

Shifts == [status : {"none", "planned", "dispatched", "completed"},
           day : {0} \cup {Day(w) : w \in Wizards}]

ShiftsTyped == opened \in [Wizards -> Shifts]

WizardInv == ShiftsTyped /\ WizardBillsOnce

(* Whatever leaves the shifts alone leaves WizardInv alone.                *)
LEMMA SameShifts == WizardInv /\ UNCHANGED opened => WizardInv'
BY DEF WizardInv, ShiftsTyped, Shifts, Day, WizardBillsOnce

(* The second test, at the insert itself, is the one that counts: by then  *)
(* the first may be out of date.                                           *)
LEMMA InsertShiftOnce ==
  ASSUME WizardInv, NEW w \in Wizards, InsertShift(w)
  PROVE  WizardInv'
<1>1. CASE UNCHANGED opened
  BY <1>1, SameShifts
<1>2. CASE ~Taken(w, Day(w)) /\ opened' = [opened EXCEPT ![w] = [status |-> "planned", day |-> Day(w)]]
  <2> DEFINE new == [status |-> "planned", day |-> Day(w)]
  <2>1. new \in Shifts /\ new.day = Day(w)
    BY DEF Shifts
  <2>2. opened' = [opened EXCEPT ![w] = new]
    BY <1>2
  <2> HIDE DEF new
  <2>3. /\ ShiftsTyped' /\ opened'[w].day = Day(w)
        /\ \A v \in Wizards \ {w} : opened'[v] = opened[v]
    BY <2>1, <2>2 DEF WizardInv, ShiftsTyped, Shifts, Day
  <2>4. \A v \in Wizards : opened[v].status \in {"planned", "dispatched"} /\ opened[v].day = Day(w)
          => Form[v].driver # Form[w].driver /\ Form[v].vehicle # Form[w].vehicle
    BY <1>2 DEF Taken
  <2>5. WizardBillsOnce'
    BY <2>3, <2>4 DEF WizardInv, WizardBillsOnce
  <2> QED BY <2>3, <2>5 DEF WizardInv
<1> QED BY <1>1, <1>2 DEF InsertShift

LEMMA AdvanceOnce ==
  ASSUME WizardInv, NEW w \in Wizards, Advance(w)
  PROVE  WizardInv'
<1>1. PICK s \in {"dispatched", "completed"} :
        /\ opened[w].status \in {"planned", "dispatched"}
        /\ opened' = [opened EXCEPT ![w].status = s]
  BY DEF Advance
<1> DEFINE new == [opened[w] EXCEPT !.status = s]
<1>2. new \in Shifts /\ new.day = opened[w].day
  BY DEF WizardInv, ShiftsTyped, Shifts
<1>3. opened' = [opened EXCEPT ![w] = new]
  BY <1>1
<1> HIDE DEF new
<1>4. /\ ShiftsTyped' /\ opened'[w].day = opened[w].day
      /\ \A v \in Wizards \ {w} : opened'[v] = opened[v]
  BY <1>2, <1>3 DEF WizardInv, ShiftsTyped, Shifts, Day
<1>5. WizardBillsOnce'
  BY <1>1, <1>4 DEF WizardInv, WizardBillsOnce
<1> QED BY <1>4, <1>5 DEF WizardInv

LEMMA WizardStep == WizardInv /\ [OnDemandNext]_onDemandVars => WizardInv'
<1> SUFFICES ASSUME WizardInv, [OnDemandNext]_onDemandVars PROVE WizardInv'
  OBVIOUS
<1>1. CASE WizardNext
  <2>1. CASE \E w \in Wizards : InsertShift(w)
    BY <2>1, InsertShiftOnce
  <2>2. CASE UNCHANGED opened
    BY <2>2, SameShifts
  <2> QED
    BY <1>1, <2>1, <2>2 DEF WizardNext, CheckFleet, CheckPackages, CheckCrew, LockDepot, FindClash,
       AssignToShift, WizardFails, Rehome
<1>2. CASE RoadNext
  BY <1>2, AdvanceOnce DEF RoadNext
<1>3. CASE TriggerNext \/ UNCHANGED onDemandVars
  BY <1>3, SameShifts DEF TriggerNext, onDemandVars, wizardVars
<1> QED BY <1>1, <1>2, <1>3 DEF OnDemandNext

(* However many wizards are pressed, fail and are pressed again, wherever  *)
(* the drivers and vans are moved meanwhile and whatever has become of the *)
(* shifts, no two open ones of one day share a driver or a van.            *)
THEOREM WizardsBillOnce == OnDemandSpec => []WizardBillsOnce
<1>1. OnDemandInit => WizardInv
  BY DEF OnDemandInit, WizardInv, ShiftsTyped, Shifts, NoShift, WizardBillsOnce
<1>2. WizardInv => WizardBillsOnce
  BY DEF WizardInv
<1> QED BY <1>1, <1>2, WizardStep, PTL DEF OnDemandSpec

-----------------------------------------------------------------------------
(* The button.                                                             *)

TriggersTyped ==
  /\ trigger \in [Triggers -> [at : {"idle", "lock", "recent", "queue", "429", "done", "failed"}, now : Nat]]
  /\ time \in Nat
  /\ \A r \in runs : r.at \in Nat

(* Between the lock and the commit a transaction is alone.                 *)
HolderIsAlone == \A t \in Triggers : trigger[t].at \in {"recent", "queue"} => runLock = t

(* What FindRecent has found stays true until the run is queued.           *)
NothingRecent ==
  \A t \in Triggers : trigger[t].at = "queue" =>
    \A r \in runs : Counts(r) => trigger[t].now - r.at >= Limit

TriggerInv == TriggersTyped /\ HolderIsAlone /\ NothingRecent /\ RunsAreSpaced

LEMMA SameTriggers == TriggerInv /\ UNCHANGED <<time, triggerVars>> => TriggerInv'
BY DEF TriggerInv, TriggersTyped, HolderIsAlone, NothingRecent, RunsAreSpaced, triggerVars, Counts

(* What one step of a transaction does to the transactions.                *)
LEMMA GoesTriggers ==
  ASSUME TriggersTyped, NEW t \in Triggers,
         NEW at \in {"recent", "queue", "429", "done", "failed"}, Goes(t, at)
  PROVE  /\ trigger' \in [Triggers -> [at : {"idle", "lock", "recent", "queue", "429", "done", "failed"}, now : Nat]]
         /\ trigger'[t].at = at /\ trigger'[t].now = trigger[t].now
         /\ \A u \in Triggers \ {t} : trigger'[u] = trigger[u]
<1> DEFINE new == [trigger[t] EXCEPT !.at = at]
<1>1. /\ new \in [at : {"idle", "lock", "recent", "queue", "429", "done", "failed"}, now : Nat]
      /\ new.at = at /\ new.now = trigger[t].now
  BY DEF TriggersTyped
<1>2. trigger' = [trigger EXCEPT ![t] = new]
  BY DEF Goes
<1> HIDE DEF new
<1> QED BY <1>1, <1>2 DEF TriggersTyped

LEMMA BeginRunSpaced ==
  ASSUME TriggerInv, NEW t \in Triggers, BeginRun(t), UNCHANGED time
  PROVE  TriggerInv'
BY DEF TriggerInv, TriggersTyped, HolderIsAlone, NothingRecent, RunsAreSpaced, Counts, BeginRun

LEMMA LockSpaced ==
  ASSUME TriggerInv, NEW t \in Triggers, LockOrganisation(t), UNCHANGED time
  PROVE  TriggerInv'
<1>1. TriggersTyped'
  BY GoesTriggers DEF TriggerInv, TriggersTyped, LockOrganisation
<1>2. HolderIsAlone' /\ NothingRecent'
  BY GoesTriggers, LockAssumption DEF TriggerInv, HolderIsAlone, NothingRecent, LockOrganisation, Counts
<1>3. RunsAreSpaced'
  BY DEF TriggerInv, RunsAreSpaced, LockOrganisation, Counts
<1> QED BY <1>1, <1>2, <1>3 DEF TriggerInv

LEMMA FindRecentSpaced ==
  ASSUME TriggerInv, NEW t \in Triggers, FindRecent(t), UNCHANGED time
  PROVE  TriggerInv'
<1>1. PICK at \in {"429", "queue"} : Goes(t, at)
  BY DEF FindRecent
<1>2. /\ trigger' \in [Triggers -> [at : {"idle", "lock", "recent", "queue", "429", "done", "failed"}, now : Nat]]
      /\ trigger'[t].at = at /\ trigger'[t].now = trigger[t].now
      /\ \A u \in Triggers \ {t} : trigger'[u] = trigger[u]
  BY <1>1, GoesTriggers DEF TriggerInv
<1>3. TriggersTyped' /\ RunsAreSpaced'
  BY <1>2 DEF TriggerInv, TriggersTyped, RunsAreSpaced, FindRecent, Counts
<1>4. \A u \in Triggers \ {t} : trigger'[u].at \notin {"recent", "queue"}
  BY <1>2 DEF FindRecent, TriggerInv, HolderIsAlone
<1>5. CASE \E r \in runs : Counts(r) /\ r.at > trigger[t].now - Limit
  <2>1. trigger'[t].at = "429"
    BY <1>5, <1>2, GoesTriggers DEF FindRecent, TriggerInv
  <2> QED BY <2>1, <1>3, <1>4 DEF TriggerInv, HolderIsAlone, NothingRecent
<1>6. CASE ~ \E r \in runs : Counts(r) /\ r.at > trigger[t].now - Limit
  <2>1. runLock' = t
    BY <1>6 DEF FindRecent, TriggerInv, HolderIsAlone
  <2>2. \A r \in runs' : Counts(r) => trigger[t].now - r.at >= Limit
    BY <1>6, OnDemandAssumption DEF FindRecent, TriggerInv, TriggersTyped
  <2> QED BY <2>1, <2>2, <1>2, <1>3, <1>4 DEF TriggerInv, HolderIsAlone, NothingRecent, Counts
<1> QED BY <1>5, <1>6

LEMMA QueueRunSpaced ==
  ASSUME TriggerInv, NEW t \in Triggers, QueueRun(t), UNCHANGED time
  PROVE  TriggerInv'
<1>1. /\ trigger' \in [Triggers -> [at : {"idle", "lock", "recent", "queue", "429", "done", "failed"}, now : Nat]]
      /\ trigger'[t].at = "done"
      /\ \A u \in Triggers \ {t} : trigger'[u] = trigger[u]
  BY GoesTriggers DEF TriggerInv, QueueRun
<1> DEFINE shifts == {w \in Wizards : opened[w].status = "planned" /\ Form[w].depot = At0[t]}
           run == [by |-> t, at |-> trigger[t].now,
                   status |-> IF shifts = {} THEN "skipped" ELSE "completed", queued |-> shifts]
<1>2. runs' = runs \cup {run} /\ run.at = trigger[t].now
  BY DEF QueueRun
<1> HIDE DEF run
<1>3. trigger[t].now \in Nat
  BY DEF TriggerInv, TriggersTyped
<1>4. TriggersTyped'
  BY <1>1, <1>2, <1>3 DEF TriggerInv, TriggersTyped
<1>5. \A u \in Triggers : trigger'[u].at \notin {"recent", "queue"}
  BY <1>1 DEF QueueRun, TriggerInv, HolderIsAlone
<1>6. \A r \in runs : Counts(r) => run.at - r.at >= Limit
  BY <1>2 DEF QueueRun, TriggerInv, NothingRecent
<1>7. RunsAreSpaced'
  BY <1>2, <1>6 DEF TriggerInv, RunsAreSpaced, Counts
<1> QED BY <1>4, <1>5, <1>7 DEF TriggerInv, HolderIsAlone, NothingRecent

LEMMA TriggerFailsSpaced ==
  ASSUME TriggerInv, NEW t \in Triggers, TriggerFails(t), UNCHANGED time
  PROVE  TriggerInv'
<1>1. /\ trigger' \in [Triggers -> [at : {"idle", "lock", "recent", "queue", "429", "done", "failed"}, now : Nat]]
      /\ trigger'[t].at = "failed"
      /\ \A u \in Triggers \ {t} : trigger'[u] = trigger[u]
  BY GoesTriggers DEF TriggerInv, TriggerFails
<1>2. TriggersTyped' /\ RunsAreSpaced'
  BY <1>1 DEF TriggerInv, TriggersTyped, RunsAreSpaced, TriggerFails, Counts
<1>3. HolderIsAlone' /\ NothingRecent'
  BY <1>1 DEF TriggerInv, HolderIsAlone, NothingRecent, TriggerFails, Counts
<1> QED BY <1>2, <1>3 DEF TriggerInv

LEMMA TickSpaced == TriggerInv /\ Tick /\ UNCHANGED triggerVars => TriggerInv'
BY DEF TriggerInv, TriggersTyped, HolderIsAlone, NothingRecent, RunsAreSpaced, triggerVars, Counts, Tick

LEMMA TriggerStep == TriggerInv /\ [OnDemandNext]_onDemandVars => TriggerInv'
<1> SUFFICES ASSUME TriggerInv, [OnDemandNext]_onDemandVars PROVE TriggerInv'
  OBVIOUS
<1>1. CASE TriggerNext
  <2>1. CASE Tick /\ UNCHANGED triggerVars
    BY <2>1, TickSpaced
  <2>2. CASE \E t \in Triggers : BeginRun(t) /\ UNCHANGED time
    BY <2>2, BeginRunSpaced
  <2>3. CASE \E t \in Triggers : LockOrganisation(t) /\ UNCHANGED time
    BY <2>3, LockSpaced
  <2>4. CASE \E t \in Triggers : FindRecent(t) /\ UNCHANGED time
    BY <2>4, FindRecentSpaced
  <2>5. CASE \E t \in Triggers : QueueRun(t) /\ UNCHANGED time
    BY <2>5, QueueRunSpaced
  <2>6. CASE \E t \in Triggers : TriggerFails(t) /\ UNCHANGED time
    BY <2>6, TriggerFailsSpaced
  <2> QED BY <1>1, <2>1, <2>2, <2>3, <2>4, <2>5, <2>6 DEF TriggerNext
<1>2. CASE WizardNext \/ RoadNext \/ UNCHANGED onDemandVars
  BY <1>2, SameTriggers DEF WizardNext, RoadNext, onDemandVars
<1> QED BY <1>1, <1>2 DEF OnDemandNext

(* However long a transaction waited for the lock, and whatever the others *)
(* have queued meanwhile, two runs that count are Limit apart.             *)
THEOREM RunsSpaced == OnDemandSpec => []RunsAreSpaced
<1>1. OnDemandInit => TriggerInv
  BY DEF OnDemandInit, TriggerInv, TriggersTyped, NoTrigger, HolderIsAlone, NothingRecent, RunsAreSpaced
<1>2. TriggerInv => RunsAreSpaced
  BY DEF TriggerInv
<1> QED BY <1>1, <1>2, TriggerStep, PTL DEF OnDemandSpec

-----------------------------------------------------------------------------
(* The subscription.                                                       *)

Statuses == {"none", "grandfathered", "trialing", "active", "past_due", "canceled"}

StripeStates == [status : {"none", "trialing", "active", "past_due", "canceled"},
                 items : SUBSET {"base", "overage"}, card : BOOLEAN]

CallStates == [at : {"idle", "ensure", "plan", "items", "metered_only", "subscribed", "link", "cache",
                     "vanity", "entitled", "plan_again", "post", "portal", "done"},
               kind : {"none", "trial", "usage", "portal"}, status : Statuses,
               customer : Calls \cup {NoCustomer}, entitled : BOOLEAN]

SubscriptionTyped ==
  /\ org \in [type : {"company", "personal"}, status : Statuses]
  /\ "customer" \in DOMAIN plan
  /\ plan.customer \in Calls \cup {NoCustomer}
  /\ stripe \in [Calls -> StripeStates]
  /\ calls \in [Calls -> CallStates]
  /\ hooks \subseteq events /\ \A e \in hooks : e.type = "subscription"
  /\ \A e \in events : e.customer \in Calls /\ (e.type = "subscription" => e.status \in Statuses)

(* The customer the call c makes is there; and will be after the step.     *)
There(c) == stripe[c].status # "none"
ThereThen(c) == stripe'[c].status # "none"

(* Nobody has heard of a customer before it is made.                       *)
KnownAreThere ==
  /\ plan.customer \in Calls => There(plan.customer)
  /\ \A e \in events : There(e.customer)
  /\ \A c \in Calls : calls[c].customer \in Calls => There(calls[c].customer)

(* Where a call is says what it has made and read.                         *)
CallGoesOn(c) ==
  /\ calls[c].at \in {"idle", "plan", "ensure", "metered_only"} => ~There(c)
  /\ calls[c].at \in {"subscribed", "link"} => There(c)
  /\ calls[c].at = "link" => "overage" \in stripe[c].items
  /\ calls[c].at \in {"cache", "vanity", "entitled", "plan_again"} => plan.customer \in Calls
  /\ calls[c].at \in {"items", "post", "portal"} => calls[c].customer \in Calls
  /\ calls[c].at = "post" => "overage" \in stripe[calls[c].customer].items

CallsGoOn == \A c \in Calls : CallGoesOn(c)

SubscriptionIInv == SubscriptionTyped /\ KnownAreThere /\ CallsGoOn /\ MeteredWhereAttached

(* What a step of the call c leaves to the others: what is there stays,    *)
(* and bills what it billed.                                               *)
Frame(c) ==
  /\ \A d \in Calls : There(d) => ThereThen(d) /\ stripe[d].items \subseteq stripe'[d].items
  /\ \A d \in Calls \ {c} : ThereThen(d) => There(d)
  /\ \A d \in Calls \ {c} : calls'[d] = calls[d]
  /\ plan.customer \in Calls => plan'.customer \in Calls

LEMMA OthersGoOn ==
  ASSUME SubscriptionIInv, NEW c \in Calls, Frame(c), CallGoesOn(c)'
  PROVE  CallsGoOn'
<1> SUFFICES ASSUME NEW d \in Calls, d # c PROVE CallGoesOn(d)'
  BY DEF CallsGoOn
<1>1. calls'[d] = calls[d] /\ CallGoesOn(d) /\ (ThereThen(d) <=> There(d))
  BY DEF Frame, SubscriptionIInv, CallsGoOn
<1>2. calls[d].customer \in Calls => There(calls[d].customer)
  BY DEF SubscriptionIInv, KnownAreThere
<1> QED BY <1>1, <1>2 DEF CallGoesOn, Frame, There, ThereThen

(* What a step of the call c tells and writes is about customers there.    *)
LEMMA KnownStayThere ==
  ASSUME SubscriptionIInv, NEW c \in Calls, Frame(c),
         calls'[c].customer \in Calls => ThereThen(calls'[c].customer),
         plan'.customer = plan.customer \/ ThereThen(plan'.customer),
         \A e \in events' \ events : ThereThen(e.customer)
  PROVE  KnownAreThere'
<1>1. \A d \in Calls : There(d) => ThereThen(d)
  BY DEF Frame
<1>2. \A e \in events' : ThereThen(e.customer)
  BY <1>1 DEF SubscriptionIInv, KnownAreThere, SubscriptionTyped
<1>3. plan'.customer \in Calls => ThereThen(plan'.customer)
  BY <1>1 DEF SubscriptionIInv, KnownAreThere
<1>4. ASSUME NEW d \in Calls, calls'[d].customer \in Calls PROVE ThereThen(calls'[d].customer)
  BY <1>1, <1>4 DEF Frame, SubscriptionIInv, KnownAreThere
<1> QED BY <1>2, <1>3, <1>4 DEF KnownAreThere, There, ThereThen

(* One call, or one subscription, is rewritten.                            *)
LEMMA CallIs ==
  ASSUME calls \in [Calls -> CallStates], NEW c \in Calls, NEW new \in CallStates,
         calls' = [calls EXCEPT ![c] = new]
  PROVE  /\ calls' \in [Calls -> CallStates] /\ calls'[c] = new
         /\ \A d \in Calls \ {c} : calls'[d] = calls[d]
OBVIOUS

LEMMA SubscriptionIs ==
  ASSUME stripe \in [Calls -> StripeStates], NEW c \in Calls, NEW new \in StripeStates,
         stripe' = [stripe EXCEPT ![c] = new]
  PROVE  /\ stripe' \in [Calls -> StripeStates] /\ stripe'[c] = new
         /\ \A d \in Calls \ {c} : stripe'[d] = stripe[d]
OBVIOUS

(* A call that only reads, ends or goes on.                                *)
LEMMA CallMoves ==
  ASSUME SubscriptionIInv, NEW c \in Calls, NEW new \in CallStates,
         calls' = [calls EXCEPT ![c] = new],
         UNCHANGED <<org, plan, stripe, events, hooks, metered>>,
         new.customer \in Calls => There(new.customer),
         CallGoesOn(c)'
  PROVE  SubscriptionIInv'
<1>1. /\ calls' \in [Calls -> CallStates] /\ calls'[c] = new
      /\ \A d \in Calls \ {c} : calls'[d] = calls[d]
  BY CallIs DEF SubscriptionIInv, SubscriptionTyped
<1>2. SubscriptionTyped'
  BY <1>1 DEF SubscriptionIInv, SubscriptionTyped
<1>3. Frame(c)
  BY <1>1 DEF Frame, There, ThereThen
<1>4. KnownAreThere'
  BY <1>1, <1>3, KnownStayThere DEF There, ThereThen
<1>5. CallsGoOn'
  BY <1>3, OthersGoOn
<1> QED BY <1>2, <1>4, <1>5 DEF SubscriptionIInv, MeteredWhereAttached

LEMMA EndsSafe ==
  ASSUME SubscriptionIInv, NEW c \in Calls, Ends(c),
         UNCHANGED <<org, plan, stripe, events, hooks, metered>>
  PROVE  SubscriptionIInv'
<1> DEFINE new == [NoCall EXCEPT !.at = "done"]
<1>1. new \in CallStates /\ new.at = "done" /\ new.customer = NoCustomer
  BY DEF NoCall, CallStates, Statuses
<1>2. calls' = [calls EXCEPT ![c] = new]
  BY DEF Ends
<1> HIDE DEF new
<1>3. calls'[c] = new
  BY <1>1, <1>2, CallIs DEF SubscriptionIInv, SubscriptionTyped
<1>4. CallGoesOn(c)'
  BY <1>1, <1>3 DEF CallGoesOn
<1> QED BY <1>1, <1>2, <1>4, CallMoves, SubscriptionAssumption

LEMMA ReadOrgSafe ==
  ASSUME SubscriptionIInv, NEW c \in Calls, ReadOrg(c)
  PROVE  SubscriptionIInv'
<1>1. PICK kind \in Kinds[c] :
        calls' = [calls EXCEPT ![c] = [NoCall EXCEPT !.at = IF kind = "trial" THEN "ensure" ELSE "plan",
                                                     !.kind = kind, !.status = org.status]]
  BY DEF ReadOrg
<1> DEFINE new == [NoCall EXCEPT !.at = IF kind = "trial" THEN "ensure" ELSE "plan",
                                 !.kind = kind, !.status = org.status]
<1>2. new \in CallStates /\ new.at \in {"ensure", "plan"} /\ new.customer = NoCustomer
  BY SubscriptionAssumption DEF NoCall, CallStates, SubscriptionIInv, SubscriptionTyped
<1>3. calls' = [calls EXCEPT ![c] = new]
  BY <1>1
<1> HIDE DEF new
<1>4. calls'[c] = new
  BY <1>2, <1>3, CallIs DEF SubscriptionIInv, SubscriptionTyped
<1>5. ~ThereThen(c)
  BY DEF ReadOrg, At, There, ThereThen, SubscriptionIInv, CallsGoOn, CallGoesOn
<1>6. CallGoesOn(c)'
  <2>1. calls'[c].at \in {"ensure", "plan"}
    BY <1>2, <1>4
  <2> QED BY <1>5, <2>1 DEF CallGoesOn, There, ThereThen
<1> QED BY <1>2, <1>3, <1>6, CallMoves, SubscriptionAssumption DEF ReadOrg, There

LEMMA ReadPlanSafe ==
  ASSUME SubscriptionIInv, NEW c \in Calls, ReadPlan(c)
  PROVE  SubscriptionIInv'
<1> DEFINE at == IF plan.customer # NoCustomer THEN "items" ELSE IF NeedsPlan(c) THEN "ensure" ELSE "metered_only"
           new == [calls[c] EXCEPT !.at = at, !.customer = plan.customer]
<1>1. /\ new \in CallStates /\ new.at = at /\ new.customer = plan.customer
      /\ plan.customer \in Calls \cup {NoCustomer}
  <2>1. calls[c] \in CallStates /\ plan.customer \in Calls \cup {NoCustomer}
    BY DEF SubscriptionIInv, SubscriptionTyped
  <2>2. at \in {"ensure", "items", "metered_only"}
    OBVIOUS
  <2> HIDE DEF at
  <2> QED BY <2>1, <2>2 DEF CallStates
<1>2. calls' = [calls EXCEPT ![c] = new]
  BY DEF ReadPlan
<1> HIDE DEF new
<1>3. calls'[c] = new
  BY <1>1, <1>2, CallIs DEF SubscriptionIInv, SubscriptionTyped
<1>4. ~ThereThen(c)
  BY DEF ReadPlan, At, There, ThereThen, SubscriptionIInv, CallsGoOn, CallGoesOn
<1>5. CallGoesOn(c)'
  <2>1. /\ calls'[c].at \in {"items", "ensure", "metered_only"}
        /\ calls'[c].at = "items" => calls'[c].customer \in Calls
    BY <1>1, <1>3
  <2> QED BY <1>4, <2>1 DEF CallGoesOn, There, ThereThen
<1>6. new.customer \in Calls => There(new.customer)
  BY <1>1 DEF SubscriptionIInv, KnownAreThere
<1> QED BY <1>1, <1>2, <1>5, <1>6, CallMoves DEF ReadPlan

LEMMA ToldTyped ==
  ASSUME NEW c \in Calls, stripe'[c] \in StripeStates
  PROVE  \A e \in Told(c) : e.customer = c /\ (e.type = "subscription" => e.status \in Statuses)
BY DEF Told, StripeStates, Statuses

(* A new subscription at Stripe is nobody else's yet.                      *)
LEMMA CreatedSafe ==
  ASSUME SubscriptionIInv, NEW c \in Calls, ~There(c),
         NEW new \in StripeStates, new.status # "none", stripe' = [stripe EXCEPT ![c] = new],
         NEW call \in CallStates, calls' = [calls EXCEPT ![c] = call],
         \/ call.at = "subscribed"
         \/ call.at = "link" /\ "overage" \in new.items,
         call.customer = calls[c].customer,
         events' = events \cup Told(c), UNCHANGED <<org, plan, hooks, metered>>
  PROVE  SubscriptionIInv'
<1>1. /\ calls' \in [Calls -> CallStates] /\ calls'[c] = call
      /\ \A d \in Calls \ {c} : calls'[d] = calls[d]
  BY CallIs DEF SubscriptionIInv, SubscriptionTyped
<1>2. /\ stripe' \in [Calls -> StripeStates] /\ stripe'[c] = new
      /\ \A d \in Calls \ {c} : stripe'[d] = stripe[d]
  BY SubscriptionIs DEF SubscriptionIInv, SubscriptionTyped
<1>3. ThereThen(c) /\ Frame(c)
  BY <1>1, <1>2 DEF Frame, There, ThereThen
<1>4. \A e \in events' \ events : e.customer = c
  BY <1>2, ToldTyped
<1>5. SubscriptionTyped'
  BY <1>1, <1>2, ToldTyped DEF SubscriptionIInv, SubscriptionTyped
<1>6. KnownAreThere'
  <2>1. calls'[c].customer \in Calls => ThereThen(calls'[c].customer)
    BY <1>1, <1>3 DEF Frame, SubscriptionIInv, KnownAreThere
  <2> QED BY <1>3, <1>4, <2>1, KnownStayThere
<1>7. CallGoesOn(c)'
  BY <1>1, <1>2, <1>3 DEF CallGoesOn, There, ThereThen
<1>8. CallsGoOn'
  BY <1>3, <1>7, OthersGoOn
<1> QED BY <1>5, <1>6, <1>8 DEF SubscriptionIInv, MeteredWhereAttached

LEMMA SubscribeSafe ==
  ASSUME SubscriptionIInv, NEW c \in Calls, Subscribe(c)
  PROVE  SubscriptionIInv'
<1>1. PICK status \in {"trialing", "active"} :
        stripe' = [stripe EXCEPT ![c].items = {"base"}, ![c].status = status]
  BY DEF Subscribe
<1> DEFINE new == [stripe[c] EXCEPT !.items = {"base"}, !.status = status]
           call == [calls[c] EXCEPT !.at = "subscribed", !.status = status]
<1>2. new \in StripeStates /\ new.status = status
  <2>1. stripe[c] \in StripeStates
    BY DEF SubscriptionIInv, SubscriptionTyped
  <2> QED BY <2>1 DEF StripeStates
<1>3. stripe' = [stripe EXCEPT ![c] = new]
  BY <1>1
<1>4. call \in CallStates /\ call.at = "subscribed" /\ call.customer = calls[c].customer
  <2>1. calls[c] \in CallStates
    BY DEF SubscriptionIInv, SubscriptionTyped
  <2> QED BY <2>1 DEF CallStates, Statuses
<1> HIDE DEF new
<1>5. stripe'[c].status = status
  BY <1>2, <1>3, SubscriptionIs DEF SubscriptionIInv, SubscriptionTyped
<1>6. calls' = [calls EXCEPT ![c] = call]
  BY <1>5 DEF Subscribe
<1> HIDE DEF call
<1>7. ~There(c)
  BY DEF Subscribe, At, SubscriptionIInv, CallsGoOn, CallGoesOn
<1> QED BY <1>2, <1>3, <1>4, <1>6, <1>7, CreatedSafe DEF Subscribe

LEMMA ProvisionSafe ==
  ASSUME SubscriptionIInv, NEW c \in Calls, ProvisionMeteredOnly(c)
  PROVE  SubscriptionIInv'
<1> DEFINE new == [stripe[c] EXCEPT !.items = {"overage"}, !.status = "active"]
           call == [calls[c] EXCEPT !.at = "link"]
<1>1. /\ new \in StripeStates /\ new.status # "none" /\ "overage" \in new.items
      /\ stripe' = [stripe EXCEPT ![c] = new]
  <2>1. stripe[c] \in StripeStates
    BY DEF SubscriptionIInv, SubscriptionTyped
  <2>2. new \in StripeStates /\ new.status # "none" /\ "overage" \in new.items
    BY <2>1 DEF StripeStates
  <2> QED BY <2>2 DEF ProvisionMeteredOnly
<1>2. /\ call \in CallStates /\ call.at = "link" /\ call.customer = calls[c].customer
      /\ calls' = [calls EXCEPT ![c] = call]
  BY DEF CallStates, SubscriptionIInv, SubscriptionTyped, ProvisionMeteredOnly, Goto
<1>3. ~There(c)
  BY DEF ProvisionMeteredOnly, At, SubscriptionIInv, CallsGoOn, CallGoesOn
<1> HIDE DEF new, call
<1> QED BY <1>1, <1>2, <1>3, CreatedSafe DEF ProvisionMeteredOnly

(* The row names the customer the call has made.                           *)
LEMMA SetSubscriptionSafe ==
  ASSUME SubscriptionIInv, NEW c \in Calls, SetSubscription(c)
  PROVE  SubscriptionIInv'
<1> DEFINE new == [calls[c] EXCEPT !.at = IF At(c, "link") THEN "post" ELSE "cache",
                                   !.customer = IF At(c, "link") THEN c ELSE NoCustomer]
<1>1. /\ new \in CallStates
      /\ \/ new.at = "cache" /\ new.customer = NoCustomer
         \/ At(c, "link") /\ new.at = "post" /\ new.customer = c
      /\ calls' = [calls EXCEPT ![c] = new]
  <2>1. calls[c] \in CallStates
    BY DEF SubscriptionIInv, SubscriptionTyped
  <2>2. CASE At(c, "link")
    BY <2>1, <2>2 DEF CallStates, SetSubscription
  <2>3. CASE ~At(c, "link")
    BY <2>1, <2>3 DEF CallStates, SetSubscription
  <2> QED BY <2>2, <2>3
<1> HIDE DEF new
<1>2. /\ calls' \in [Calls -> CallStates] /\ calls'[c] = new
      /\ \A d \in Calls \ {c} : calls'[d] = calls[d]
  BY <1>1, CallIs DEF SubscriptionIInv, SubscriptionTyped
<1>3. plan'.customer = c /\ "customer" \in DOMAIN plan'
  BY DEF SetSubscription, SubscriptionIInv, SubscriptionTyped
<1>4. SubscriptionTyped'
  BY <1>2, <1>3 DEF SetSubscription, SubscriptionIInv, SubscriptionTyped
<1>5. ThereThen(c) /\ Frame(c)
  BY <1>2, <1>3 DEF SetSubscription, At, SubscriptionIInv, CallsGoOn, CallGoesOn, There, ThereThen, Frame
<1>6. KnownAreThere'
  BY <1>1, <1>2, <1>3, <1>5, KnownStayThere, SubscriptionAssumption DEF SetSubscription
<1>7. CallGoesOn(c)'
  BY <1>1, <1>2, <1>3, <1>5 DEF SetSubscription, At, SubscriptionIInv, CallsGoOn, CallGoesOn
<1>8. CallsGoOn'
  BY <1>5, <1>7, OthersGoOn
<1> QED BY <1>4, <1>6, <1>8 DEF SetSubscription, SubscriptionIInv, MeteredWhereAttached

LEMMA UpdateBillingCacheSafe ==
  ASSUME SubscriptionIInv, NEW c \in Calls, UpdateBillingCache(c)
  PROVE  SubscriptionIInv'
<1> DEFINE new == [calls[c] EXCEPT !.at = "vanity"]
<1>1. /\ new \in CallStates /\ new.at = "vanity" /\ new.customer = calls[c].customer
      /\ calls' = [calls EXCEPT ![c] = new]
  BY DEF CallStates, SubscriptionIInv, SubscriptionTyped, UpdateBillingCache, Goto
<1> HIDE DEF new
<1>2. /\ calls' \in [Calls -> CallStates] /\ calls'[c] = new
      /\ \A d \in Calls \ {c} : calls'[d] = calls[d]
  BY <1>1, CallIs DEF SubscriptionIInv, SubscriptionTyped
<1>3. org' \in [type : {"company", "personal"}, status : Statuses]
  BY DEF UpdateBillingCache, SubscriptionIInv, SubscriptionTyped, CallStates
<1>4. SubscriptionTyped'
  BY <1>2, <1>3 DEF UpdateBillingCache, SubscriptionIInv, SubscriptionTyped
<1>5. Frame(c)
  BY <1>2 DEF UpdateBillingCache, There, ThereThen, Frame
<1>6. KnownAreThere'
  BY <1>1, <1>2, <1>5, KnownStayThere DEF UpdateBillingCache, SubscriptionIInv, KnownAreThere, There, ThereThen
<1>7. CallGoesOn(c)'
  BY <1>1, <1>2 DEF UpdateBillingCache, At, SubscriptionIInv, CallsGoOn, CallGoesOn
<1>8. CallsGoOn'
  BY <1>5, <1>7, OthersGoOn
<1> QED BY <1>4, <1>6, <1>8 DEF UpdateBillingCache, SubscriptionIInv, MeteredWhereAttached

LEMMA ListEntitlementsSafe ==
  ASSUME SubscriptionIInv, NEW c \in Calls, ListEntitlements(c)
  PROVE  SubscriptionIInv'
<1> DEFINE new == [calls[c] EXCEPT !.at = "entitled", !.entitled = Entitled(c)]
<1>1. /\ new \in CallStates /\ new.at = "entitled" /\ new.customer = calls[c].customer
      /\ calls' = [calls EXCEPT ![c] = new]
  <2>1. calls[c] \in CallStates /\ Entitled(c) \in BOOLEAN
    BY DEF Entitled, SubscriptionIInv, SubscriptionTyped
  <2>2. new \in CallStates /\ new.at = "entitled" /\ new.customer = calls[c].customer
    BY <2>1 DEF CallStates
  <2> QED BY <2>2 DEF ListEntitlements
<1> HIDE DEF new
<1>2. calls'[c] = new
  BY <1>1, CallIs DEF SubscriptionIInv, SubscriptionTyped
<1>3. CallGoesOn(c)'
  BY <1>1, <1>2 DEF ListEntitlements, At, SubscriptionIInv, CallsGoOn, CallGoesOn
<1>4. new.customer \in Calls => There(new.customer)
  BY <1>1 DEF SubscriptionIInv, KnownAreThere
<1> QED BY <1>1, <1>3, <1>4, CallMoves DEF ListEntitlements

LEMMA UpdateVanitySafe ==
  ASSUME SubscriptionIInv, NEW c \in Calls, UpdateVanity(c)
  PROVE  SubscriptionIInv'
<1>1. PICK new \in CallStates :
        /\ calls' = [calls EXCEPT ![c] = new]
        /\ \/ new.at = "done" /\ new.customer = NoCustomer
           \/ new.at = "plan_again" /\ new.customer = calls[c].customer
  <2>1. CASE Ends(c)
    <3>1. [NoCall EXCEPT !.at = "done"] \in CallStates
      BY DEF NoCall, CallStates, Statuses
    <3> QED BY <2>1, <3>1 DEF Ends, NoCall
  <2>2. CASE Goto(c, "plan_again")
    <3> DEFINE new == [calls[c] EXCEPT !.at = "plan_again"]
    <3>1. new \in CallStates /\ new.at = "plan_again" /\ new.customer = calls[c].customer
      BY DEF CallStates, SubscriptionIInv, SubscriptionTyped
    <3>2. calls' = [calls EXCEPT ![c] = new]
      BY <2>2 DEF Goto
    <3> HIDE DEF new
    <3> QED BY <3>1, <3>2
  <2> QED BY <2>1, <2>2 DEF UpdateVanity
<1>2. /\ calls' \in [Calls -> CallStates] /\ calls'[c] = new
      /\ \A d \in Calls \ {c} : calls'[d] = calls[d]
  BY <1>1, CallIs DEF SubscriptionIInv, SubscriptionTyped
<1>3. /\ plan'.customer = plan.customer
      /\ "customer" \in DOMAIN plan'
  BY DEF UpdateVanity, SubscriptionIInv, SubscriptionTyped
<1>4. SubscriptionTyped'
  BY <1>2, <1>3 DEF UpdateVanity, SubscriptionIInv, SubscriptionTyped
<1>5. Frame(c)
  BY <1>2, <1>3 DEF UpdateVanity, There, ThereThen, Frame
<1>6. KnownAreThere'
  BY <1>1, <1>2, <1>3, <1>5, KnownStayThere, SubscriptionAssumption
     DEF UpdateVanity, SubscriptionIInv, KnownAreThere, There, ThereThen
<1>7. CallGoesOn(c)'
  BY <1>1, <1>2, <1>3 DEF UpdateVanity, At, SubscriptionIInv, CallsGoOn, CallGoesOn
<1>8. CallsGoOn'
  BY <1>5, <1>7, OthersGoOn
<1> QED BY <1>4, <1>6, <1>8 DEF UpdateVanity, SubscriptionIInv, MeteredWhereAttached

(* The call goes on with whatever customer the row names by then.          *)
LEMMA ReadPlanAgainSafe ==
  ASSUME SubscriptionIInv, NEW c \in Calls, ReadPlanAgain(c)
  PROVE  SubscriptionIInv'
<1> DEFINE new == [calls[c] EXCEPT !.at = "items", !.customer = plan.customer]
<1>1. /\ new \in CallStates /\ new.at = "items" /\ new.customer = plan.customer
      /\ plan.customer \in Calls
      /\ calls' = [calls EXCEPT ![c] = new]
  <2>1. calls[c] \in CallStates /\ plan.customer \in Calls
    BY DEF ReadPlanAgain, At, SubscriptionIInv, SubscriptionTyped, CallsGoOn, CallGoesOn
  <2>2. new \in CallStates /\ new.at = "items" /\ new.customer = plan.customer
    BY <2>1 DEF CallStates
  <2> QED BY <2>1, <2>2 DEF ReadPlanAgain
<1> HIDE DEF new
<1>2. calls'[c] = new
  BY <1>1, CallIs DEF SubscriptionIInv, SubscriptionTyped
<1>3. CallGoesOn(c)'
  BY <1>1, <1>2 DEF CallGoesOn
<1>4. There(new.customer)
  BY <1>1 DEF SubscriptionIInv, KnownAreThere
<1> QED BY <1>1, <1>3, <1>4, CallMoves DEF ReadPlanAgain

(* A subscription changes at Stripe; no call does.                         *)
LEMMA StripeMoves ==
  ASSUME SubscriptionIInv, NEW x \in Calls, There(x),
         NEW new \in StripeStates, new.status # "none", stripe[x].items \subseteq new.items,
         stripe' = [stripe EXCEPT ![x] = new],
         events \subseteq events',
         \A e \in events' \ events : e.customer = x /\ (e.type = "subscription" => e.status \in Statuses),
         UNCHANGED <<org, plan, hooks, calls, metered>>
  PROVE  SubscriptionIInv'
<1>1. /\ stripe' \in [Calls -> StripeStates] /\ stripe'[x] = new
      /\ \A d \in Calls \ {x} : stripe'[d] = stripe[d]
  BY SubscriptionIs DEF SubscriptionIInv, SubscriptionTyped
<1>2. SubscriptionTyped'
  BY <1>1 DEF SubscriptionIInv, SubscriptionTyped
<1>3. ThereThen(x) /\ Frame(x)
  BY <1>1 DEF Frame, There, ThereThen
<1>4. KnownAreThere'
  <2>1. calls'[x].customer \in Calls => ThereThen(calls'[x].customer)
    BY <1>3 DEF Frame, SubscriptionIInv, KnownAreThere
  <2> QED BY <1>3, <2>1, KnownStayThere
<1>5. CallGoesOn(x)'
  <2>1. CallGoesOn(x) /\ (calls[x].customer \in Calls => There(calls[x].customer))
    BY DEF SubscriptionIInv, CallsGoOn, KnownAreThere
  <2> QED BY <1>3, <2>1 DEF CallGoesOn, Frame, There, ThereThen
<1>6. CallsGoOn'
  BY <1>3, <1>5, OthersGoOn
<1> QED BY <1>2, <1>4, <1>6 DEF SubscriptionIInv, MeteredWhereAttached

LEMMA StatusMoves ==
  ASSUME SubscriptionIInv, NEW c \in Calls, There(c),
         NEW s \in {"active", "past_due", "canceled"}, stripe' = [stripe EXCEPT ![c].status = s],
         events' = events \cup Told(c), UNCHANGED <<org, plan, hooks, calls, metered>>
  PROVE  SubscriptionIInv'
<1> DEFINE new == [stripe[c] EXCEPT !.status = s]
<1>1. /\ new \in StripeStates /\ new.status = s /\ new.items = stripe[c].items
      /\ stripe' = [stripe EXCEPT ![c] = new]
  BY DEF StripeStates, SubscriptionIInv, SubscriptionTyped
<1> HIDE DEF new
<1>2. stripe'[c] \in StripeStates
  BY <1>1, SubscriptionIs DEF SubscriptionIInv, SubscriptionTyped
<1>3. \A e \in events' \ events : e.customer = c /\ (e.type = "subscription" => e.status \in Statuses)
  BY <1>2, ToldTyped
<1> QED BY <1>1, <1>3, StripeMoves

LEMMA StripeSafe ==
  ASSUME SubscriptionIInv, NEW c \in Calls, TrialEnds(c) \/ CardAdded(c) \/ InvoiceRetried(c)
  PROVE  SubscriptionIInv'
<1>1. CASE TrialEnds(c)
  <2>1. PICK s \in {"active", "canceled"} : stripe' = [stripe EXCEPT ![c].status = s]
    BY <1>1 DEF TrialEnds
  <2> QED BY <1>1, <2>1, StatusMoves DEF TrialEnds, There, ThereThen
<1>2. CASE InvoiceRetried(c)
  <2>1. PICK s \in {"active", "past_due", "canceled"} : stripe' = [stripe EXCEPT ![c].status = s]
    BY <1>2 DEF InvoiceRetried
  <2> QED BY <1>2, <2>1, StatusMoves DEF InvoiceRetried, There, ThereThen
<1>3. CASE CardAdded(c)
  <2> DEFINE x == calls[c].customer
             new == [stripe[x] EXCEPT !.card = TRUE]
  <2>1. x \in Calls /\ There(x)
    BY <1>3 DEF CardAdded, SubscriptionIInv, CallsGoOn, CallGoesOn, KnownAreThere
  <2>2. /\ new \in StripeStates /\ new.status = stripe[x].status /\ new.items = stripe[x].items
        /\ stripe' = [stripe EXCEPT ![x] = new]
    <3>1. stripe[x] \in StripeStates
      BY <2>1 DEF SubscriptionIInv, SubscriptionTyped
    <3>2. new \in StripeStates /\ new.status = stripe[x].status /\ new.items = stripe[x].items
      BY <3>1 DEF StripeStates
    <3> QED BY <1>3, <3>2 DEF CardAdded
  <2>3. \A e \in events' \ events : e.customer = x /\ e.type = "customer"
    BY <1>3 DEF CardAdded
  <2> HIDE DEF x, new
  <2> QED BY ZenonT(60), <1>3, <2>1, <2>2, <2>3, StripeMoves DEF CardAdded, There, ThereThen
<1> QED BY <1>1, <1>2, <1>3

LEMMA AttachOverageSafe ==
  ASSUME SubscriptionIInv, NEW c \in Calls, AttachOverage(c)
  PROVE  SubscriptionIInv'
<1> DEFINE x == calls[c].customer
           call == [calls[c] EXCEPT !.at = "post"]
<1>1. x \in Calls /\ There(x)
  BY DEF AttachOverage, At, SubscriptionIInv, CallsGoOn, CallGoesOn, KnownAreThere
<1>2. /\ call \in CallStates /\ call.at = "post" /\ call.customer = x
      /\ calls' = [calls EXCEPT ![c] = call]
  BY DEF CallStates, SubscriptionIInv, SubscriptionTyped, AttachOverage, Goto
<1>3. PICK new \in StripeStates :
        /\ stripe' = [stripe EXCEPT ![x] = new]
        /\ "overage" \in new.items /\ stripe[x].items \subseteq new.items /\ new.status = stripe[x].status
  <2>1. CASE "overage" \in stripe[x].items /\ UNCHANGED stripe
    <3>1. stripe[x] \in StripeStates /\ stripe' = [stripe EXCEPT ![x] = stripe[x]]
      BY <1>1, <2>1 DEF SubscriptionIInv, SubscriptionTyped
    <3> QED BY <2>1, <3>1
  <2>2. CASE stripe' = [stripe EXCEPT ![x].items = @ \cup {"overage"}]
    <3> DEFINE new == [stripe[x] EXCEPT !.items = @ \cup {"overage"}]
    <3>1. /\ new \in StripeStates /\ new.items = stripe[x].items \cup {"overage"}
          /\ new.status = stripe[x].status
      BY <1>1 DEF StripeStates, SubscriptionIInv, SubscriptionTyped
    <3>2. stripe' = [stripe EXCEPT ![x] = new]
      BY <2>2
    <3> HIDE DEF new, x
    <3> QED BY <3>1, <3>2
  <2> QED BY <2>1, <2>2 DEF AttachOverage
<1> HIDE DEF x, call
<1>4. /\ stripe' \in [Calls -> StripeStates] /\ stripe'[x] = new
      /\ \A d \in Calls \ {x} : stripe'[d] = stripe[d]
  BY <1>1, <1>3, SubscriptionIs DEF SubscriptionIInv, SubscriptionTyped
<1>5. /\ calls' \in [Calls -> CallStates] /\ calls'[c] = call
      /\ \A d \in Calls \ {c} : calls'[d] = calls[d]
  BY <1>2, CallIs DEF SubscriptionIInv, SubscriptionTyped
<1>6. SubscriptionTyped'
  BY <1>4, <1>5 DEF AttachOverage, SubscriptionIInv, SubscriptionTyped
<1>7. Frame(c)
  BY <1>1, <1>3, <1>4, <1>5 DEF AttachOverage, Frame, There, ThereThen
<1>8. KnownAreThere'
  <2>1. ThereThen(x)
    BY <1>1, <1>7 DEF Frame
  <2>2. calls'[c].customer \in Calls => ThereThen(calls'[c].customer)
    BY <1>2, <1>5, <2>1 DEF There, ThereThen
  <2> QED BY <1>7, <2>2, KnownStayThere DEF AttachOverage
<1>9. CallGoesOn(c)'
  BY <1>1, <1>2, <1>3, <1>4, <1>5 DEF CallGoesOn
<1>10. CallsGoOn'
  BY <1>7, <1>9, OthersGoOn
<1> QED BY <1>6, <1>8, <1>10 DEF AttachOverage, SubscriptionIInv, MeteredWhereAttached

(* Usage is posted to a customer who has the price; a portal session is    *)
(* not usage.                                                              *)
LEMMA AnswerCallSafe ==
  ASSUME SubscriptionIInv, NEW c \in Calls, AnswerCall(c)
  PROVE  SubscriptionIInv'
<1>1. CASE Ends(c) /\ metered' = metered \cup {[customer |-> calls[c].customer,
                                                items |-> stripe[calls[c].customer].items]}
  <2> DEFINE new == [NoCall EXCEPT !.at = "done"]
  <2>1. /\ new \in CallStates /\ new.at = "done" /\ new.customer = NoCustomer
        /\ calls' = [calls EXCEPT ![c] = new]
    BY <1>1 DEF NoCall, CallStates, Statuses, Ends
  <2> HIDE DEF new
  <2>2. /\ calls' \in [Calls -> CallStates] /\ calls'[c] = new
        /\ \A d \in Calls \ {c} : calls'[d] = calls[d]
    BY <2>1, CallIs DEF SubscriptionIInv, SubscriptionTyped
  <2>3. SubscriptionTyped'
    BY <2>2 DEF AnswerCall, SubscriptionIInv, SubscriptionTyped
  <2>4. Frame(c)
    BY <2>2 DEF AnswerCall, Frame, There, ThereThen
  <2>5. KnownAreThere'
    BY <2>1, <2>2, <2>4, KnownStayThere, SubscriptionAssumption DEF AnswerCall
  <2>6. CallGoesOn(c)'
    BY <2>1, <2>2 DEF CallGoesOn
  <2>7. CallsGoOn'
    BY <2>4, <2>6, OthersGoOn
  <2>8. "overage" \in stripe[calls[c].customer].items
    BY DEF AnswerCall, At, SubscriptionIInv, CallsGoOn, CallGoesOn
  <2>9. MeteredWhereAttached'
    BY <1>1, <2>8 DEF SubscriptionIInv, MeteredWhereAttached
  <2> QED BY <2>3, <2>5, <2>7, <2>9 DEF SubscriptionIInv
<1>2. CASE Goto(c, "portal") /\ UNCHANGED metered
  <2> DEFINE new == [calls[c] EXCEPT !.at = "portal"]
  <2>1. /\ new \in CallStates /\ new.at = "portal" /\ new.customer = calls[c].customer
        /\ calls' = [calls EXCEPT ![c] = new]
    BY <1>2 DEF CallStates, SubscriptionIInv, SubscriptionTyped, Goto
  <2> HIDE DEF new
  <2>2. calls'[c] = new
    BY <2>1, CallIs DEF SubscriptionIInv, SubscriptionTyped
  <2>3. new.customer \in Calls => There(new.customer)
    BY <2>1 DEF SubscriptionIInv, KnownAreThere
  <2>4. CallGoesOn(c)'
    BY <2>1, <2>2 DEF AnswerCall, At, SubscriptionIInv, CallsGoOn, CallGoesOn
  <2> QED BY <1>2, <2>1, <2>3, <2>4, CallMoves DEF AnswerCall
<1> QED BY <1>1, <1>2 DEF AnswerCall

(* A webhook writes of a customer Stripe has.                              *)
LEMMA HooksSafe ==
  ASSUME SubscriptionIInv, NEW e \in events,
         \/ SubscriptionHook(e) \/ SubscriptionHookCaches(e) \/ SubscriptionHookFails(e)
         \/ PaymentMethodHook(e) \/ EntitlementsHook(e)
  PROVE  SubscriptionIInv'
<1>1. /\ plan'.customer = plan.customer \/ plan'.customer = e.customer
      /\ "customer" \in DOMAIN plan'
      /\ UNCHANGED <<stripe, events, calls, metered>>
  BY DEF SubscriptionHook, SubscriptionHookCaches, SubscriptionHookFails, PaymentMethodHook,
     EntitlementsHook, SubscriptionIInv, SubscriptionTyped
<1>2. e.customer \in Calls /\ There(e.customer)
  BY DEF SubscriptionIInv, SubscriptionTyped, KnownAreThere
<1>3. hooks' \subseteq events /\ \A h \in hooks' : h.type = "subscription"
  BY DEF SubscriptionHook, SubscriptionHookCaches, SubscriptionHookFails, PaymentMethodHook,
     EntitlementsHook, SubscriptionIInv, SubscriptionTyped
<1>4. org' \in [type : {"company", "personal"}, status : Statuses]
  <2>1. CASE UNCHANGED org
    BY <2>1 DEF SubscriptionIInv, SubscriptionTyped
  <2>2. CASE SubscriptionHookCaches(e)
    <3>1. e.status \in Statuses
      BY <2>2 DEF SubscriptionHookCaches, SubscriptionIInv, SubscriptionTyped
    <3> QED BY <2>2, <3>1 DEF SubscriptionHookCaches, SubscriptionIInv, SubscriptionTyped
  <2> QED
    BY <2>1, <2>2 DEF SubscriptionHook, SubscriptionHookFails, PaymentMethodHook, EntitlementsHook
<1>5. SubscriptionTyped'
  BY <1>1, <1>2, <1>3, <1>4 DEF SubscriptionIInv, SubscriptionTyped
<1>6. Frame(e.customer) /\ ThereThen(e.customer)
  BY <1>1, <1>2 DEF Frame, There, ThereThen
<1>7. KnownAreThere'
  BY <1>1, <1>2 DEF SubscriptionIInv, KnownAreThere, There, ThereThen
<1>8. CallGoesOn(e.customer)'
  BY <1>1, <1>2 DEF SubscriptionIInv, CallsGoOn, CallGoesOn, There, ThereThen
<1>9. CallsGoOn'
  BY <1>2, <1>6, <1>8, OthersGoOn
<1> QED BY <1>1, <1>5, <1>7, <1>9 DEF SubscriptionIInv, MeteredWhereAttached

LEMMA SubscriptionStep == SubscriptionIInv /\ [SubscriptionNext]_subscriptionVars => SubscriptionIInv'
<1> SUFFICES ASSUME SubscriptionIInv, [SubscriptionNext]_subscriptionVars PROVE SubscriptionIInv'
  OBVIOUS
<1>1. ASSUME NEW c \in Calls, NothingToEnsure(c) \/ CallFails(c) PROVE SubscriptionIInv'
  BY <1>1, EndsSafe DEF NothingToEnsure, CallFails
<1>2. ASSUME NEW c \in Calls,
             \/ ReadOrg(c) \/ ReadPlan(c) \/ Subscribe(c) \/ ProvisionMeteredOnly(c) \/ SetSubscription(c)
             \/ UpdateBillingCache(c) \/ ListEntitlements(c) \/ UpdateVanity(c) \/ ReadPlanAgain(c)
             \/ AttachOverage(c) \/ AnswerCall(c)
      PROVE  SubscriptionIInv'
  BY <1>2, ReadOrgSafe, ReadPlanSafe, SubscribeSafe, ProvisionSafe, SetSubscriptionSafe,
     UpdateBillingCacheSafe, ListEntitlementsSafe, UpdateVanitySafe, ReadPlanAgainSafe, AttachOverageSafe, AnswerCallSafe
<1>3. ASSUME NEW c \in Calls, TrialEnds(c) \/ CardAdded(c) \/ InvoiceRetried(c) PROVE SubscriptionIInv'
  BY <1>3, StripeSafe
<1>4. CASE UNCHANGED subscriptionVars
  BY <1>4 DEF subscriptionVars, SubscriptionIInv, SubscriptionTyped, KnownAreThere, There, ThereThen, CallsGoOn,
     CallGoesOn, MeteredWhereAttached
<1> QED BY <1>1, <1>2, <1>3, <1>4, HooksSafe DEF SubscriptionNext

LEMMA SubscriptionStart == SubscriptionInit => SubscriptionIInv
<1> SUFFICES ASSUME SubscriptionInit PROVE SubscriptionIInv
  OBVIOUS
<1>1. SubscriptionTyped
  BY DEF SubscriptionInit, SubscriptionTyped, NoPlan, NoSubscription, NoCall, StripeStates, CallStates, Statuses
<1>2. KnownAreThere /\ CallsGoOn
  BY SubscriptionAssumption
     DEF SubscriptionInit, KnownAreThere, There, ThereThen, CallsGoOn, CallGoesOn, NoPlan, NoSubscription, NoCall
<1> QED BY <1>1, <1>2 DEF SubscriptionInit, SubscriptionIInv, MeteredWhereAttached

(* However many calls make, link, meter and open the portal at once,       *)
(* whatever Stripe does meanwhile and in whatever order it tells, usage is *)
(* posted to a customer whose subscription carries the metered price by    *)
(* then.                                                                   *)
THEOREM UsageFindsThePrice == SubscriptionSpec => []MeteredWhereAttached
<1>1. SubscriptionIInv => MeteredWhereAttached
  BY DEF SubscriptionIInv
<1> QED BY <1>1, SubscriptionStart, SubscriptionStep, PTL DEF SubscriptionSpec

(* What Stripe tells of is a subscription that is there.                   *)
ToldOfReal == \A e \in events : e.type = "subscription" => e.status \notin {"none", "grandfathered"}

(* A new company's world: what is made carries the base price, and whoever *)
(* reads a status finds the row, which names a subscription from then on.  *)
TrialWorld ==
  /\ org.type = "company" /\ org.status # "grandfathered"
  /\ \A c \in Calls : There(c) => "base" \in stripe[c].items
  /\ org.status # "none" \/ hooks # {} => plan.customer \in Calls
  /\ \A c \in Calls :
       /\ calls[c].at \notin {"metered_only", "link"}
       /\ calls[c].status # "grandfathered"
       /\ calls[c].at = "plan" /\ calls[c].status # "none" => plan.customer \in Calls

(* A personal organisation's, and a legacy company's: nobody needs a plan. *)
MeteredWorld ==
  /\ org.type = "personal" \/ org.status # "none"
  /\ \A c \in Calls : "base" \notin stripe[c].items
  /\ \A c \in Calls :
       /\ calls[c].at \notin {"subscribed", "cache"}
       /\ calls[c].at \in {"plan", "ensure"} => org.type = "personal" \/ calls[c].status # "none"

PlanIInv == SubscriptionIInv /\ ToldOfReal /\ (TrialWorld \/ MeteredWorld)

LEMMA ToldStaysReal ==
  ASSUME SubscriptionIInv, ToldOfReal, SubscriptionNext
  PROVE  ToldOfReal'
<1>1. ASSUME NEW c \in Calls, events' = events \cup Told(c), stripe'[c].status \notin {"none", "grandfathered"}
      PROVE  ToldOfReal'
  BY <1>1 DEF ToldOfReal, Told
<1>2. stripe \in [Calls -> StripeStates]
  BY DEF SubscriptionIInv, SubscriptionTyped
<1>3. ASSUME NEW c \in Calls, Subscribe(c) PROVE ToldOfReal'
  <2>1. stripe'[c].status \notin {"none", "grandfathered"}
    BY <1>2, <1>3 DEF Subscribe, StripeStates
  <2> QED BY <1>1, <1>3, <2>1 DEF Subscribe
<1>4. ASSUME NEW c \in Calls, ProvisionMeteredOnly(c) PROVE ToldOfReal'
  <2>1. stripe'[c].status \notin {"none", "grandfathered"}
    BY <1>2, <1>4 DEF ProvisionMeteredOnly, StripeStates
  <2> QED BY <1>1, <1>4, <2>1 DEF ProvisionMeteredOnly
<1>5. ASSUME NEW c \in Calls, TrialEnds(c) PROVE ToldOfReal'
  <2>1. stripe'[c].status \notin {"none", "grandfathered"}
    BY <1>2, <1>5 DEF TrialEnds, StripeStates
  <2> QED BY <1>1, <1>5, <2>1 DEF TrialEnds
<1>6. ASSUME NEW c \in Calls, InvoiceRetried(c) PROVE ToldOfReal'
  <2>1. stripe'[c].status \notin {"none", "grandfathered"}
    BY <1>2, <1>6 DEF InvoiceRetried, StripeStates
  <2> QED BY <1>1, <1>6, <2>1 DEF InvoiceRetried
<1>7. ASSUME NEW c \in Calls, CardAdded(c) PROVE ToldOfReal'
  BY <1>7 DEF CardAdded, ToldOfReal
<1>8. CASE UNCHANGED events
  BY <1>8 DEF ToldOfReal
<1> QED BY <1>3, <1>4, <1>5, <1>6, <1>7, <1>8
        DEF SubscriptionNext, ReadOrg, NothingToEnsure, ReadPlan, SetSubscription, UpdateBillingCache,
            ListEntitlements, UpdateVanity, ReadPlanAgain, AttachOverage, AnswerCall, CallFails,
            SubscriptionHook, SubscriptionHookCaches, SubscriptionHookFails, PaymentMethodHook, EntitlementsHook

(* Once a call is past the row, its steps do not tell which world it is.   *)
LEMMA EitherWorldStays ==
  ASSUME UNCHANGED <<org, hooks>>, plan'.customer = plan.customer,
         \A d \in Calls : /\ ThereThen(d) => There(d)
                          /\ "base" \in stripe'[d].items <=> "base" \in stripe[d].items,
         \A d \in Calls : \/ calls'[d] = calls[d]
                          \/ /\ calls'[d].at \in {"entitled", "plan_again", "items", "post", "portal", "done"}
                             /\ calls'[d].status \in {calls[d].status, "none"}
  PROVE  (TrialWorld => TrialWorld') /\ (MeteredWorld => MeteredWorld')
<1>1. ASSUME TrialWorld PROVE TrialWorld'
  <2>1. \A d \in Calls : ThereThen(d) => "base" \in stripe'[d].items
    BY <1>1 DEF TrialWorld
  <2>2. \A d \in Calls :
          /\ calls'[d].at \notin {"metered_only", "link"}
          /\ calls'[d].status # "grandfathered"
          /\ calls'[d].at = "plan" /\ calls'[d].status # "none" => plan'.customer \in Calls
    BY <1>1 DEF TrialWorld
  <2> QED BY <1>1, <2>1, <2>2 DEF TrialWorld, There, ThereThen
<1>2. ASSUME MeteredWorld PROVE MeteredWorld'
  <2>1. \A d \in Calls : "base" \notin stripe'[d].items
    BY <1>2 DEF MeteredWorld
  <2>2. \A d \in Calls :
          /\ calls'[d].at \notin {"subscribed", "cache"}
          /\ calls'[d].at \in {"plan", "ensure"} => org.type = "personal" \/ calls'[d].status # "none"
    BY <1>2 DEF MeteredWorld
  <2> QED BY <1>2, <2>1, <2>2 DEF MeteredWorld, There, ThereThen
<1> QED BY <1>1, <1>2

LEMMA LateStepsStay ==
  ASSUME SubscriptionIInv, NEW c \in Calls,
         \/ ListEntitlements(c) \/ UpdateVanity(c) \/ ReadPlanAgain(c) \/ AttachOverage(c) \/ AnswerCall(c)
         \/ TrialEnds(c) \/ InvoiceRetried(c)
  PROVE  (TrialWorld => TrialWorld') /\ (MeteredWorld => MeteredWorld')
<1> DEFINE Late(d) == \/ calls'[d] = calls[d]
                      \/ /\ calls'[d].at \in {"entitled", "plan_again", "items", "post", "portal", "done"}
                         /\ calls'[d].status \in {calls[d].status, "none"}
           SameItems(d) == /\ ThereThen(d) => There(d)
                           /\ "base" \in stripe'[d].items <=> "base" \in stripe[d].items
<1>1. /\ stripe \in [Calls -> StripeStates] /\ calls \in [Calls -> CallStates]
      /\ "customer" \in DOMAIN plan
  BY DEF SubscriptionIInv, SubscriptionTyped
<1>2. UNCHANGED <<org, hooks>> /\ plan'.customer = plan.customer
  BY <1>1 DEF ListEntitlements, UpdateVanity, ReadPlanAgain, AttachOverage, AnswerCall, TrialEnds, InvoiceRetried
<1>3. ASSUME NEW d \in Calls PROVE Late(d)
  <2>1. ASSUME NEW at, Goto(c, at)
        PROVE  calls'[d] = calls[d] \/ (calls'[d].at = at /\ calls'[d].status = calls[d].status)
    BY <1>1, <2>1 DEF Goto, CallStates
  <2>2. Ends(c) => calls'[d] = calls[d] \/ (calls'[d].at = "done" /\ calls'[d].status = "none")
    BY <1>1 DEF Ends, NoCall
  <2>3. CASE ListEntitlements(c) \/ ReadPlanAgain(c)
    BY <1>1, <2>3 DEF ListEntitlements, ReadPlanAgain, CallStates
  <2>4. CASE UpdateVanity(c) \/ AttachOverage(c) \/ AnswerCall(c)
    <3>1. Ends(c) \/ Goto(c, "plan_again") \/ Goto(c, "post") \/ Goto(c, "portal")
      BY <2>4 DEF UpdateVanity, AttachOverage, AnswerCall
    <3> QED BY <2>1, <2>2, <3>1
  <2>5. CASE TrialEnds(c) \/ InvoiceRetried(c)
    BY <2>5 DEF TrialEnds, InvoiceRetried
  <2> QED BY <2>3, <2>4, <2>5
<1>4. ASSUME NEW d \in Calls PROVE SameItems(d)
  <2>1. CASE UNCHANGED stripe
    BY <2>1 DEF There, ThereThen
  <2>2. CASE AttachOverage(c)
    <3>1. calls[c].customer \in Calls
      BY <2>2 DEF AttachOverage, At, SubscriptionIInv, CallsGoOn, CallGoesOn
    <3>2. CASE stripe' = [stripe EXCEPT ![calls[c].customer].items = @ \cup {"overage"}]
      BY <1>1, <3>1, <3>2 DEF There, ThereThen, StripeStates
    <3> QED BY <2>1, <2>2, <3>2 DEF AttachOverage
  <2>3. CASE TrialEnds(c)
    BY <1>1, <2>3 DEF TrialEnds, There, ThereThen, StripeStates
  <2>4. CASE InvoiceRetried(c)
    <3>1. PICK s \in {"active", "past_due", "canceled"} : stripe' = [stripe EXCEPT ![c].status = s]
      BY <2>4 DEF InvoiceRetried
    <3>2. There(c)
      BY <2>4 DEF InvoiceRetried, There
    <3> QED BY <1>1, <3>1, <3>2 DEF There, ThereThen, StripeStates
  <2> QED BY <2>1, <2>2, <2>3, <2>4 DEF ListEntitlements, UpdateVanity, ReadPlanAgain, AnswerCall
<1> QED BY <1>2, <1>3, <1>4, EitherWorldStays

LEMMA TrialWorldStays ==
  ASSUME SubscriptionIInv, ToldOfReal, TrialWorld, SubscriptionNext
  PROVE  TrialWorld'
<1> USE DEF TrialWorld, There, ThereThen
<1>1. /\ stripe \in [Calls -> StripeStates] /\ calls \in [Calls -> CallStates]
      /\ plan.customer \in Calls \cup {NoCustomer} /\ "customer" \in DOMAIN plan
      /\ hooks \subseteq events /\ NoCustomer \notin Calls
      /\ org \in [type : {"company", "personal"}, status : Statuses]
  BY SubscriptionAssumption DEF SubscriptionIInv, SubscriptionTyped
<1>2. ASSUME NEW c \in Calls, ReadOrg(c) PROVE TrialWorld'
  BY <1>1, <1>2 DEF ReadOrg, NoCall
<1>3. ASSUME NEW c \in Calls, Ends(c), UNCHANGED <<org, plan, stripe, hooks>> PROVE TrialWorld'
  BY <1>1, <1>3 DEF Ends, NoCall
<1>4. ASSUME NEW c \in Calls, ReadPlan(c) PROVE TrialWorld'
  BY <1>1, <1>4 DEF ReadPlan, NeedsPlan, At
<1>5. ASSUME NEW c \in Calls, Subscribe(c) PROVE TrialWorld'
  BY <1>1, <1>5 DEF Subscribe
<1>6. ASSUME NEW c \in Calls, SetSubscription(c) PROVE TrialWorld'
  BY <1>1, <1>6 DEF SetSubscription, At
<1>7. ASSUME NEW c \in Calls, UpdateBillingCache(c) PROVE TrialWorld'
  <2>1. plan.customer \in Calls
    BY <1>7 DEF UpdateBillingCache, At, SubscriptionIInv, CallsGoOn, CallGoesOn
  <2> QED BY <1>1, <1>7, <2>1 DEF UpdateBillingCache, Goto
<1>8. ASSUME NEW c \in Calls,
             \/ ListEntitlements(c) \/ UpdateVanity(c) \/ ReadPlanAgain(c) \/ AttachOverage(c)
             \/ AnswerCall(c) \/ TrialEnds(c) \/ InvoiceRetried(c)
      PROVE  TrialWorld'
  BY <1>8, LateStepsStay
<1>9. ASSUME NEW c \in Calls, CardAdded(c) PROVE TrialWorld'
  BY <1>1, <1>9 DEF CardAdded
<1>10. ASSUME NEW e \in events, SubscriptionHook(e) PROVE TrialWorld'
  <2>1. e.customer \in Calls
    BY DEF SubscriptionIInv, SubscriptionTyped
  <2> QED BY <1>1, <1>10, <2>1 DEF SubscriptionHook
<1>11. ASSUME NEW e \in events, SubscriptionHookCaches(e) PROVE TrialWorld'
  <2>1. e.status # "grandfathered"
    BY <1>1, <1>11 DEF SubscriptionHookCaches, ToldOfReal, SubscriptionIInv, SubscriptionTyped
  <2> QED BY <1>1, <1>11, <2>1 DEF SubscriptionHookCaches
<1>12. ASSUME NEW e \in events, SubscriptionHookFails(e) \/ PaymentMethodHook(e) \/ EntitlementsHook(e)
       PROVE  TrialWorld'
  BY <1>1, <1>12 DEF SubscriptionHookFails, PaymentMethodHook, EntitlementsHook
<1>13. ASSUME NEW c \in Calls PROVE ~ProvisionMeteredOnly(c)
  BY DEF ProvisionMeteredOnly, At
<1> QED BY <1>2, <1>3, <1>4, <1>5, <1>6, <1>7, <1>8, <1>9, <1>10, <1>11, <1>12, <1>13
        DEF SubscriptionNext, NothingToEnsure, CallFails

LEMMA MeteredWorldStays ==
  ASSUME SubscriptionIInv, ToldOfReal, MeteredWorld, SubscriptionNext
  PROVE  MeteredWorld'
<1> USE DEF MeteredWorld, There, ThereThen
<1>1. /\ stripe \in [Calls -> StripeStates] /\ calls \in [Calls -> CallStates]
      /\ hooks \subseteq events
      /\ org \in [type : {"company", "personal"}, status : Statuses]
  BY DEF SubscriptionIInv, SubscriptionTyped
<1>2. ASSUME NEW c \in Calls, ReadOrg(c) PROVE MeteredWorld'
  BY <1>1, <1>2 DEF ReadOrg, NoCall
<1>3. ASSUME NEW c \in Calls, Ends(c), UNCHANGED <<org, stripe>> PROVE MeteredWorld'
  BY <1>1, <1>3 DEF Ends, NoCall
<1>4. ASSUME NEW c \in Calls, ReadPlan(c) PROVE MeteredWorld'
  BY <1>1, <1>4 DEF ReadPlan, At
<1>5. ASSUME NEW c \in Calls, ProvisionMeteredOnly(c) PROVE MeteredWorld'
  BY <1>1, <1>5 DEF ProvisionMeteredOnly, Goto
<1>6. ASSUME NEW c \in Calls, SetSubscription(c) PROVE MeteredWorld'
  BY <1>1, <1>6 DEF SetSubscription, At
<1>7. ASSUME NEW c \in Calls PROVE ~Subscribe(c) /\ ~UpdateBillingCache(c)
  BY DEF Subscribe, UpdateBillingCache, NeedsPlan, At
<1>8. ASSUME NEW c \in Calls,
             \/ ListEntitlements(c) \/ UpdateVanity(c) \/ ReadPlanAgain(c) \/ AttachOverage(c)
             \/ AnswerCall(c) \/ TrialEnds(c) \/ InvoiceRetried(c)
      PROVE  MeteredWorld'
  BY <1>8, LateStepsStay
<1>9. ASSUME NEW c \in Calls, CardAdded(c) PROVE MeteredWorld'
  BY <1>1, <1>9 DEF CardAdded
<1>10. ASSUME NEW e \in events, SubscriptionHookCaches(e) PROVE MeteredWorld'
  <2>1. e.status # "none"
    BY <1>1, <1>10 DEF SubscriptionHookCaches, ToldOfReal, SubscriptionIInv, SubscriptionTyped
  <2> QED BY <1>1, <1>10, <2>1 DEF SubscriptionHookCaches
<1>11. ASSUME NEW e \in events,
              SubscriptionHook(e) \/ SubscriptionHookFails(e) \/ PaymentMethodHook(e) \/ EntitlementsHook(e)
       PROVE  MeteredWorld'
  BY <1>11 DEF SubscriptionHook, SubscriptionHookFails, PaymentMethodHook, EntitlementsHook
<1> QED BY <1>2, <1>3, <1>4, <1>5, <1>6, <1>7, <1>8, <1>9, <1>10, <1>11
        DEF SubscriptionNext, NothingToEnsure, CallFails

(* However calls, failures and webhooks cross, all the subscriptions an    *)
(* organisation ever gets are of one kind, and only a company that is not  *)
(* a legacy one gets a base price: the row names a subscription before     *)
(* anybody can read a status that says there is one.                       *)
THEOREM PlansAreOfOneKind == SubscriptionSpec => []OneKindOfPlan
<1>1. SubscriptionInit => PlanIInv
  <2> SUFFICES ASSUME SubscriptionInit PROVE PlanIInv
    OBVIOUS
  <2>1. ToldOfReal /\ (TrialWorld \/ MeteredWorld)
    BY DEF SubscriptionInit, ToldOfReal, TrialWorld, MeteredWorld, There, NoSubscription, NoCall, NoPlan
  <2> QED BY <2>1, SubscriptionStart DEF PlanIInv
<1>2. PlanIInv /\ [SubscriptionNext]_subscriptionVars => PlanIInv'
  <2> SUFFICES ASSUME PlanIInv, [SubscriptionNext]_subscriptionVars PROVE PlanIInv'
    OBVIOUS
  <2>1. SubscriptionIInv'
    BY SubscriptionStep DEF PlanIInv
  <2>2. CASE SubscriptionNext
    BY <2>1, <2>2, ToldStaysReal, TrialWorldStays, MeteredWorldStays DEF PlanIInv
  <2>3. CASE UNCHANGED subscriptionVars
    <3>1. (ToldOfReal' <=> ToldOfReal) /\ (TrialWorld' <=> TrialWorld) /\ (MeteredWorld' <=> MeteredWorld)
      BY <2>3 DEF subscriptionVars, ToldOfReal, TrialWorld, MeteredWorld, There, ThereThen
    <3> QED BY <2>1, <3>1 DEF PlanIInv
  <2> QED BY <2>2, <2>3
<1>3. PlanIInv => OneKindOfPlan
  <2>1. ASSUME TrialWorld PROVE OneKindOfPlan
    <3>1. SubscriptionIInv => \A c \in Calls : "base" \in stripe[c].items => org.type = "company"
      BY <2>1 DEF TrialWorld
    <3> QED BY <2>1, <3>1 DEF TrialWorld, OneKindOfPlan, There
  <2>2. ASSUME MeteredWorld PROVE OneKindOfPlan
    BY <2>2 DEF MeteredWorld, OneKindOfPlan, There
  <2> QED BY <2>1, <2>2 DEF PlanIInv
<1> QED BY <1>1, <1>2, <1>3, PTL DEF SubscriptionSpec

-----------------------------------------------------------------------------
(* How a person comes into an organisation.                                *)


Roles == {o.role : o \in Offers} \cup {NoRole}

OfferParts == [role : Roles, grants : SUBSET AllGrants]

InviterStates ==
  [at : {"idle", "find", "update", "insert", "permissions", "commit", "done", "409", "500"},
   offer : OfferParts, row : {NoOne} \cup InvitationIds]

AccepterStates == [at : {"idle", "join", "copy", "commit", "gone", "done", "500"},
                   offer : OfferParts, row : {NoOne} \cup InvitationIds]

CreatorStates ==
  [at : {"idle", "400", "invite", "phone", "insert", "commit", "orphan", "done", "500", "dead"},
   offer : OfferParts, row : {NoOne}]

InvitationStates == [status : {"none", "pending", "accepted", "declined"}, offer : OfferParts]

TablesTyped ==
  /\ invitation \in [InvitationIds -> InvitationStates]
  /\ rowLock \in [InvitationIds -> {NoOne} \cup Inviters \cup Accepters]
  /\ {"role", "grants"} \subseteq DOMAIN member
  /\ memberLock \in {NoOne} \cup Accepters \cup Creators

CallsTyped ==
  /\ inviter \in [Inviters -> InviterStates]
  /\ accepter \in [Accepters -> AccepterStates]
  /\ creator \in [Creators -> CreatorStates]

(* What is offered was an offer when it was asked for, and stays one.      *)
OffersStand ==
  /\ \A i \in Inviters : inviter[i].at # "idle" => inviter[i].offer \in Offers
  /\ \A n \in Creators : creator[n].at # "idle" => creator[n].offer \in Offers
  /\ \A i \in InvitationIds : invitation[i].status # "none" => invitation[i].offer \in Offers

(* A row that is there was committed by the call that inserted it, and a   *)
(* call that updates a row found one that was there.                       *)
RowFound(i) ==
  inviter[i].at \in {"update", "permissions", "commit"} =>
    /\ inviter[i].row \in InvitationIds
    /\ \/ inviter[i].at # "update" /\ inviter[i].row = i
       \/ invitation[inviter[i].row].status # "none"

RowsAreInserted ==
  /\ \A i \in InvitationIds : invitation[i].status # "none" => inviter[i].at = "done"
  /\ \A i \in Inviters : RowFound(i)

(* A call that has written a row holds it until it is over.                *)
WriterHolds(i) == inviter[i].at \in {"permissions", "commit"} => rowLock[inviter[i].row] = i

WritersHold == \A i \in Inviters : WriterHolds(i)

(* So does an accepter, and what he has read of it still stands.           *)
Under(a) == accepter[a].at \in {"join", "copy", "commit", "gone"}

AccepterHolds(a) ==
  Under(a) =>
    /\ accepter[a].row \in InvitationIds
    /\ rowLock[accepter[a].row] = a
    /\ invitation[accepter[a].row].status = "pending"
    /\ accepter[a].offer.role = invitation[accepter[a].row].offer.role
    /\ accepter[a].at = "commit" => accepter[a].offer.grants = invitation[accepter[a].row].offer.grants

AcceptersHold == \A a \in Accepters : AccepterHolds(a)

(* Whoever holds the person's primary key is about to make him a member;   *)
(* an accepter who goes on without it has found him one.                   *)
KeyLock ==
  /\ memberLock # NoOne => member.role = NoRole
  /\ \A a \in Accepters : memberLock = a => accepter[a].at \in {"copy", "commit"}
  /\ \A n \in Creators : memberLock = n <=> creator[n].at = "commit"

Joining == \A a \in Accepters : accepter[a].at \in {"copy", "commit"} => memberLock = a \/ member.role # NoRole

NoneHasNothing == member.role = NoRole => member.grants = {}

AccountsIInv ==
  /\ TablesTyped /\ CallsTyped
  /\ OffersStand
  /\ RowsAreInserted
  /\ WritersHold
  /\ AcceptersHold
  /\ KeyLock /\ Joining
  /\ NoneHasNothing

LEMMA OffersTyped ==
  \A o \in Offers : o \in OfferParts /\ o.role # NoRole
BY AccountsAssumption DEF OfferParts, Roles

(* The parts that a step of one of the three kinds of call can disturb.    *)
InvitingInv == OffersStand /\ RowsAreInserted /\ WritersHold /\ AcceptersHold
JoiningInv == KeyLock /\ Joining /\ NoneHasNothing

LEMMA SameJoining ==
  ASSUME AccountsIInv, UNCHANGED <<member, memberLock, accepter, creator>>
  PROVE  JoiningInv'
BY DEF AccountsIInv, JoiningInv, KeyLock, Joining, NoneHasNothing

LEMMA SameInviting ==
  ASSUME AccountsIInv, UNCHANGED <<invitation, rowLock, inviter, accepter>>,
         \A n \in Creators : creator'[n].at # "idle" => creator'[n].offer \in Offers
  PROVE  InvitingInv'
BY DEF AccountsIInv, InvitingInv, OffersStand, RowsAreInserted, RowFound, WritersHold, WriterHolds,
       AcceptersHold, AccepterHolds, Under

-----------------------------------------------------------------------------
(* createInvitation.                                                       *)

LEMMA InviterIs ==
  ASSUME AccountsIInv, NEW i \in Inviters, NEW new \in InviterStates,
         inviter' = [inviter EXCEPT ![i] = new]
  PROVE  /\ inviter' \in [Inviters -> InviterStates] /\ inviter'[i] = new
         /\ \A j \in Inviters \ {i} : inviter'[j] = inviter[j]
BY DEF AccountsIInv, CallsTyped

(* A call goes on, and touches no row.                                     *)
LEMMA InviterMoves ==
  ASSUME AccountsIInv, NEW i \in Inviters, NEW new \in InviterStates,
         inviter' = [inviter EXCEPT ![i] = new], UNCHANGED <<invitation, rowLock, OthersOfInviting>>,
         inviter[i].at # "done", new.at # "idle", new.offer \in Offers,
         RowFound(i)', WriterHolds(i)'
  PROVE  AccountsIInv'
<1>1. /\ inviter' \in [Inviters -> InviterStates] /\ inviter'[i] = new
      /\ \A j \in Inviters \ {i} : inviter'[j] = inviter[j]
  BY InviterIs
<1>2. TablesTyped' /\ CallsTyped'
  BY <1>1 DEF AccountsIInv, TablesTyped, CallsTyped, OthersOfInviting
<1>3. OffersStand'
  BY <1>1 DEF AccountsIInv, OffersStand, OthersOfInviting
<1>4. RowsAreInserted'
  <2>1. \A j \in InvitationIds : invitation'[j].status # "none" => inviter'[j].at = "done"
    BY <1>1 DEF AccountsIInv, RowsAreInserted, InvitationIds
  <2>2. \A j \in Inviters \ {i} : RowFound(j)'
    BY <1>1 DEF AccountsIInv, RowsAreInserted, RowFound
  <2> QED BY <2>1, <2>2 DEF RowsAreInserted
<1>5. WritersHold'
  BY <1>1 DEF AccountsIInv, WritersHold, WriterHolds
<1>6. AcceptersHold'
  BY DEF AccountsIInv, AcceptersHold, AccepterHolds, Under, OthersOfInviting
<1>7. JoiningInv'
  BY SameJoining DEF OthersOfInviting
<1> QED BY <1>2, <1>3, <1>4, <1>5, <1>6, <1>7 DEF AccountsIInv, JoiningInv

(* A call writes a row nobody else holds.                                  *)
LEMMA InviterLocks ==
  ASSUME AccountsIInv, NEW i \in Inviters, NEW new \in InviterStates, NEW r \in InvitationIds,
         inviter' = [inviter EXCEPT ![i] = new], rowLock' = [rowLock EXCEPT ![r] = i],
         UNCHANGED <<invitation, OthersOfInviting>>,
         inviter[i].at # "done", new.at = "permissions", new.row = r, new.offer \in Offers,
         r = i \/ invitation[r].status # "none",
         \A a \in Accepters : Under(a) => accepter[a].row # r,
         \A j \in Inviters \ {i} : inviter[j].at \in {"permissions", "commit"} => inviter[j].row # r
  PROVE  AccountsIInv'
<1>1. /\ inviter' \in [Inviters -> InviterStates] /\ inviter'[i] = new
      /\ \A j \in Inviters \ {i} : inviter'[j] = inviter[j]
  BY InviterIs
<1>2. /\ rowLock' \in [InvitationIds -> {NoOne} \cup Inviters \cup Accepters] /\ rowLock'[r] = i
      /\ \A s \in InvitationIds \ {r} : rowLock'[s] = rowLock[s]
  BY DEF AccountsIInv, TablesTyped
<1>3. TablesTyped' /\ CallsTyped'
  BY <1>1, <1>2 DEF AccountsIInv, TablesTyped, CallsTyped, OthersOfInviting
<1>4. OffersStand'
  BY <1>1 DEF AccountsIInv, OffersStand, OthersOfInviting
<1>5. RowsAreInserted'
  <2>1. \A j \in InvitationIds : invitation'[j].status # "none" => inviter'[j].at = "done"
    BY <1>1 DEF AccountsIInv, RowsAreInserted, InvitationIds
  <2>2. \A j \in Inviters : RowFound(j)'
    BY <1>1 DEF AccountsIInv, RowsAreInserted, RowFound
  <2> QED BY <2>1, <2>2 DEF RowsAreInserted
<1>6. WritersHold'
  BY <1>1, <1>2 DEF AccountsIInv, WritersHold, WriterHolds, RowsAreInserted, RowFound
<1>7. AcceptersHold'
  BY <1>2 DEF AccountsIInv, AcceptersHold, AccepterHolds, Under, OthersOfInviting
<1>8. JoiningInv'
  BY SameJoining DEF OthersOfInviting
<1> QED BY <1>3, <1>4, <1>5, <1>6, <1>7, <1>8 DEF AccountsIInv, JoiningInv

LEMMA AskToInviteSafe ==
  ASSUME AccountsIInv, NEW i \in Inviters, AskToInvite(i)
  PROVE  AccountsIInv'
<1>1. PICK o \in Offers, at \in {"find", "409"} :
        inviter' = [inviter EXCEPT ![i] = [at |-> at, offer |-> o, row |-> NoOne]]
  BY DEF AskToInvite, MayOffer
<1> DEFINE new == [at |-> at, offer |-> o, row |-> NoOne]
<1>2. new \in InviterStates /\ new.at = at /\ new.offer = o
  BY OffersTyped DEF InviterStates
<1>3. inviter' = [inviter EXCEPT ![i] = new]
  BY <1>1
<1> HIDE DEF new
<1>4. RowFound(i)' /\ WriterHolds(i)'
  BY <1>2, <1>3, InviterIs DEF RowFound, WriterHolds
<1> QED BY <1>2, <1>3, <1>4, InviterMoves DEF AskToInvite, Inviting

(* What the record of a call is after its place in the protocol changes.   *)
LEMMA InviterAtIs ==
  ASSUME AccountsIInv, NEW i \in Inviters,
         NEW at \in {"insert", "permissions", "commit", "done", "500"}, InviterAt(i, at)
  PROVE  \E new \in InviterStates :
           /\ inviter' = [inviter EXCEPT ![i] = new]
           /\ new.at = at /\ new.offer = inviter[i].offer /\ new.row = inviter[i].row
<1> DEFINE new == [inviter[i] EXCEPT !.at = at]
<1>1. inviter[i] \in InviterStates
  BY DEF AccountsIInv, CallsTyped
<1>2. new \in InviterStates /\ new.at = at /\ new.offer = inviter[i].offer /\ new.row = inviter[i].row
  BY <1>1 DEF InviterStates
<1>3. inviter' = [inviter EXCEPT ![i] = new]
  BY DEF InviterAt
<1> HIDE DEF new
<1> QED BY <1>2, <1>3

LEMMA FindPendingSafe ==
  ASSUME AccountsIInv, NEW i \in Inviters, FindPending(i)
  PROVE  AccountsIInv'
<1>1. inviter[i].at = "find" /\ inviter[i].offer \in Offers
  BY DEF FindPending, Inviting, AccountsIInv, OffersStand
<1>2. CASE InviterAt(i, "insert")
  <2>1. PICK new \in InviterStates :
          /\ inviter' = [inviter EXCEPT ![i] = new]
          /\ new.at = "insert" /\ new.offer = inviter[i].offer
    BY <1>2, InviterAtIs
  <2>2. RowFound(i)' /\ WriterHolds(i)'
    BY <2>1, InviterIs DEF RowFound, WriterHolds
  <2> QED BY <1>1, <2>1, <2>2, InviterMoves DEF FindPending
<1>3. ASSUME NEW j \in InvitationIds, Pending(j),
             inviter' = [inviter EXCEPT ![i].at = "update", ![i].row = j]
      PROVE  AccountsIInv'
  <2> DEFINE new == [inviter[i] EXCEPT !.at = "update", !.row = j]
  <2>1. inviter[i] \in InviterStates
    BY DEF AccountsIInv, CallsTyped
  <2>2. new \in InviterStates /\ new.at = "update" /\ new.offer = inviter[i].offer /\ new.row = j
    BY <2>1 DEF InviterStates
  <2>3. inviter' = [inviter EXCEPT ![i] = new]
    BY <1>3
  <2> HIDE DEF new
  <2>4. inviter'[i] = new
    BY <2>2, <2>3, InviterIs
  <2>5. RowFound(i)' /\ WriterHolds(i)'
    BY <1>3, <2>2, <2>4 DEF RowFound, WriterHolds, FindPending, Pending
  <2> QED BY <1>1, <2>2, <2>3, <2>5, InviterMoves DEF FindPending
<1> QED BY <1>2, <1>3 DEF FindPending

LEMMA UpdateInvitationSafe ==
  ASSUME AccountsIInv, NEW i \in Inviters, UpdateInvitation(i)
  PROVE  AccountsIInv'
<1>1. PICK new \in InviterStates :
        /\ inviter' = [inviter EXCEPT ![i] = new]
        /\ new.at = "permissions" /\ new.offer = inviter[i].offer /\ new.row = inviter[i].row
  BY InviterAtIs DEF UpdateInvitation
<1> DEFINE r == inviter[i].row
<1>2. inviter[i].at = "update" /\ inviter[i].offer \in Offers
  BY DEF UpdateInvitation, Inviting, AccountsIInv, OffersStand
<1>3. r \in InvitationIds /\ invitation[r].status # "none" /\ rowLock[r] = NoOne
  BY <1>2 DEF UpdateInvitation, AccountsIInv, RowsAreInserted, RowFound
<1>4. \A a \in Accepters : Under(a) => accepter[a].row # r
  BY <1>3, AccountsAssumption DEF AccountsIInv, AcceptersHold, AccepterHolds
<1>5. \A j \in Inviters \ {i} : inviter[j].at \in {"permissions", "commit"} => inviter[j].row # r
  BY <1>3, AccountsAssumption DEF AccountsIInv, WritersHold, WriterHolds
<1>6. rowLock' = [rowLock EXCEPT ![r] = i]
  BY DEF UpdateInvitation
<1>7. UNCHANGED <<invitation, OthersOfInviting>>
  BY DEF UpdateInvitation
<1>8. inviter[i].at # "done" /\ new.offer \in Offers /\ new.row = r
  BY <1>1, <1>2
<1> HIDE DEF r
<1> QED BY <1>1, <1>3, <1>4, <1>5, <1>6, <1>7, <1>8, InviterLocks

(* A row that is not there yet is in nobody's hands.                       *)
LEMMA InsertInvitationSafe ==
  ASSUME AccountsIInv, NEW i \in Inviters, InsertInvitation(i)
  PROVE  AccountsIInv'
<1>1. inviter[i].at = "insert" /\ inviter[i].offer \in Offers
  BY DEF InsertInvitation, Inviting, AccountsIInv, OffersStand
<1>2. CASE InviterAt(i, "500") /\ UNCHANGED rowLock
  <2>1. PICK new \in InviterStates :
          /\ inviter' = [inviter EXCEPT ![i] = new]
          /\ new.at = "500" /\ new.offer = inviter[i].offer
    BY <1>2, InviterAtIs
  <2>2. RowFound(i)' /\ WriterHolds(i)'
    BY <2>1, InviterIs DEF RowFound, WriterHolds
  <2> QED BY <1>1, <1>2, <2>1, <2>2, InviterMoves DEF InsertInvitation
<1>3. CASE /\ rowLock' = [rowLock EXCEPT ![i] = i]
           /\ inviter' = [inviter EXCEPT ![i].at = "permissions", ![i].row = i]
  <2> DEFINE new == [inviter[i] EXCEPT !.at = "permissions", !.row = i]
  <2>1. inviter[i] \in InviterStates
    BY DEF AccountsIInv, CallsTyped
  <2>2. new \in InviterStates /\ new.at = "permissions" /\ new.offer = inviter[i].offer /\ new.row = i
    BY <2>1 DEF InviterStates, InvitationIds
  <2>3. inviter' = [inviter EXCEPT ![i] = new]
    BY <1>3
  <2> HIDE DEF new
  <2>4. i \in InvitationIds /\ invitation[i].status = "none"
    BY <1>1 DEF InvitationIds, AccountsIInv, RowsAreInserted
  <2>5. \A a \in Accepters : Under(a) => accepter[a].row # i
    BY <2>4 DEF AccountsIInv, AcceptersHold, AccepterHolds
  <2>6. \A j \in Inviters \ {i} : inviter[j].at \in {"permissions", "commit"} => inviter[j].row # i
    BY <2>4 DEF AccountsIInv, RowsAreInserted, RowFound
  <2>7. UNCHANGED <<invitation, OthersOfInviting>>
    BY DEF InsertInvitation
  <2>8. inviter[i].at # "done" /\ new.offer \in Offers /\ rowLock' = [rowLock EXCEPT ![i] = i]
    BY <1>1, <1>3, <2>2
  <2> QED BY <2>2, <2>3, <2>4, <2>5, <2>6, <2>7, <2>8, InviterLocks
<1> QED BY <1>2, <1>3 DEF InsertInvitation

LEMMA RewritePermissionsSafe ==
  ASSUME AccountsIInv, NEW i \in Inviters, RewritePermissions(i)
  PROVE  AccountsIInv'
<1>1. inviter[i].at = "permissions" /\ inviter[i].offer \in Offers
  BY DEF RewritePermissions, Inviting, AccountsIInv, OffersStand
<1>2. PICK new \in InviterStates :
        /\ inviter' = [inviter EXCEPT ![i] = new]
        /\ new.at = "commit" /\ new.offer = inviter[i].offer /\ new.row = inviter[i].row
  BY InviterAtIs DEF RewritePermissions
<1>3. inviter'[i] = new
  BY <1>2, InviterIs
<1>4. RowFound(i) /\ WriterHolds(i)
  BY DEF AccountsIInv, RowsAreInserted, WritersHold
<1>5. RowFound(i)' /\ WriterHolds(i)'
  BY <1>1, <1>2, <1>3, <1>4 DEF RowFound, WriterHolds, RewritePermissions
<1> QED BY <1>1, <1>2, <1>5, InviterMoves DEF RewritePermissions

LEMMA CommitInvitationSafe ==
  ASSUME AccountsIInv, NEW i \in Inviters, CommitInvitation(i)
  PROVE  AccountsIInv'
<1> DEFINE r == inviter[i].row
           entry == [status |-> IF r = i THEN "pending" ELSE invitation[r].status, offer |-> inviter[i].offer]
<1>1. inviter[i].at = "commit" /\ inviter[i].offer \in Offers
  BY DEF CommitInvitation, Inviting, AccountsIInv, OffersStand
<1>2. /\ r \in InvitationIds /\ rowLock[r] = i
      /\ r = i \/ invitation[r].status # "none"
  BY <1>1 DEF AccountsIInv, RowsAreInserted, RowFound, WritersHold, WriterHolds
<1>3. /\ entry \in InvitationStates /\ entry.offer = inviter[i].offer
      /\ entry.status # "none" /\ (r # i => entry.status = invitation[r].status)
  <2>1. invitation[r] \in InvitationStates
    BY <1>2 DEF AccountsIInv, TablesTyped
  <2> QED BY <1>1, <1>2, <2>1, OffersTyped DEF InvitationStates
<1>4. invitation' = [invitation EXCEPT ![r] = entry]
  BY <1>2 DEF CommitInvitation, AccountsIInv, TablesTyped
<1>5. rowLock' = [rowLock EXCEPT ![r] = NoOne]
  BY DEF CommitInvitation
<1>6. PICK new \in InviterStates :
        /\ inviter' = [inviter EXCEPT ![i] = new]
        /\ new.at = "done" /\ new.offer = inviter[i].offer
  BY InviterAtIs DEF CommitInvitation
<1> HIDE DEF r, entry
<1>7. /\ inviter' \in [Inviters -> InviterStates] /\ inviter'[i] = new
      /\ \A j \in Inviters \ {i} : inviter'[j] = inviter[j]
  BY <1>6, InviterIs
<1>8. /\ invitation' \in [InvitationIds -> InvitationStates] /\ invitation'[r] = entry
      /\ \A s \in InvitationIds \ {r} : invitation'[s] = invitation[s]
      /\ rowLock' \in [InvitationIds -> {NoOne} \cup Inviters \cup Accepters]
      /\ \A s \in InvitationIds \ {r} : rowLock'[s] = rowLock[s]
  BY <1>2, <1>3, <1>4, <1>5 DEF AccountsIInv, TablesTyped
<1>9. TablesTyped' /\ CallsTyped'
  BY <1>7, <1>8 DEF CommitInvitation, AccountsIInv, TablesTyped, CallsTyped, OthersOfInviting
<1>10. OffersStand'
  BY <1>1, <1>3, <1>6, <1>7, <1>8 DEF CommitInvitation, AccountsIInv, OffersStand, OthersOfInviting
<1>11. RowsAreInserted'
  <2>1. \A j \in InvitationIds : invitation'[j].status # "none" => inviter'[j].at = "done"
    BY <1>2, <1>3, <1>6, <1>7, <1>8 DEF AccountsIInv, RowsAreInserted, InvitationIds
  <2>2. \A j \in Inviters : RowFound(j)'
    BY <1>3, <1>6, <1>7, <1>8 DEF AccountsIInv, RowsAreInserted, RowFound
  <2> QED BY <2>1, <2>2 DEF RowsAreInserted
<1>12. WritersHold'
  BY <1>2, <1>6, <1>7, <1>8 DEF AccountsIInv, WritersHold, WriterHolds, RowsAreInserted, RowFound
<1>13. AcceptersHold'
  BY <1>2, <1>8, AccountsAssumption
     DEF CommitInvitation, AccountsIInv, AcceptersHold, AccepterHolds, Under, OthersOfInviting
<1>14. JoiningInv'
  BY SameJoining DEF CommitInvitation, OthersOfInviting
<1> QED BY <1>9, <1>10, <1>11, <1>12, <1>13, <1>14 DEF AccountsIInv, JoiningInv

LEMMA InvitingFailsSafe ==
  ASSUME AccountsIInv, NEW i \in Inviters, InvitingFails(i)
  PROVE  AccountsIInv'
<1>1. inviter[i].at \notin {"idle", "done"} /\ inviter[i].offer \in Offers
  BY DEF InvitingFails, AccountsIInv, OffersStand
<1>2. PICK new \in InviterStates :
        /\ inviter' = [inviter EXCEPT ![i] = new]
        /\ new.at = "500" /\ new.offer = inviter[i].offer
  BY InviterAtIs DEF InvitingFails
<1>3. /\ inviter' \in [Inviters -> InviterStates] /\ inviter'[i] = new
      /\ \A j \in Inviters \ {i} : inviter'[j] = inviter[j]
  BY <1>2, InviterIs
<1>4. /\ rowLock' \in [InvitationIds -> {NoOne} \cup Inviters \cup Accepters]
      /\ \A s \in InvitationIds : rowLock[s] # i => rowLock'[s] = rowLock[s]
  BY DEF InvitingFails, AccountsIInv, TablesTyped
<1>5. TablesTyped' /\ CallsTyped'
  BY <1>3, <1>4 DEF InvitingFails, AccountsIInv, TablesTyped, CallsTyped, OthersOfInviting
<1>6. OffersStand'
  BY <1>1, <1>2, <1>3 DEF InvitingFails, AccountsIInv, OffersStand, OthersOfInviting
<1>7. RowsAreInserted'
  <2>1. \A j \in InvitationIds : invitation'[j].status # "none" => inviter'[j].at = "done"
    BY <1>1, <1>3 DEF InvitingFails, AccountsIInv, RowsAreInserted, InvitationIds
  <2>2. \A j \in Inviters : RowFound(j)'
    BY <1>2, <1>3 DEF InvitingFails, AccountsIInv, RowsAreInserted, RowFound
  <2> QED BY <2>1, <2>2 DEF RowsAreInserted
<1>8. WritersHold'
  BY <1>2, <1>3, <1>4 DEF AccountsIInv, WritersHold, WriterHolds, RowsAreInserted, RowFound
<1>9. AcceptersHold'
  BY <1>4, AccountsAssumption
     DEF InvitingFails, AccountsIInv, AcceptersHold, AccepterHolds, Under, OthersOfInviting
<1>10. JoiningInv'
  BY SameJoining DEF InvitingFails, OthersOfInviting
<1> QED BY <1>5, <1>6, <1>7, <1>8, <1>9, <1>10 DEF AccountsIInv, JoiningInv

-----------------------------------------------------------------------------
(* accept and decline.                                                     *)

LEMMA AccepterIs ==
  ASSUME AccountsIInv, NEW a \in Accepters, NEW new \in AccepterStates,
         accepter' = [accepter EXCEPT ![a] = new]
  PROVE  /\ accepter' \in [Accepters -> AccepterStates] /\ accepter'[a] = new
         /\ \A b \in Accepters \ {a} : accepter'[b] = accepter[b]
BY DEF AccountsIInv, CallsTyped

LEMMA AccepterAtIs ==
  ASSUME AccountsIInv, NEW a \in Accepters, NEW at \in {"copy", "done", "500"}, AccepterAt(a, at)
  PROVE  \E new \in AccepterStates :
           /\ accepter' = [accepter EXCEPT ![a] = new]
           /\ new.at = at /\ new.offer = accepter[a].offer /\ new.row = accepter[a].row
<1> DEFINE new == [accepter[a] EXCEPT !.at = at]
<1>1. accepter[a] \in AccepterStates
  BY DEF AccountsIInv, CallsTyped
<1>2. new \in AccepterStates /\ new.at = at /\ new.offer = accepter[a].offer /\ new.row = accepter[a].row
  BY <1>1 DEF AccepterStates
<1>3. accepter' = [accepter EXCEPT ![a] = new]
  BY DEF AccepterAt
<1> HIDE DEF new
<1> QED BY <1>2, <1>3

(* An accepter's row is there, and is his.                                 *)
LEMMA UnderHolds ==
  ASSUME AccountsIInv, NEW a \in Accepters, Under(a)
  PROVE  /\ accepter[a].row \in InvitationIds /\ rowLock[accepter[a].row] = a
         /\ invitation[accepter[a].row].status = "pending"
         /\ accepter[a].offer.role = invitation[accepter[a].row].offer.role
         /\ invitation[accepter[a].row].offer \in Offers
         /\ \A i \in Inviters : inviter[i].at \in {"permissions", "commit"} => inviter[i].row # accepter[a].row
         /\ \A b \in Accepters \ {a} : Under(b) => accepter[b].row # accepter[a].row
<1>1. AccepterHolds(a)
  BY DEF AccountsIInv, AcceptersHold
<1>2. invitation[accepter[a].row].offer \in Offers
  BY <1>1 DEF AccepterHolds, AccountsIInv, OffersStand
<1>3. \A i \in Inviters : inviter[i].at \in {"permissions", "commit"} => inviter[i].row # accepter[a].row
  BY <1>1, AccountsAssumption DEF AccepterHolds, AccountsIInv, WritersHold, WriterHolds
<1>4. \A b \in Accepters \ {a} : Under(b) => accepter[b].row # accepter[a].row
  BY <1>1 DEF AccepterHolds, AccountsIInv, AcceptersHold
<1> QED BY <1>1, <1>2, <1>3, <1>4 DEF AccepterHolds

LEMMA ClaimSafe ==
  ASSUME AccountsIInv, NEW a \in Accepters, NEW i \in InvitationIds, Claim(a, i)
  PROVE  AccountsIInv'
<1> DEFINE new == [at |-> "join", row |-> i, offer |-> [NoOffer EXCEPT !.role = invitation[i].offer.role]]
<1>1. invitation[i] \in InvitationStates
  BY DEF AccountsIInv, TablesTyped
<1>2. /\ new \in AccepterStates /\ new.at = "join" /\ new.row = i
      /\ new.offer.role = invitation[i].offer.role
  BY <1>1 DEF AccepterStates, InvitationStates, OfferParts, NoOffer
<1>3. accepter' = [accepter EXCEPT ![a] = new]
  BY DEF Claim
<1> HIDE DEF new
<1>4. /\ accepter' \in [Accepters -> AccepterStates] /\ accepter'[a] = new
      /\ \A b \in Accepters \ {a} : accepter'[b] = accepter[b]
  BY <1>2, <1>3, AccepterIs
<1>5. /\ rowLock' \in [InvitationIds -> {NoOne} \cup Inviters \cup Accepters] /\ rowLock'[i] = a
      /\ \A s \in InvitationIds \ {i} : rowLock'[s] = rowLock[s]
  BY DEF Claim, AccountsIInv, TablesTyped
<1>6. TablesTyped' /\ CallsTyped'
  BY <1>4, <1>5 DEF Claim, AccountsIInv, TablesTyped, CallsTyped, OthersOfAccepting
<1>7. OffersStand' /\ RowsAreInserted'
  BY DEF Claim, AccountsIInv, OffersStand, RowsAreInserted, RowFound, OthersOfAccepting
<1>8. WritersHold'
  BY <1>5, AccountsAssumption
     DEF Claim, AccountsIInv, WritersHold, WriterHolds, RowsAreInserted, RowFound, OthersOfAccepting
<1>9. AcceptersHold'
  <2>1. AccepterHolds(a)'
    BY <1>2, <1>4, <1>5 DEF Claim, Pending, AccepterHolds, Under
  <2>2. ASSUME NEW b \in Accepters \ {a} PROVE AccepterHolds(b)'
    BY <1>4, <1>5, <2>2, AccountsAssumption DEF Claim, AccountsIInv, AcceptersHold, AccepterHolds, Under
  <2> QED BY <2>1, <2>2 DEF AcceptersHold
<1>10. KeyLock' /\ Joining' /\ NoneHasNothing'
  BY <1>2, <1>4 DEF Claim, Accepting, AccountsIInv, KeyLock, Joining, NoneHasNothing, OthersOfAccepting
<1> QED BY <1>6, <1>7, <1>8, <1>9, <1>10 DEF AccountsIInv

(* A call that goes on with its row.                                       *)
LEMMA AccepterMoves ==
  ASSUME AccountsIInv, NEW a \in Accepters, Under(a), NEW new \in AccepterStates,
         accepter' = [accepter EXCEPT ![a] = new], new.row = accepter[a].row,
         UNCHANGED <<invitation, rowLock, OthersOfAccepting>>, AccepterHolds(a)'
  PROVE  CallsTyped' /\ OffersStand' /\ RowsAreInserted' /\ WritersHold' /\ AcceptersHold'
<1>1. /\ accepter' \in [Accepters -> AccepterStates] /\ accepter'[a] = new
      /\ \A b \in Accepters \ {a} : accepter'[b] = accepter[b]
  BY AccepterIs
<1>2. CallsTyped'
  BY <1>1 DEF AccountsIInv, CallsTyped, OthersOfAccepting
<1>3. OffersStand' /\ RowsAreInserted' /\ WritersHold'
  BY DEF AccountsIInv, OffersStand, RowsAreInserted, RowFound, WritersHold, WriterHolds, OthersOfAccepting
<1>4. \A b \in Accepters \ {a} : AccepterHolds(b)'
  BY <1>1 DEF AccountsIInv, AcceptersHold, AccepterHolds, Under
<1> QED BY <1>2, <1>3, <1>4 DEF AcceptersHold

LEMMA JoinTeamSafe ==
  ASSUME AccountsIInv, NEW a \in Accepters, JoinTeam(a)
  PROVE  AccountsIInv'
<1>1. PICK new \in AccepterStates :
        /\ accepter' = [accepter EXCEPT ![a] = new]
        /\ new.at = "copy" /\ new.offer = accepter[a].offer /\ new.row = accepter[a].row
  BY AccepterAtIs DEF JoinTeam
<1>2. /\ accepter' \in [Accepters -> AccepterStates] /\ accepter'[a] = new
      /\ \A b \in Accepters \ {a} : accepter'[b] = accepter[b]
  BY <1>1, AccepterIs
<1>3. Under(a) /\ memberLock = NoOne
  BY DEF JoinTeam, Accepting, Under
<1>4. AccepterHolds(a)'
  BY <1>1, <1>2, <1>3, UnderHolds DEF JoinTeam, AccepterHolds, Under
<1>5. TablesTyped'
  BY DEF JoinTeam, AccountsIInv, TablesTyped
<1>6. CallsTyped' /\ OffersStand' /\ RowsAreInserted' /\ WritersHold' /\ AcceptersHold'
  BY <1>1, <1>3, <1>4, AccepterMoves DEF JoinTeam
<1>7. KeyLock'
  BY <1>1, <1>2, <1>3, AccountsAssumption DEF JoinTeam, AccountsIInv, KeyLock, OthersOfAccepting
<1>8. Joining' /\ NoneHasNothing'
  BY <1>2, <1>3, AccountsAssumption DEF JoinTeam, AccountsIInv, Joining, NoneHasNothing
<1> QED BY <1>5, <1>6, <1>7, <1>8 DEF AccountsIInv

LEMMA CopyPermissionsSafe ==
  ASSUME AccountsIInv, NEW a \in Accepters, CopyPermissions(a)
  PROVE  AccountsIInv'
<1>1. Under(a) /\ accepter[a].at = "copy"
  BY DEF CopyPermissions, Accepting, Under
<1> DEFINE grants == invitation[accepter[a].row].offer.grants
           offer == [accepter[a].offer EXCEPT !.grants = grants]
           new == [accepter[a] EXCEPT !.at = "commit", !.offer = offer]
<1>2. accepter[a] \in AccepterStates /\ grants \in SUBSET AllGrants
  <2>1. invitation[accepter[a].row] \in InvitationStates
    BY <1>1, UnderHolds DEF AccountsIInv, TablesTyped
  <2> QED BY <2>1 DEF AccountsIInv, CallsTyped, InvitationStates, OfferParts
<1> HIDE DEF grants
<1>3. offer \in OfferParts /\ offer.role = accepter[a].offer.role /\ offer.grants = grants
  BY <1>2 DEF AccepterStates, OfferParts
<1>4. accepter' = [accepter EXCEPT ![a] = new]
  BY DEF CopyPermissions, grants
<1> HIDE DEF offer
<1>5. new \in AccepterStates /\ new.at = "commit" /\ new.row = accepter[a].row /\ new.offer = offer
  BY <1>2, <1>3 DEF AccepterStates
<1> HIDE DEF new
<1>6. /\ accepter' \in [Accepters -> AccepterStates] /\ accepter'[a] = new
      /\ \A b \in Accepters \ {a} : accepter'[b] = accepter[b]
  BY <1>4, <1>5, AccepterIs
<1>7. AccepterHolds(a)'
  BY <1>1, <1>3, <1>5, <1>6, UnderHolds DEF CopyPermissions, AccepterHolds, Under, grants
<1>8. TablesTyped'
  BY DEF CopyPermissions, AccountsIInv, TablesTyped
<1>9. CallsTyped' /\ OffersStand' /\ RowsAreInserted' /\ WritersHold' /\ AcceptersHold'
  BY <1>1, <1>4, <1>5, <1>7, AccepterMoves DEF CopyPermissions
<1>10. KeyLock' /\ Joining' /\ NoneHasNothing'
  BY <1>1, <1>5, <1>6
     DEF CopyPermissions, AccountsIInv, KeyLock, Joining, NoneHasNothing, OthersOfAccepting
<1> QED BY <1>8, <1>9, <1>10 DEF AccountsIInv

(* A call that is over gives its row up; the offer stays what it was.      *)
LEMMA AccepterEnds ==
  ASSUME AccountsIInv, NEW a \in Accepters, Under(a), NEW new \in AccepterStates,
         accepter' = [accepter EXCEPT ![a] = new], new.at \in {"done", "500"},
         rowLock' = [rowLock EXCEPT ![accepter[a].row] = NoOne],
         \/ UNCHANGED invitation
         \/ invitation' = [invitation EXCEPT ![accepter[a].row].status = "accepted"],
         UNCHANGED OthersOfAccepting
  PROVE  /\ CallsTyped' /\ OffersStand' /\ RowsAreInserted' /\ WritersHold' /\ AcceptersHold'
         /\ invitation' \in [InvitationIds -> InvitationStates]
         /\ rowLock' \in [InvitationIds -> {NoOne} \cup Inviters \cup Accepters]
<1> DEFINE r == accepter[a].row
<1>1. /\ r \in InvitationIds /\ rowLock[r] = a /\ invitation[r].status = "pending"
      /\ \A i \in Inviters : inviter[i].at \in {"permissions", "commit"} => inviter[i].row # r
      /\ \A b \in Accepters \ {a} : Under(b) => accepter[b].row # r
  BY UnderHolds
<1>2. /\ accepter' \in [Accepters -> AccepterStates] /\ accepter'[a] = new
      /\ \A b \in Accepters \ {a} : accepter'[b] = accepter[b]
  BY AccepterIs
<1>3. PICK entry \in InvitationStates :
        /\ invitation' = [invitation EXCEPT ![r] = entry]
        /\ entry.status # "none" /\ entry.offer = invitation[r].offer
  <2>1. invitation[r] \in InvitationStates
    BY <1>1 DEF AccountsIInv, TablesTyped
  <2>2. CASE UNCHANGED invitation
    <3>1. invitation' = [invitation EXCEPT ![r] = invitation[r]]
      BY <1>1, <2>2 DEF AccountsIInv, TablesTyped
    <3> HIDE DEF r
    <3> QED BY <1>1, <2>1, <3>1
  <2>3. CASE invitation' = [invitation EXCEPT ![r].status = "accepted"]
    <3> DEFINE entry == [invitation[r] EXCEPT !.status = "accepted"]
    <3>1. entry \in InvitationStates /\ entry.status # "none" /\ entry.offer = invitation[r].offer
      BY <2>1 DEF InvitationStates
    <3>2. invitation' = [invitation EXCEPT ![r] = entry]
      BY <2>3
    <3> HIDE DEF entry, r
    <3> QED BY <3>1, <3>2
  <2> QED BY <2>2, <2>3
<1>4. rowLock' = [rowLock EXCEPT ![r] = NoOne]
  OBVIOUS
<1> HIDE DEF r
<1>5. /\ invitation' \in [InvitationIds -> InvitationStates] /\ invitation'[r] = entry
      /\ \A s \in InvitationIds \ {r} : invitation'[s] = invitation[s]
      /\ rowLock' \in [InvitationIds -> {NoOne} \cup Inviters \cup Accepters]
      /\ \A s \in InvitationIds \ {r} : rowLock'[s] = rowLock[s]
  BY <1>1, <1>3, <1>4 DEF AccountsIInv, TablesTyped
<1>6. CallsTyped'
  BY <1>2 DEF AccountsIInv, CallsTyped, OthersOfAccepting
<1>7. OffersStand' /\ RowsAreInserted'
  BY <1>1, <1>3, <1>5 DEF AccountsIInv, OffersStand, RowsAreInserted, RowFound, OthersOfAccepting
<1>8. WritersHold'
  BY <1>1, <1>5 DEF AccountsIInv, WritersHold, WriterHolds, RowsAreInserted, RowFound, OthersOfAccepting
<1>9. AcceptersHold'
  <2>1. AccepterHolds(a)'
    BY <1>2 DEF AccepterHolds, Under
  <2>2. ASSUME NEW b \in Accepters \ {a} PROVE AccepterHolds(b)'
    BY <1>1, <1>2, <1>5 DEF AccountsIInv, AcceptersHold, AccepterHolds, Under
  <2> QED BY <2>1, <2>2 DEF AcceptersHold
<1> QED BY <1>5, <1>6, <1>7, <1>8, <1>9

(* Who commits has either inserted the membership himself or found one.    *)
LEMMA CommitAcceptSafe ==
  ASSUME AccountsIInv, NEW a \in Accepters, CommitAccept(a)
  PROVE  AccountsIInv'
<1>1. Under(a) /\ accepter[a].at = "commit"
  BY DEF CommitAccept, Accepting, Under
<1>2. PICK new \in AccepterStates : accepter' = [accepter EXCEPT ![a] = new] /\ new.at = "done"
  BY AccepterAtIs DEF CommitAccept
<1>3. /\ accepter'[a] = new
      /\ \A b \in Accepters \ {a} : accepter'[b] = accepter[b]
  BY <1>2, AccepterIs
<1>4. /\ CallsTyped' /\ OffersStand' /\ RowsAreInserted' /\ WritersHold' /\ AcceptersHold'
      /\ invitation' \in [InvitationIds -> InvitationStates]
      /\ rowLock' \in [InvitationIds -> {NoOne} \cup Inviters \cup Accepters]
  BY <1>1, <1>2, AccepterEnds DEF CommitAccept
<1>5. accepter[a].offer.role # NoRole
  BY <1>1, UnderHolds, OffersTyped
<1>6. member'.role # NoRole /\ {"role", "grants"} \subseteq DOMAIN member'
  BY <1>1, <1>5 DEF CommitAccept, AccountsIInv, TablesTyped, Joining
<1>7. memberLock' = NoOne /\ \A n \in Creators : creator[n].at # "commit"
  BY <1>1, AccountsAssumption DEF CommitAccept, AccountsIInv, TablesTyped, KeyLock, Joining
<1>8. KeyLock' /\ Joining' /\ NoneHasNothing'
  BY <1>6, <1>7, AccountsAssumption DEF CommitAccept, KeyLock, Joining, NoneHasNothing, OthersOfAccepting
<1>9. TablesTyped'
  BY <1>4, <1>6, <1>7 DEF TablesTyped
<1> QED BY <1>4, <1>8, <1>9 DEF AccountsIInv

LEMMA AcceptFailsSafe ==
  ASSUME AccountsIInv, NEW a \in Accepters, AcceptFails(a)
  PROVE  AccountsIInv'
<1>1. Under(a)
  BY DEF AcceptFails, Under
<1>2. PICK new \in AccepterStates : accepter' = [accepter EXCEPT ![a] = new] /\ new.at = "500"
  BY AccepterAtIs DEF AcceptFails
<1>3. /\ accepter'[a] = new
      /\ \A b \in Accepters \ {a} : accepter'[b] = accepter[b]
  BY <1>2, AccepterIs
<1>4. /\ CallsTyped' /\ OffersStand' /\ RowsAreInserted' /\ WritersHold' /\ AcceptersHold'
      /\ invitation' \in [InvitationIds -> InvitationStates]
      /\ rowLock' \in [InvitationIds -> {NoOne} \cup Inviters \cup Accepters]
  BY <1>1, <1>2, AccepterEnds DEF AcceptFails
<1>5. TablesTyped'
  BY <1>4 DEF AcceptFails, AccountsIInv, TablesTyped
<1>6. KeyLock'
  BY <1>2, <1>3, AccountsAssumption DEF AcceptFails, AccountsIInv, KeyLock, OthersOfAccepting
<1>7. Joining' /\ NoneHasNothing'
  BY <1>2, <1>3 DEF AcceptFails, AccountsIInv, Joining, NoneHasNothing
<1> QED BY <1>4, <1>5, <1>6, <1>7 DEF AccountsIInv

LEMMA DeclineSafe ==
  ASSUME AccountsIInv, NEW i \in InvitationIds, Decline(i)
  PROVE  AccountsIInv'
<1> DEFINE entry == [invitation[i] EXCEPT !.status = "declined"]
<1>1. invitation[i] \in InvitationStates
  BY DEF AccountsIInv, TablesTyped
<1>2. entry \in InvitationStates /\ entry.status # "none" /\ entry.offer = invitation[i].offer
  BY <1>1 DEF InvitationStates
<1>3. invitation' = [invitation EXCEPT ![i] = entry]
  BY DEF Decline
<1> HIDE DEF entry
<1>4. /\ invitation' \in [InvitationIds -> InvitationStates] /\ invitation'[i] = entry
      /\ \A s \in InvitationIds \ {i} : invitation'[s] = invitation[s]
  BY <1>2, <1>3 DEF AccountsIInv, TablesTyped
<1>5. TablesTyped' /\ CallsTyped'
  BY <1>4 DEF Decline, AccountsIInv, TablesTyped, CallsTyped, OthersOfAccepting
<1>6. OffersStand' /\ RowsAreInserted'
  BY <1>2, <1>4 DEF Decline, Pending, AccountsIInv, OffersStand, RowsAreInserted, RowFound, OthersOfAccepting
<1>7. WritersHold'
  BY DEF Decline, AccountsIInv, WritersHold, WriterHolds, OthersOfAccepting
<1>8. AcceptersHold'
  BY <1>4, AccountsAssumption DEF Decline, AccountsIInv, AcceptersHold, AccepterHolds, Under
<1>9. JoiningInv'
  BY SameJoining DEF Decline, OthersOfAccepting
<1> QED BY <1>5, <1>6, <1>7, <1>8, <1>9 DEF AccountsIInv, JoiningInv

-----------------------------------------------------------------------------
(* createUser.                                                             *)

LEMMA CreatorIs ==
  ASSUME AccountsIInv, NEW n \in Creators, NEW new \in CreatorStates,
         creator' = [creator EXCEPT ![n] = new]
  PROVE  /\ creator' \in [Creators -> CreatorStates] /\ creator'[n] = new
         /\ \A m \in Creators \ {n} : creator'[m] = creator[m]
BY DEF AccountsIInv, CallsTyped

LEMMA CreatorAtIs ==
  ASSUME AccountsIInv, NEW n \in Creators, creator[n].at # "idle",
         NEW at \in {"400", "phone", "insert", "commit", "orphan", "done", "500", "dead"}, CreatorAt(n, at)
  PROVE  \E new \in CreatorStates :
           /\ creator' = [creator EXCEPT ![n] = new]
           /\ new.at = at /\ new.offer \in Offers
<1> DEFINE new == [creator[n] EXCEPT !.at = at]
<1>1. creator[n] \in CreatorStates /\ creator[n].offer \in Offers
  BY DEF AccountsIInv, CallsTyped, OffersStand
<1>2. new \in CreatorStates /\ new.at = at /\ new.offer \in Offers
  BY <1>1 DEF CreatorStates
<1>3. creator' = [creator EXCEPT ![n] = new]
  BY DEF CreatorAt
<1> HIDE DEF new
<1> QED BY <1>2, <1>3

(* A call that is and stays away from its commit.                          *)
LEMMA CreatorMoves ==
  ASSUME AccountsIInv, NEW n \in Creators, NEW new \in CreatorStates,
         creator' = [creator EXCEPT ![n] = new], creator[n].at # "commit",
         new.at # "commit", new.offer \in Offers,
         UNCHANGED <<member, memberLock, OthersOfCreating>>
  PROVE  AccountsIInv'
<1>1. /\ creator' \in [Creators -> CreatorStates] /\ creator'[n] = new
      /\ \A m \in Creators \ {n} : creator'[m] = creator[m]
  BY CreatorIs
<1>2. TablesTyped' /\ CallsTyped'
  BY <1>1 DEF AccountsIInv, TablesTyped, CallsTyped, OthersOfCreating, TablesOfInviting
<1>3. \A m \in Creators : creator'[m].at # "idle" => creator'[m].offer \in Offers
  BY <1>1 DEF AccountsIInv, OffersStand
<1>4. InvitingInv'
  BY <1>3, SameInviting DEF OthersOfCreating, TablesOfInviting
<1>5. KeyLock' /\ Joining' /\ NoneHasNothing'
  BY <1>1 DEF AccountsIInv, KeyLock, Joining, NoneHasNothing, OthersOfCreating
<1> QED BY <1>2, <1>4, <1>5 DEF AccountsIInv, InvitingInv

LEMMA AskToCreateSafe ==
  ASSUME AccountsIInv, NEW n \in Creators, AskToCreate(n)
  PROVE  AccountsIInv'
<1>1. PICK o \in Offers, at \in {"400", "invite"} :
        creator' = [creator EXCEPT ![n] = [at |-> at, offer |-> o, row |-> NoOne]]
  BY DEF AskToCreate, MayOffer
<1> DEFINE new == [at |-> at, offer |-> o, row |-> NoOne]
<1>2. new \in CreatorStates /\ new.at = at /\ new.offer \in Offers
  BY OffersTyped DEF CreatorStates
<1>3. creator' = [creator EXCEPT ![n] = new]
  BY <1>1
<1> HIDE DEF new
<1> QED BY <1>2, <1>3, CreatorMoves DEF AskToCreate, Creating

LEMMA CreatorGoesOn ==
  ASSUME AccountsIInv, NEW n \in Creators, creator[n].at \notin {"idle", "commit"},
         NEW at \in {"400", "phone", "insert", "orphan", "500", "dead"}, CreatorAt(n, at),
         UNCHANGED <<member, memberLock, OthersOfCreating>>
  PROVE  AccountsIInv'
<1>1. PICK new \in CreatorStates :
        /\ creator' = [creator EXCEPT ![n] = new]
        /\ new.at = at /\ new.offer \in Offers
  BY CreatorAtIs
<1> QED BY <1>1, CreatorMoves

LEMMA InsertMemberSafe ==
  ASSUME AccountsIInv, NEW n \in Creators, InsertMember(n)
  PROVE  AccountsIInv'
<1>1. CASE CreatorAt(n, "orphan") /\ UNCHANGED memberLock
  BY <1>1, CreatorGoesOn DEF InsertMember, Creating
<1>2. CASE member.role = NoRole /\ memberLock' = n /\ CreatorAt(n, "commit")
  <2>1. PICK new \in CreatorStates :
          /\ creator' = [creator EXCEPT ![n] = new]
          /\ new.at = "commit" /\ new.offer \in Offers
    BY <1>2, CreatorAtIs DEF InsertMember, Creating
  <2>2. /\ creator' \in [Creators -> CreatorStates] /\ creator'[n] = new
        /\ \A m \in Creators \ {n} : creator'[m] = creator[m]
    BY <2>1, CreatorIs
  <2>3. TablesTyped' /\ CallsTyped'
    BY <1>2, <2>2 DEF InsertMember, AccountsIInv, TablesTyped, CallsTyped, OthersOfCreating, TablesOfInviting
  <2>4. \A m \in Creators : creator'[m].at # "idle" => creator'[m].offer \in Offers
    BY <2>1, <2>2 DEF AccountsIInv, OffersStand
  <2>5. InvitingInv'
    BY <2>4, SameInviting DEF InsertMember, OthersOfCreating, TablesOfInviting
  <2>6. \A a \in Accepters : accepter[a].at \notin {"copy", "commit"}
    BY <1>2, AccountsAssumption DEF InsertMember, AccountsIInv, Joining
  <2>7. KeyLock' /\ Joining' /\ NoneHasNothing'
    BY <1>2, <2>1, <2>2, <2>6, AccountsAssumption
       DEF InsertMember, AccountsIInv, KeyLock, Joining, NoneHasNothing, OthersOfCreating
  <2> QED BY <2>3, <2>5, <2>7 DEF AccountsIInv, InvitingInv
<1> QED BY <1>1, <1>2 DEF InsertMember

(* A call that lets the key go, having written the member or not.          *)
LEMMA CreatorLetsGo ==
  ASSUME AccountsIInv, NEW n \in Creators, creator[n].at = "commit",
         NEW new \in CreatorStates, creator' = [creator EXCEPT ![n] = new],
         new.at # "commit", new.offer \in Offers, memberLock' = NoOne,
         UNCHANGED member \/ (member'.role # NoRole /\ {"role", "grants"} \subseteq DOMAIN member'),
         UNCHANGED OthersOfCreating
  PROVE  AccountsIInv'
<1>1. /\ creator' \in [Creators -> CreatorStates] /\ creator'[n] = new
      /\ \A m \in Creators \ {n} : creator'[m] = creator[m]
  BY CreatorIs
<1>2. TablesTyped' /\ CallsTyped'
  BY <1>1 DEF AccountsIInv, TablesTyped, CallsTyped, OthersOfCreating, TablesOfInviting
<1>3. \A m \in Creators : creator'[m].at # "idle" => creator'[m].offer \in Offers
  BY <1>1 DEF AccountsIInv, OffersStand
<1>4. InvitingInv'
  BY <1>3, SameInviting DEF OthersOfCreating, TablesOfInviting
<1>5. memberLock = n /\ member.role = NoRole
  BY AccountsAssumption DEF AccountsIInv, KeyLock
<1>6. \A a \in Accepters : accepter[a].at \notin {"copy", "commit"}
  BY <1>5, AccountsAssumption DEF AccountsIInv, Joining
<1>7. KeyLock' /\ Joining' /\ NoneHasNothing'
  BY <1>1, <1>5, <1>6, AccountsAssumption
     DEF AccountsIInv, KeyLock, Joining, NoneHasNothing, OthersOfCreating
<1> QED BY <1>2, <1>4, <1>7 DEF AccountsIInv, InvitingInv

LEMMA CommitMemberSafe ==
  ASSUME AccountsIInv, NEW n \in Creators, CommitMember(n)
  PROVE  AccountsIInv'
<1>1. creator[n].at = "commit" /\ creator[n].offer.role # NoRole
  BY OffersTyped DEF CommitMember, Creating, AccountsIInv, OffersStand
<1>2. PICK new \in CreatorStates :
        creator' = [creator EXCEPT ![n] = new] /\ new.at # "commit" /\ new.offer \in Offers
  BY <1>1, CreatorAtIs DEF CommitMember
<1>3. UNCHANGED member \/ (member'.role # NoRole /\ {"role", "grants"} \subseteq DOMAIN member')
  BY <1>1 DEF CommitMember
<1> QED BY <1>1, <1>2, <1>3, CreatorLetsGo DEF CommitMember

(* The account goes, and what was under way for it can only fail.          *)
LEMMA DeleteOrphanSafe ==
  ASSUME AccountsIInv, NEW n \in Creators, DeleteOrphan(n)
  PROVE  AccountsIInv'
<1>1. CASE UNCHANGED <<user, member, accepter>>
  BY <1>1, CreatorGoesOn DEF DeleteOrphan, Creating, OthersOfCreating
<1>2. CASE /\ memberLock = NoOne /\ \A a \in Accepters : ~Accepting(a, "commit")
           /\ member' = NoMember
           /\ accepter' = [a \in Accepters |-> IF accepter[a].at \in {"join", "copy"}
                                               THEN [accepter[a] EXCEPT !.at = "gone"] ELSE accepter[a]]
  <2>1. PICK new \in CreatorStates :
          /\ creator' = [creator EXCEPT ![n] = new]
          /\ new.at = "500" /\ new.offer \in Offers
    BY CreatorAtIs DEF DeleteOrphan, Creating
  <2>2. /\ creator' \in [Creators -> CreatorStates] /\ creator'[n] = new
        /\ \A m \in Creators \ {n} : creator'[m] = creator[m]
    BY <2>1, CreatorIs
  <2>3. ASSUME NEW a \in Accepters
        PROVE  /\ accepter'[a] \in AccepterStates /\ accepter'[a].at \notin {"join", "copy", "commit"}
               /\ accepter'[a].row = accepter[a].row /\ accepter'[a].offer = accepter[a].offer
               /\ accepter'[a].at = "gone" => Under(a)
    <3>1. accepter[a] \in AccepterStates
      BY DEF AccountsIInv, CallsTyped
    <3>2. CASE accepter[a].at \in {"join", "copy"}
      <4>1. accepter'[a] = [accepter[a] EXCEPT !.at = "gone"]
        BY <1>2, <3>2
      <4> QED BY <3>1, <3>2, <4>1 DEF AccepterStates, Under
    <3>3. CASE accepter[a].at \notin {"join", "copy"}
      BY <1>2, <3>1, <3>3 DEF Accepting, Under
    <3> QED BY <3>2, <3>3
  <2>4. accepter' \in [Accepters -> AccepterStates]
    <3>1. accepter' = [a \in Accepters |-> accepter'[a]]
      BY <1>2
    <3> QED BY <2>3, <3>1
  <2>5. TablesTyped' /\ CallsTyped'
    BY <1>2, <2>2, <2>4 DEF DeleteOrphan, AccountsIInv, TablesTyped, CallsTyped, TablesOfInviting, NoMember
  <2>6. OffersStand' /\ RowsAreInserted' /\ WritersHold'
    BY <2>1, <2>2 DEF DeleteOrphan, AccountsIInv, OffersStand, RowsAreInserted, RowFound, WritersHold,
       WriterHolds, TablesOfInviting
  <2>7. AcceptersHold'
    BY <2>3 DEF DeleteOrphan, AccountsIInv, AcceptersHold, AccepterHolds, Under, TablesOfInviting
  <2>8. KeyLock' /\ Joining' /\ NoneHasNothing'
    BY <1>2, <2>1, <2>2, <2>3, AccountsAssumption
       DEF DeleteOrphan, Creating, AccountsIInv, KeyLock, Joining, NoneHasNothing, NoMember
  <2> QED BY <2>5, <2>6, <2>7, <2>8 DEF AccountsIInv
<1> QED BY <1>1, <1>2 DEF DeleteOrphan

LEMMA CreatingDiesSafe ==
  ASSUME AccountsIInv, NEW n \in Creators, CreatingDies(n)
  PROVE  AccountsIInv'
<1>1. CASE creator[n].at = "commit"
  <2>1. PICK new \in CreatorStates :
          creator' = [creator EXCEPT ![n] = new] /\ new.at = "dead" /\ new.offer \in Offers
    BY <1>1, CreatorAtIs DEF CreatingDies
  <2>2. memberLock = n
    BY <1>1 DEF AccountsIInv, KeyLock
  <2> QED BY <1>1, <2>1, <2>2, CreatorLetsGo DEF CreatingDies
<1>2. CASE creator[n].at # "commit"
  <2>1. memberLock # n
    BY <1>2 DEF AccountsIInv, KeyLock
  <2> QED BY <1>2, <2>1, CreatorGoesOn DEF CreatingDies
<1> QED BY <1>1, <1>2

-----------------------------------------------------------------------------
(* The managers, the whole step, and the theorem.                          *)

LEMMA OnlyTheAccount ==
  ASSUME AccountsIInv,
         UNCHANGED <<member, memberLock, inviter, accepter, creator, invitation, rowLock>>
  PROVE  AccountsIInv'
<1>1. TablesTyped' /\ CallsTyped'
  BY DEF AccountsIInv, TablesTyped, CallsTyped
<1>2. InvitingInv'
  BY SameInviting DEF AccountsIInv, OffersStand
<1>3. JoiningInv'
  BY SameJoining
<1> QED BY <1>1, <1>2, <1>3 DEF AccountsIInv, InvitingInv, JoiningInv

LEMMA UpdateUserRoleSafe == AccountsIInv /\ UpdateUserRole => AccountsIInv'
<1> SUFFICES ASSUME AccountsIInv, UpdateUserRole PROVE AccountsIInv'
  OBVIOUS
<1>1. PICK o \in Offers : member' = [member EXCEPT !.role = o.role]
  BY DEF UpdateUserRole
<1>2. member'.role # NoRole /\ {"role", "grants"} \subseteq DOMAIN member'
  BY <1>1, OffersTyped DEF AccountsIInv, TablesTyped
<1>3. memberLock = NoOne
  BY DEF UpdateUserRole, AccountsIInv, KeyLock
<1>4. TablesTyped' /\ CallsTyped'
  BY <1>2 DEF UpdateUserRole, OthersOfManaging, AccountsIInv, TablesTyped, CallsTyped
<1>5. InvitingInv'
  BY SameInviting DEF UpdateUserRole, OthersOfManaging, AccountsIInv, OffersStand
<1>6. KeyLock' /\ Joining' /\ NoneHasNothing'
  BY <1>2, <1>3 DEF UpdateUserRole, OthersOfManaging, AccountsIInv, KeyLock, Joining, NoneHasNothing
<1> QED BY <1>4, <1>5, <1>6 DEF AccountsIInv, InvitingInv

LEMMA AccountsStep == AccountsIInv /\ [AccountsNext]_accountVars => AccountsIInv'
<1> SUFFICES ASSUME AccountsIInv, [AccountsNext]_accountVars PROVE AccountsIInv'
  OBVIOUS
<1>1. ASSUME NEW i \in Inviters,
             \/ AskToInvite(i) \/ FindPending(i) \/ UpdateInvitation(i) \/ InsertInvitation(i)
             \/ RewritePermissions(i) \/ CommitInvitation(i) \/ InvitingFails(i) \/ Decline(i)
      PROVE  AccountsIInv'
  BY <1>1, AskToInviteSafe, FindPendingSafe, UpdateInvitationSafe, InsertInvitationSafe,
     RewritePermissionsSafe, CommitInvitationSafe, InvitingFailsSafe, DeclineSafe DEF InvitationIds
<1>2. ASSUME NEW a \in Accepters,
             \/ JoinTeam(a) \/ CopyPermissions(a) \/ CommitAccept(a) \/ AcceptFails(a)
             \/ \E i \in InvitationIds : Claim(a, i)
      PROVE  AccountsIInv'
  BY <1>2, JoinTeamSafe, CopyPermissionsSafe, CommitAcceptSafe, AcceptFailsSafe, ClaimSafe
<1>3. ASSUME NEW n \in Creators,
             \/ AskToCreate(n) \/ InsertMember(n) \/ CommitMember(n) \/ DeleteOrphan(n) \/ CreatingDies(n)
      PROVE  AccountsIInv'
  BY <1>3, AskToCreateSafe, InsertMemberSafe, CommitMemberSafe, DeleteOrphanSafe, CreatingDiesSafe
<1>4. ASSUME NEW n \in Creators, InviteUser(n) \/ SetPhone(n) PROVE AccountsIInv'
  BY <1>4, CreatorGoesOn DEF InviteUser, SetPhone, Creating
<1>5. CASE ConfirmEmail \/ Deactivate \/ Reactivate \/ UNCHANGED accountVars
  BY <1>5, OnlyTheAccount
     DEF ConfirmEmail, Deactivate, Reactivate, OthersOfManaging, OthersOfCreating, TablesOfInviting, accountVars
<1> QED BY <1>1, <1>2, <1>3, <1>4, <1>5, UpdateUserRoleSafe DEF AccountsNext

LEMMA AccountsStart == AccountsInit => AccountsIInv
<1> SUFFICES ASSUME AccountsInit PROVE AccountsIInv
  OBVIOUS
<1>1. NoOffer \in OfferParts
  BY DEF NoOffer, OfferParts, Roles
<1>2. NoInvitation \in InvitationStates /\ NoInvitation.status = "none"
  BY <1>1 DEF NoInvitation, InvitationStates
<1>3. /\ NoCallYet \in InviterStates /\ NoCallYet \in AccepterStates /\ NoCallYet \in CreatorStates
      /\ NoCallYet.at = "idle"
  BY <1>1 DEF NoCallYet, InviterStates, AccepterStates, CreatorStates
<1>4. TablesTyped /\ CallsTyped
  BY <1>2, <1>3 DEF AccountsInit, TablesTyped, CallsTyped, NoMember
<1>5. OffersStand /\ RowsAreInserted /\ WritersHold
  BY <1>2, <1>3 DEF AccountsInit, OffersStand, RowsAreInserted, RowFound, WritersHold, WriterHolds, InvitationIds
<1>6. AcceptersHold
  BY <1>3 DEF AccountsInit, AcceptersHold, AccepterHolds, Under
<1>7. KeyLock /\ Joining /\ NoneHasNothing
  BY <1>3, AccountsAssumption DEF AccountsInit, KeyLock, Joining, NoneHasNothing, NoMember
<1> QED BY <1>4, <1>5, <1>6, <1>7 DEF AccountsIInv

(* Becoming a member is one of two commits.                                *)
LEMMA JoinsWithAnOffer ==
  ASSUME AccountsIInv, [AccountsNext]_accountVars, member.role = NoRole, member'.role # NoRole
  PROVE  \E o \in Offers : member'.role = o.role /\ member'.grants = o.grants
<1>1. ASSUME NEW a \in Accepters, CommitAccept(a)
      PROVE  \E o \in Offers : member'.role = o.role /\ member'.grants = o.grants
  <2> DEFINE o == invitation[accepter[a].row].offer
  <2>1. Under(a) /\ accepter[a].at = "commit"
    BY <1>1 DEF CommitAccept, Accepting, Under
  <2>2. o \in Offers /\ accepter[a].offer.role = o.role /\ accepter[a].offer.grants = o.grants
    BY <2>1, UnderHolds DEF AccountsIInv, AcceptersHold, AccepterHolds
  <2>3. memberLock = a /\ member.grants = {}
    BY <2>1 DEF AccountsIInv, Joining, NoneHasNothing
  <2>4. member'.role = o.role /\ member'.grants = o.grants
    BY <1>1, <2>2, <2>3 DEF CommitAccept, AccountsIInv, TablesTyped
  <2> QED BY <2>2, <2>4
<1>2. ASSUME NEW n \in Creators, CommitMember(n)
      PROVE  \E o \in Offers : member'.role = o.role /\ member'.grants = o.grants
  <2>1. creator[n].offer \in Offers
    BY <1>2 DEF CommitMember, Creating, AccountsIInv, OffersStand
  <2>2. member'.role = creator[n].offer.role /\ member'.grants = creator[n].offer.grants
    BY <1>2 DEF CommitMember
  <2> QED BY <2>1, <2>2
<1>3. CASE UNCHANGED member
  BY <1>3
<1>4. CASE \E n \in Creators : DeleteOrphan(n)
  BY <1>4 DEF DeleteOrphan, NoMember
<1> QED
  BY <1>1, <1>2, <1>3, <1>4
     DEF AccountsNext, AskToInvite, FindPending, UpdateInvitation, InsertInvitation, RewritePermissions,
         CommitInvitation, InvitingFails, Decline, JoinTeam, CopyPermissions, AcceptFails, Claim,
         AskToCreate, InviteUser, SetPhone, InsertMember, CreatingDies, ConfirmEmail, Deactivate, Reactivate,
         UpdateUserRole, OthersOfInviting, OthersOfAccepting, OthersOfCreating, OthersOfManaging, accountVars

(* However many managers invite a person or make him an account at once,   *)
(* with whatever offers, however often he accepts or signs up again, and   *)
(* wherever a call fails, he becomes a member with the role and the        *)
(* permissions of one offer.                                               *)
THEOREM JoinsWithOneOffer == AccountsSpec => GrantsAreOneOffer
<1>1. AccountsIInv /\ [AccountsNext]_accountVars =>
        [member.role = NoRole /\ member'.role # NoRole =>
           \E o \in Offers : member'.role = o.role /\ member'.grants = o.grants]_accountVars
  BY JoinsWithAnOffer
<1> QED BY <1>1, AccountsStart, AccountsStep, PTL DEF AccountsSpec, GrantsAreOneOffer

-----------------------------------------------------------------------------
(* The storefront and the packages API.                                    *)
Working == {"read", "sender", "receivers", "fulfil", "assign"}

-----------------------------------------------------------------------------
(* Customers: rows are rows and stay, and a request knows its own.         *)
RowsTyped == row \in [RowIds -> CustomerRow \cup {NoRow}]

JobKnows(j) ==
  /\ job[j].at \in {"stripe", "write", "origin"} => job[j].id \in Rows /\ job[j].link \in Links
  /\ job[j].at \in {"stripe", "write"} =>
       /\ job[j].kind \in {"create", "update"}
       /\ job[j].person \in Clients /\ job[j].person.phone # Absent

JobsKnow ==
  /\ DOMAIN job = Jobs
  /\ \A j \in Jobs : {"at", "kind", "person", "id", "link"} \subseteq DOMAIN job[j]
  /\ \A j \in Jobs : JobKnows(j)

(* The rows a delivery has written for the parties of its booking; it asks *)
(* Stripe for them before it goes on.                                      *)
PartiesKnown ==
  \A d \in Deliveries :
    /\ DOMAIN handler[d].rows \subseteq Clients
    /\ handler[d].linking \subseteq DOMAIN handler[d].rows
    /\ \A p \in DOMAIN handler[d].rows : handler[d].rows[p] \in Rows
    /\ handler[d].linking # {} => handler[d].at \in {"sender", "receivers"}

CustomersIInv == RowsTyped /\ JobsKnow /\ PartiesKnown

-----------------------------------------------------------------------------
(* Deliveries: an event is handled when its session is paid, and goes on   *)
(* only when the payment is stored.                                        *)
HandlersTyped ==
  /\ DOMAIN handler = Deliveries
  /\ \A d \in Deliveries : {"at", "session", "rows", "linking"} \subseteq DOMAIN handler[d]

SessionsTyped ==
  /\ DOMAIN atStripe = Sessions /\ DOMAIN checkout = Sessions
  /\ DOMAIN payment = Sessions /\ \A s \in Sessions : "status" \in DOMAIN payment[s]

HandlerKnows(d) ==
  /\ handler[d].at \in Working \cup {"failed"} =>
       handler[d].session \in Sessions /\ atStripe[handler[d].session] = "paid"
  /\ handler[d].at \in Working \ {"read"} => payment[handler[d].session].status # "none"
  /\ handler[d].at \in Working \cup {"failed", "done", "idle"}

HandlersKnow == \A d \in Deliveries : HandlerKnows(d)

(* A session is opened once, and its payment is stored once after that.    *)
StoredOnce ==
  \A s \in Sessions : /\ checkout[s] = "no" => atStripe[s] = "none"
                      /\ checkout[s] # "stored" => payment[s].status = "none"

(* A parcel's key names it, its call and, of a booking, its receiver.      *)
KeyOf(x) ==
  \/ x.call \in Posts /\ \E n : x.key = <<n>>
  \/ x.call \in Deliveries /\ \E p : x.key = <<x.call, p>>

KeysName ==
  /\ \A x \in parcels : {"key", "call", "from", "to", "placed"} \subseteq DOMAIN x
  /\ \A x \in parcels : KeyOf(x)
  /\ \A x, y \in parcels : x.key = y.key => x = y

(* What a session's deliveries have made.                                  *)
DeliveriesOf(s) == {d \in Deliveries : handler[d].session = s}
MadeFor(s) == {x \in parcels : x.call \in DeliveriesOf(s)}

MadeBy(s, d) ==
  /\ \A x \in MadeFor(s) : x.call = d
  /\ \A x \in MadeFor(s) : \E p \in Receivers[s] : x.key = <<d, p>>
  /\ \A p \in Receivers[s] : \E x \in MadeFor(s) : x.key = <<d, p>>

Made ==
  /\ \A s \in Sessions :
       IF payment[s].status = "completed"
       THEN atStripe[s] = "paid" /\ \E d \in Deliveries : MadeBy(s, d)
       ELSE MadeFor(s) = {}
  /\ \A x \in parcels : x.call \in Deliveries => handler[x.call].at # "idle"

BookingIInv == HandlersTyped /\ SessionsTyped /\ HandlersKnow /\ StoredOnce /\ KeysName /\ Made

-----------------------------------------------------------------------------
(* Posts: what a call has inserted is there.                               *)
OwnParcel(q) ==
  \E x \in parcels : /\ x.call = q /\ x.key = Key(request[q].number, q)
                     /\ x.from = request[q].from /\ x.to = request[q].to

RequestKnows(q) ==
  /\ request[q].at \in {"assign", "read"} => OwnParcel(q)
  /\ request[q].answer \in {"created", "replayed"} /\ request[q].number # Generated =>
       \E x \in parcels : x.key = <<request[q].number>> /\ MatchesPayload(x, q)
  /\ request[q].answer \in {"created", "replayed"} => request[q].at = "answered"

RequestsKnow ==
  /\ DOMAIN request = Posts
  /\ \A q \in Posts : {"at", "number", "from", "to", "auto", "answer"} \subseteq DOMAIN request[q]
  /\ \A q \in Posts : RequestKnows(q)

ShopIInv == CustomersIInv /\ BookingIInv /\ RequestsKnow

-----------------------------------------------------------------------------
(* What any writer does to a customer's row.                               *)

StrongerStep ==
  \A r \in Rows : row'[r].place # row[r].place =>
    \E p \in Clients : /\ p.place = row'[r].place
                        /\ Strength(p) >= Strength(row[r])

LEMMA StrengthIs ==
  ASSUME NEW x
  PROVE  Strength(x) \in 1..3 /\ (x.phone # Absent => Strength(x) = 3)
BY DEF Strength

LEMMA RowWritten ==
  ASSUME RowsTyped, NEW id \in RowIds, NEW new \in CustomerRow, row' = [row EXCEPT ![id] = new],
         id \in Rows /\ new.place # row[id].place =>
           \E p \in Clients : p.place = new.place /\ Strength(p) >= Strength(row[id])
  PROVE  RowsTyped' /\ Rows \subseteq Rows' /\ id \in Rows' /\ StrongerStep
<1>1. row'[id] = new /\ \A r \in RowIds \ {id} : row'[r] = row[r]
  BY DEF RowsTyped
<1>2. RowsTyped'
  BY DEF RowsTyped
<1>3. Rows \subseteq Rows' /\ id \in Rows'
  BY <1>1, BookingAssumption DEF Rows
<1>4. StrongerStep
  BY <1>1 DEF StrongerStep, Rows
<1> QED BY <1>2, <1>3, <1>4

LEMMA RowsSame ==
  ASSUME RowsTyped, UNCHANGED row
  PROVE  RowsTyped' /\ Rows \subseteq Rows' /\ StrongerStep
BY DEF RowsTyped, Rows, StrongerStep

LEMMA InsertedIs ==
  ASSUME NEW p \in Clients
  PROVE  /\ Inserted(p) \in CustomerRow /\ Inserted(p).place = p.place
         /\ \A link \in Links, external \in BOOLEAN :
              /\ [Inserted(p) EXCEPT !.stripe = link, !.external = external] \in CustomerRow
              /\ [Inserted(p) EXCEPT !.stripe = link, !.external = external].place = p.place
<1>1. Inserted(p) \in CustomerRow /\ Inserted(p).place = p.place
  BY DEF Inserted, CustomerRow, Links, Names
<1> HIDE DEF Inserted
<1> QED BY <1>1 DEF CustomerRow

LEMMA UpsertWrites ==
  ASSUME RowsTyped, NEW p \in Clients, NEW id \in UpsertTargets(p), UpsertCustomerRow(p, id)
  PROVE  RowsTyped' /\ Rows \subseteq Rows' /\ id \in Rows' /\ StrongerStep
<1>1. id \in RowIds /\ (id \in Rows => Conflicts(row[id], p))
  BY DEF UpsertTargets, Rows
<1>2. CASE id \notin Rows
  <2>1. row' = [row EXCEPT ![id] = Inserted(p)]
    BY <1>1, <1>2 DEF UpsertCustomerRow, Rows
  <2> QED BY <1>1, <1>2, <2>1, InsertedIs, RowWritten
<1>3. CASE id \in Rows
  <2>1. row' = [row EXCEPT ![id] = Merged(row[id], p)]
    BY <1>3 DEF UpsertCustomerRow, Rows
  <2>2. row[id] \in CustomerRow
    BY <1>3 DEF RowsTyped, Rows
  <2>3. Merged(row[id], p) \in CustomerRow /\ Merged(row[id], p).place = p.place
    <3> DEFINE geo == IF p.geo = Absent THEN row[id].geo ELSE p.geo
    <3>1. geo \in {c.geo : c \in Clients}
      BY <2>2 DEF CustomerRow
    <3>2. Merged(row[id], p) = [row[id] EXCEPT !.name = p.name, !.email = p.email, !.place = p.place, !.geo = geo]
      BY DEF Merged
    <3> HIDE DEF geo
    <3>3. /\ p.name \in Names /\ p.email \in {c.email : c \in Clients}
          /\ p.place \in {c.place : c \in Clients}
      BY DEF Names
    <3>4. PICK m : m = [row[id] EXCEPT !.name = p.name, !.email = p.email, !.place = p.place, !.geo = geo]
      OBVIOUS
    <3>5. m \in CustomerRow /\ m.place = p.place
      BY <2>2, <3>1, <3>3, <3>4 DEF CustomerRow
    <3> QED BY <3>2, <3>4, <3>5
  <2>4. Strength(p) >= Strength(row[id])
    BY <1>1, <1>3, StrengthIs DEF Conflicts
  <2> QED BY <1>1, <2>1, <2>3, <2>4, RowWritten
<1> QED BY <1>2, <1>3

LEMMA LinkWrites ==
  ASSUME RowsTyped, NEW id \in Rows, NEW link \in Links, LinkTo(id, link)
  PROVE  RowsTyped' /\ Rows \subseteq Rows' /\ StrongerStep
<1> DEFINE new == [row[id] EXCEPT !.stripe = link]
<1>1. row' = [row EXCEPT ![id] = new]
  BY DEF LinkTo
<1>2. id \in RowIds /\ row[id] \in CustomerRow
  BY DEF RowsTyped, Rows
<1>3. new \in CustomerRow /\ new.place = row[id].place
  BY <1>2 DEF CustomerRow
<1> HIDE DEF new
<1> QED BY <1>1, <1>2, <1>3, RowWritten

-----------------------------------------------------------------------------
(* The requests of the dashboard and of storefronts.                       *)

(* What a request may know after a step.                                   *)
JobIs(new) ==
  /\ {"at", "kind", "person", "id", "link"} \subseteq DOMAIN new
  /\ new.at \in {"stripe", "write", "origin"} => new.id \in Rows' /\ new.link \in Links
  /\ new.at \in {"stripe", "write"} =>
       /\ new.kind \in {"create", "update"}
       /\ new.person \in Clients /\ new.person.phone # Absent

LEMMA JobMoves ==
  ASSUME CustomersIInv, NEW j \in Jobs, NEW new, JobIs(new), job' = [job EXCEPT ![j] = new],
         RowsTyped', Rows \subseteq Rows', UNCHANGED handler
  PROVE  CustomersIInv'
<1>1. /\ DOMAIN job' = Jobs /\ job'[j] = new
      /\ \A i \in Jobs \ {j} : job'[i] = job[i]
  BY DEF CustomersIInv, JobsKnow
<1>2. JobsKnow'
  <2>1. JobKnows(j)'
    BY <1>1 DEF JobIs, JobKnows
  <2>2. \A i \in Jobs \ {j} : JobKnows(i)'
    BY <1>1 DEF CustomersIInv, JobsKnow, JobKnows
  <2>3. \A i \in Jobs : {"at", "kind", "person", "id", "link"} \subseteq DOMAIN job'[i]
    BY <1>1 DEF CustomersIInv, JobsKnow, JobIs
  <2> QED BY <1>1, <2>1, <2>2, <2>3 DEF JobsKnow
<1>3. PartiesKnown'
  BY DEF CustomersIInv, PartiesKnown
<1> QED BY <1>2, <1>3 DEF CustomersIInv

LEMMA JobEnds ==
  ASSUME CustomersIInv, NEW j \in Jobs, job' = [job EXCEPT ![j].at = "done"],
         RowsTyped', Rows \subseteq Rows', UNCHANGED handler
  PROVE  CustomersIInv'
<1> DEFINE new == [job[j] EXCEPT !.at = "done"]
<1>1. job' = [job EXCEPT ![j] = new]
  OBVIOUS
<1>2. {"at", "kind", "person", "id", "link"} \subseteq DOMAIN new /\ new.at = "done"
  BY DEF CustomersIInv, JobsKnow
<1> HIDE DEF new
<1>3. JobIs(new)
  BY <1>2 DEF JobIs
<1> QED BY <1>1, <1>3, JobMoves

LEMMA CreateKeeps ==
  ASSUME CustomersIInv, NEW j \in Jobs, CreateCustomer(j), UNCHANGED handler
  PROVE  CustomersIInv' /\ StrongerStep
<1>1. PICK p \in Clients, id \in RowIds \ Rows :
       /\ p.phone # Absent
       /\ IF Accepted(id, p)
          THEN /\ row' = [row EXCEPT ![id] = Inserted(p)]
               /\ job' = [job EXCEPT ![j] =
                    [at |-> IF PaymentsOn THEN "stripe" ELSE "done",
                     kind |-> "create", person |-> p, id |-> id, link |-> Absent]]
          ELSE /\ job' = [job EXCEPT ![j].at = "done"]
               /\ UNCHANGED row
  BY DEF CreateCustomer
<1>2. CASE Accepted(id, p)
  <2>1. RowsTyped' /\ Rows \subseteq Rows' /\ id \in Rows' /\ StrongerStep
    BY <1>1, <1>2, InsertedIs, RowWritten DEF CustomersIInv
  <2>2. PICK at \in {"stripe", "done"} :
          job' = [job EXCEPT ![j] = [at |-> at, kind |-> "create", person |-> p, id |-> id, link |-> Absent]]
    BY <1>1, <1>2
  <2> DEFINE new == [at |-> at, kind |-> "create", person |-> p, id |-> id, link |-> Absent]
  <2>3. JobIs(new)
    BY <1>1, <2>1 DEF JobIs, Links
  <2> HIDE DEF new
  <2> QED BY <2>1, <2>2, <2>3, JobMoves DEF new
<1>3. CASE ~Accepted(id, p)
  BY <1>1, <1>3, RowsSame, JobEnds DEF CustomersIInv
<1> QED BY <1>2, <1>3

LEMMA ReadKeeps ==
  ASSUME CustomersIInv, NEW j \in Jobs, ReadForUpdate(j), UNCHANGED handler
  PROVE  CustomersIInv' /\ StrongerStep
<1>1. PICK p \in Clients, id \in Rows, at \in {"stripe", "write"} :
        /\ p.phone # Absent
        /\ job' = [job EXCEPT ![j] =
             [at |-> at, kind |-> "update", person |-> p, id |-> id, link |-> row[id].stripe]]
  BY DEF ReadForUpdate
<1> DEFINE new == [at |-> at, kind |-> "update", person |-> p, id |-> id, link |-> row[id].stripe]
<1>2. RowsTyped' /\ Rows \subseteq Rows' /\ StrongerStep
  BY RowsSame DEF CustomersIInv, ReadForUpdate
<1>3. row[id].stripe \in Links
  BY DEF CustomersIInv, RowsTyped, Rows, CustomerRow
<1>4. JobIs(new)
  BY <1>1, <1>2, <1>3 DEF JobIs
<1> HIDE DEF new
<1> QED BY <1>1, <1>2, <1>4, JobMoves DEF new

LEMMA AskKeeps ==
  ASSUME CustomersIInv, NEW j \in Jobs, AskStripe(j), UNCHANGED handler
  PROVE  CustomersIInv' /\ StrongerStep
<1>1. PICK link \in IF job[j].link # Absent THEN {job[j].link} ELSE {Absent, <<job[j].kind, job[j].id>>} :
        job' = [job EXCEPT ![j].link = link,
                           ![j].at = IF job[j].kind = "create" /\ link = Absent THEN "done" ELSE "write"]
  BY DEF AskStripe
<1> DEFINE at == IF job[j].kind = "create" /\ link = Absent THEN "done" ELSE "write"
           new == [job[j] EXCEPT !.link = link, !.at = at]
<1>2. RowsTyped' /\ Rows \subseteq Rows' /\ StrongerStep
  BY RowsSame DEF CustomersIInv, AskStripe
<1>3. /\ job[j].id \in Rows /\ job[j].link \in Links /\ job[j].kind \in {"create", "update"}
      /\ job[j].person \in Clients /\ job[j].person.phone # Absent
      /\ {"at", "kind", "person", "id", "link"} \subseteq DOMAIN job[j]
  BY DEF CustomersIInv, JobsKnow, JobKnows, AskStripe
<1>4. link \in Links
  BY <1>1, <1>3 DEF Links, Rows
<1>5. job' = [job EXCEPT ![j] = new]
  BY <1>1, <1>3 DEF CustomersIInv, JobsKnow
<1>6. /\ {"at", "kind", "person", "id", "link"} \subseteq DOMAIN new
      /\ new.at \in {"done", "write"} /\ new.link = link
      /\ new.kind = job[j].kind /\ new.person = job[j].person /\ new.id = job[j].id
  <2>1. at \in {"done", "write"}
    OBVIOUS
  <2> HIDE DEF at
  <2> QED BY <1>3, <2>1
<1> HIDE DEF new
<1>7. JobIs(new)
  BY <1>2, <1>3, <1>4, <1>6 DEF JobIs
<1> QED BY <1>2, <1>5, <1>7, JobMoves

LEMMA WriteKeeps ==
  ASSUME CustomersIInv, NEW j \in Jobs, WriteUpdate(j), UNCHANGED handler
  PROVE  CustomersIInv' /\ StrongerStep
<1> DEFINE p == job[j].person
           id == job[j].id
           new == [Inserted(p) EXCEPT !.stripe = job[j].link, !.external = row[id].external]
<1>1. /\ id \in Rows /\ job[j].link \in Links /\ p \in Clients /\ p.phone # Absent
  BY DEF CustomersIInv, JobsKnow, JobKnows, WriteUpdate
<1>2. row[id].external \in BOOLEAN /\ id \in RowIds
  BY <1>1 DEF CustomersIInv, RowsTyped, Rows, CustomerRow
<1>3. new \in CustomerRow /\ new.place = p.place
  BY <1>1, <1>2, InsertedIs
<1>4. Strength(p) >= Strength(row[id])
  BY <1>1, StrengthIs
<1>5. row' = [row EXCEPT ![id] = new] \/ UNCHANGED row
  BY DEF WriteUpdate
<1> HIDE DEF new
<1>6. RowsTyped' /\ Rows \subseteq Rows' /\ StrongerStep
  BY <1>1, <1>2, <1>3, <1>4, <1>5, RowWritten, RowsSame DEF CustomersIInv
<1> QED BY <1>6, JobEnds DEF WriteUpdate

LEMMA OrderKeeps ==
  ASSUME CustomersIInv, NEW j \in Jobs, UpsertFromExternalOrder(j), UNCHANGED handler
  PROVE  CustomersIInv' /\ StrongerStep
<1>1. PICK p \in Clients : \E id \in UpsertTargets(p), external \in BOOLEAN :
        /\ UpsertCustomerRow(p, id)
        /\ job' = [job EXCEPT ![j] =
              [at |-> IF external THEN "origin" ELSE "done",
               kind |-> "order", person |-> p, id |-> id, link |-> Absent]]
  BY DEF UpsertFromExternalOrder
<1>4. PICK id \in UpsertTargets(p), external \in BOOLEAN :
        /\ UpsertCustomerRow(p, id)
        /\ job' = [job EXCEPT ![j] =
              [at |-> IF external THEN "origin" ELSE "done",
               kind |-> "order", person |-> p, id |-> id, link |-> Absent]]
  BY <1>1
<1> DEFINE at == IF external THEN "origin" ELSE "done"
<1> DEFINE new == [at |-> at, kind |-> "order", person |-> p, id |-> id, link |-> Absent]
<1>2. RowsTyped' /\ Rows \subseteq Rows' /\ id \in Rows' /\ StrongerStep
  BY <1>4, UpsertWrites DEF CustomersIInv
<1>5. at \in {"origin", "done"}
  OBVIOUS
<1>6. job' = [job EXCEPT ![j] = new]
  BY <1>4
<1> HIDE DEF at
<1>3. JobIs(new)
  BY <1>2, <1>5 DEF JobIs, Links
<1> HIDE DEF new
<1> QED BY <1>2, <1>3, <1>6, JobMoves

LEMMA OriginKeeps ==
  ASSUME CustomersIInv, NEW j \in Jobs, NoteOrigin(j), UNCHANGED handler
  PROVE  CustomersIInv' /\ StrongerStep
<1> DEFINE id == job[j].id
           new == [row[id] EXCEPT !.external = TRUE]
<1>1. id \in Rows
  BY DEF CustomersIInv, JobsKnow, JobKnows, NoteOrigin
<1>2. id \in RowIds /\ row[id] \in CustomerRow
  BY <1>1 DEF CustomersIInv, RowsTyped, Rows
<1>3. row' = [row EXCEPT ![id] = new]
  BY DEF NoteOrigin
<1>4. new \in CustomerRow /\ new.place = row[id].place
  BY <1>2 DEF CustomerRow
<1> HIDE DEF new
<1>5. RowsTyped' /\ Rows \subseteq Rows' /\ StrongerStep
  BY <1>1, <1>2, <1>3, <1>4, RowWritten DEF CustomersIInv
<1> QED BY <1>5, JobEnds DEF NoteOrigin

LEMMA CustomersKeep ==
  ASSUME CustomersIInv, CustomersNext, UNCHANGED handler
  PROVE  CustomersIInv' /\ StrongerStep
<1>1. PICK j \in Jobs : \/ CreateCustomer(j) \/ ReadForUpdate(j) \/ AskStripe(j) \/ LinkCreated(j)
                        \/ WriteUpdate(j) \/ UpsertFromExternalOrder(j) \/ NoteOrigin(j) \/ JobCrash(j)
  BY DEF CustomersNext
<1>2. CASE LinkCreated(j)
  <2>1. job[j].id \in Rows /\ job[j].link \in Links
    BY <1>2 DEF CustomersIInv, JobsKnow, JobKnows, LinkCreated
  <2>2. RowsTyped' /\ Rows \subseteq Rows' /\ StrongerStep
    BY <1>2, <2>1, LinkWrites DEF CustomersIInv, LinkCreated
  <2> QED BY <1>2, <2>2, JobEnds DEF LinkCreated
<1>3. CASE JobCrash(j)
  BY <1>3, RowsSame, JobEnds DEF CustomersIInv, JobCrash
<1> QED BY <1>1, <1>2, <1>3, CreateKeeps, ReadKeeps, AskKeeps, WriteKeeps, OrderKeeps, OriginKeeps

-----------------------------------------------------------------------------
(* Parcels: keys name them, and a shift that takes one changes none.       *)

LEMMA KeysDiffer ==
  ASSUME NEW a, NEW b, NEW c, NEW e
  PROVE  <<a>> # <<b, c>> /\ (<<a, b>> = <<c, e>> => a = c /\ b = e)
OBVIOUS

SameParcel(x, y) == x.key = y.key /\ x.call = y.call /\ x.from = y.from /\ x.to = y.to

Replaced ==
  /\ \A x \in parcels : \E y \in parcels' : SameParcel(x, y)
  /\ \A y \in parcels' : \E x \in parcels : SameParcel(x, y)

(* Nothing that was known of a parcel is lost.                             *)
Kept == \A x \in parcels : \E y \in parcels' : SameParcel(x, y)

LEMMA Replacing ==
  ASSUME KeysName, NEW taken \in SUBSET parcels, NEW yes,
         parcels' = (parcels \ taken) \cup {[x EXCEPT !.placed = yes] : x \in taken}
  PROVE  Replaced /\ KeysName'
<1> DEFINE new(x) == [x EXCEPT !.placed = yes]
<1>1. ASSUME NEW x \in parcels
      PROVE  /\ SameParcel(x, new(x)) /\ SameParcel(x, x)
             /\ {"key", "call", "from", "to", "placed"} \subseteq DOMAIN new(x)
  BY DEF KeysName, SameParcel
<1>2. parcels' = (parcels \ taken) \cup {new(x) : x \in taken}
  OBVIOUS
<1> HIDE DEF new
<1>3. Replaced
  BY <1>1, <1>2 DEF Replaced
<1>4. \A x \in parcels' : {"key", "call", "from", "to", "placed"} \subseteq DOMAIN x
  BY <1>1, <1>2 DEF KeysName
<1>5. \A x \in parcels' : KeyOf(x)
  BY <1>3 DEF KeysName, KeyOf, Replaced, SameParcel
<1>6. ASSUME NEW x \in parcels', NEW y \in parcels', x.key = y.key
      PROVE  x = y
  <2>1. PICK x0 \in parcels : SameParcel(x0, x) /\ x = IF x0 \in taken THEN new(x0) ELSE x0
    BY <1>1, <1>2
  <2>2. PICK y0 \in parcels : SameParcel(y0, y) /\ y = IF y0 \in taken THEN new(y0) ELSE y0
    BY <1>1, <1>2
  <2>3. x0 = y0
    BY <1>6, <2>1, <2>2 DEF KeysName, SameParcel
  <2> QED BY <2>1, <2>2, <2>3
<1> QED BY <1>3, <1>4, <1>5, <1>6 DEF KeysName

(* Nothing changes what the deliveries of a session have made, if nothing  *)
(* is inserted and a delivery keeps its session.                           *)
LEMMA MadeStays ==
  ASSUME BookingIInv, Replaced,
         \A s \in Sessions : /\ payment'[s].status = "completed" <=> payment[s].status = "completed"
                             /\ atStripe[s] = "paid" => atStripe'[s] = "paid",
         \A d \in Deliveries : /\ handler[d].at # "idle" => handler'[d].session = handler[d].session
                               /\ handler[d].at # "idle" => handler'[d].at # "idle"
  PROVE  Made'
<1>1. \A x \in parcels : x.call \in Deliveries => handler[x.call].at # "idle"
  BY DEF BookingIInv, Made
<1>2. \A y \in parcels' : y.call \in Deliveries => handler'[y.call].at # "idle"
  BY <1>1 DEF Replaced, SameParcel
<1>3. ASSUME NEW s \in Sessions
      PROVE  /\ \A x \in MadeFor(s) : \E y \in MadeFor(s)' : SameParcel(x, y)
             /\ \A y \in MadeFor(s)' : \E x \in MadeFor(s) : SameParcel(x, y)
  <2>1. ASSUME NEW x \in MadeFor(s)
        PROVE  \E y \in MadeFor(s)' : SameParcel(x, y)
    <3>1. x \in parcels /\ x.call \in Deliveries /\ handler[x.call].session = s
      BY DEF MadeFor, DeliveriesOf
    <3>2. handler'[x.call].session = s
      BY <1>1, <3>1
    <3>3. PICK y \in parcels' : SameParcel(x, y)
      BY <3>1 DEF Replaced
    <3> QED BY <3>1, <3>2, <3>3 DEF MadeFor, DeliveriesOf, SameParcel
  <2>2. ASSUME NEW y \in MadeFor(s)'
        PROVE  \E x \in MadeFor(s) : SameParcel(x, y)
    <3>1. y \in parcels' /\ y.call \in Deliveries /\ handler'[y.call].session = s
      BY DEF MadeFor, DeliveriesOf
    <3>2. PICK x \in parcels : SameParcel(x, y)
      BY <3>1 DEF Replaced
    <3>3. x.call = y.call /\ handler[x.call].session = s
      BY <1>1, <3>1, <3>2 DEF SameParcel
    <3> QED BY <3>1, <3>2, <3>3 DEF MadeFor, DeliveriesOf
  <2> QED BY <2>1, <2>2
<1>4. ASSUME NEW s \in Sessions, NEW d \in Deliveries, MadeBy(s, d)
      PROVE  MadeBy(s, d)'
  BY <1>3, <1>4 DEF MadeBy, SameParcel
<1>5. ASSUME NEW s \in Sessions
      PROVE  (IF payment[s].status = "completed"
              THEN atStripe[s] = "paid" /\ \E d \in Deliveries : MadeBy(s, d)
              ELSE MadeFor(s) = {})'
  <2>1. CASE payment[s].status = "completed"
    BY <1>4, <2>1 DEF BookingIInv, Made
  <2>2. CASE payment[s].status # "completed"
    BY <1>3, <2>2 DEF BookingIInv, Made
  <2> QED BY <2>1, <2>2
<1> QED BY <1>2, <1>5 DEF Made

LEMMA SameParcels ==
  ASSUME KeysName, UNCHANGED parcels
  PROVE  Replaced /\ KeysName'
BY DEF Replaced, KeysName, KeyOf, SameParcel

-----------------------------------------------------------------------------
(* Deliveries: the steps that write no parcels.                            *)

(* Where a delivery may be after a step.                                   *)
HandlerIs(new) ==
  /\ {"at", "session", "rows", "linking"} \subseteq DOMAIN new
  /\ new.at \in Working \cup {"failed", "done"}
  /\ new.at \in Working \cup {"failed"} => new.session \in Sessions /\ atStripe[new.session] = "paid"
  /\ new.at \in Working \ {"read"} => payment[new.session].status # "none"
  /\ DOMAIN new.rows \subseteq Clients /\ new.linking \subseteq DOMAIN new.rows
  /\ \A p \in DOMAIN new.rows : new.rows[p] \in Rows'
  /\ new.linking # {} => new.at \in {"sender", "receivers"}

LEMMA HandlerChanges ==
  ASSUME ShopIInv, NEW d \in Deliveries, NEW new, HandlerIs(new), handler' = [handler EXCEPT ![d] = new],
         RowsTyped', Rows \subseteq Rows', UNCHANGED <<job, atStripe>>,
         \A s \in Sessions : payment[s].status # "none" => payment'[s].status # "none"
  PROVE  CustomersIInv' /\ HandlersTyped' /\ HandlersKnow'
<1> USE DEF ShopIInv
<1>1. /\ DOMAIN handler' = Deliveries /\ handler'[d] = new
      /\ \A e \in Deliveries \ {d} : handler'[e] = handler[e]
  BY DEF BookingIInv, HandlersTyped
<1>2. HandlersTyped'
  BY <1>1 DEF BookingIInv, HandlersTyped, HandlerIs
<1>3. HandlersKnow'
  <2>1. HandlerKnows(d)'
    BY <1>1 DEF HandlerIs, HandlerKnows, Working
  <2>2. \A e \in Deliveries \ {d} : HandlerKnows(e)'
    BY <1>1 DEF BookingIInv, HandlersKnow, HandlerKnows, Working
  <2> QED BY <2>1, <2>2 DEF HandlersKnow
<1>4. PartiesKnown'
  <2>1. /\ DOMAIN handler'[d].rows \subseteq Clients
        /\ handler'[d].linking \subseteq DOMAIN handler'[d].rows
        /\ \A p \in DOMAIN handler'[d].rows : handler'[d].rows[p] \in Rows'
        /\ handler'[d].linking # {} => handler'[d].at \in {"sender", "receivers"}
    BY <1>1 DEF HandlerIs
  <2>2. ASSUME NEW e \in Deliveries \ {d}
        PROVE  /\ DOMAIN handler'[e].rows \subseteq Clients
               /\ handler'[e].linking \subseteq DOMAIN handler'[e].rows
               /\ \A p \in DOMAIN handler'[e].rows : handler'[e].rows[p] \in Rows'
               /\ handler'[e].linking # {} => handler'[e].at \in {"sender", "receivers"}
    BY <1>1 DEF CustomersIInv, PartiesKnown
  <2> QED BY <2>1, <2>2 DEF PartiesKnown
<1>5. JobsKnow'
  BY DEF CustomersIInv, JobsKnow, JobKnows
<1> QED BY <1>2, <1>3, <1>4, <1>5 DEF CustomersIInv

LEMMA HandlerMoves ==
  ASSUME ShopIInv, NEW d \in Deliveries, NEW new, HandlerIs(new), handler' = [handler EXCEPT ![d] = new],
         handler[d].at # "idle" => new.session = handler[d].session,
         RowsTyped', Rows \subseteq Rows', Replaced, KeysName',
         UNCHANGED <<job, atStripe, checkout, payment>>
  PROVE  CustomersIInv' /\ BookingIInv'
<1> USE DEF ShopIInv
<1>1. /\ DOMAIN handler' = Deliveries /\ handler'[d] = new
      /\ \A e \in Deliveries \ {d} : handler'[e] = handler[e]
  BY DEF BookingIInv, HandlersTyped
<1>2. CustomersIInv' /\ HandlersTyped' /\ HandlersKnow'
  BY HandlerChanges
<1>3. Made'
  <2>1. new.at # "idle"
    BY DEF HandlerIs, Working
  <2> QED BY <1>1, <2>1, MadeStays
<1>4. SessionsTyped' /\ StoredOnce'
  BY DEF BookingIInv, SessionsTyped, StoredOnce
<1> QED BY <1>2, <1>3, <1>4 DEF BookingIInv

LEMMA SessionMoves ==
  ASSUME ShopIInv, UNCHANGED <<parcels, customerVars, handler>>, SessionsTyped', StoredOnce',
         \A s \in Sessions :
           /\ atStripe[s] = "paid" => atStripe'[s] = "paid"
           /\ \/ payment'[s] = payment[s]
              \/ payment[s].status = "none" /\ payment'[s].status = "pending"
  PROVE  CustomersIInv' /\ BookingIInv'
<1> USE DEF ShopIInv
<1>1. CustomersIInv'
  BY DEF CustomersIInv, customerVars, RowsTyped, JobsKnow, JobKnows, PartiesKnown, Rows
<1>2. HandlersTyped' /\ KeysName' /\ Replaced
  BY SameParcels DEF BookingIInv, HandlersTyped
<1>3. HandlersKnow'
  BY DEF BookingIInv, HandlersKnow, HandlerKnows, Working
<1>4. Made'
  BY <1>2, MadeStays
<1> QED BY <1>1, <1>2, <1>3, <1>4 DEF BookingIInv

LEMMA SitesKeep ==
  ASSUME ShopIInv, UNCHANGED <<parcels, customerVars>>,
         NEW s \in Sessions, Pay(s) \/ StorePending(s) \/ PayCrash(s) \/ CustomerPays(s)
  PROVE  CustomersIInv' /\ BookingIInv'
<1>1. SessionsTyped /\ StoredOnce
  BY DEF ShopIInv, BookingIInv
<1>2. CASE Pay(s)
  <2>1. PICK x \in {"opened", "refused"} :
          /\ checkout' = [checkout EXCEPT ![s] = x]
          /\ atStripe' = [atStripe EXCEPT ![s] = "open"] \/ UNCHANGED atStripe
    BY <1>2 DEF Pay
  <2>2. checkout[s] = "no" /\ atStripe[s] = "none" /\ UNCHANGED <<payment, handler>>
    BY <1>1, <1>2 DEF Pay, StoredOnce
  <2>3. SessionsTyped' /\ StoredOnce'
    BY <1>1, <2>1, <2>2 DEF SessionsTyped, StoredOnce
  <2>4. \A t \in Sessions : atStripe[t] = "paid" => atStripe'[t] = "paid"
    BY <1>1, <2>1, <2>2 DEF SessionsTyped
  <2> QED BY <2>2, <2>3, <2>4, SessionMoves
<1>3. CASE StorePending(s)
  <2>1. /\ checkout[s] = "opened" /\ checkout' = [checkout EXCEPT ![s] = "stored"]
        /\ payment' = [payment EXCEPT ![s] = [status |-> "pending", amount |-> Quote(basket[s], s)]]
        /\ UNCHANGED <<atStripe, handler>>
    BY <1>3 DEF StorePending
  <2>2. payment[s].status = "none" /\ payment'[s].status = "pending" /\ "status" \in DOMAIN payment'[s]
    BY <1>1, <2>1 DEF SessionsTyped, StoredOnce
  <2>3. \A t \in Sessions \ {s} : payment'[t] = payment[t] /\ checkout'[t] = checkout[t]
    BY <1>1, <2>1 DEF SessionsTyped
  <2>4. SessionsTyped' /\ StoredOnce'
    BY <1>1, <2>1, <2>2, <2>3 DEF SessionsTyped, StoredOnce
  <2> QED BY <2>1, <2>2, <2>3, <2>4, SessionMoves
<1>4. CASE PayCrash(s)
  <2>1. SessionsTyped' /\ StoredOnce'
    BY <1>1, <1>4 DEF PayCrash, SessionsTyped, StoredOnce
  <2> QED BY <1>4, <2>1, SessionMoves DEF PayCrash
<1>5. CASE CustomerPays(s)
  <2>1. PICK x \in {"paid", "processing", "failed"} : atStripe' = [atStripe EXCEPT ![s] = x]
    BY <1>5 DEF CustomerPays
  <2>2. atStripe[s] \in {"open", "processing"} /\ UNCHANGED <<checkout, payment, handler>>
    BY <1>5 DEF CustomerPays
  <2>3. SessionsTyped' /\ StoredOnce'
    BY <1>1, <2>1, <2>2 DEF SessionsTyped, StoredOnce
  <2>4. \A t \in Sessions : atStripe[t] = "paid" => atStripe'[t] = "paid"
    BY <1>1, <2>1, <2>2 DEF SessionsTyped
  <2> QED BY <2>2, <2>3, <2>4, SessionMoves
<1> QED BY <1>2, <1>3, <1>4, <1>5

(* What is known of a delivery under way.                                  *)
LEMMA HandlerNow ==
  ASSUME ShopIInv, NEW d \in Deliveries
  PROVE  /\ handler[d].at \in Working \cup {"failed"} =>
              handler[d].session \in Sessions /\ atStripe[handler[d].session] = "paid"
         /\ handler[d].at \in Working \ {"read"} => payment[handler[d].session].status # "none"
         /\ DOMAIN handler[d].rows \subseteq Clients /\ handler[d].linking \subseteq DOMAIN handler[d].rows
         /\ \A p \in DOMAIN handler[d].rows : handler[d].rows[p] \in Rows
         /\ handler[d].linking # {} => handler[d].at \in {"sender", "receivers"}
         /\ DOMAIN handler = Deliveries
         /\ {"at", "session", "rows", "linking"} \subseteq DOMAIN handler[d]
  BY DEF ShopIInv, BookingIInv, HandlersKnow, HandlerKnows, CustomersIInv, PartiesKnown, HandlersTyped

(* A delivery goes on and writes nothing.                                  *)
LEMMA StepKeeps ==
  ASSUME ShopIInv, NEW d \in Deliveries, NEW at \in Working \cup {"failed", "done"}, Step(d, at),
         handler[d].at \in Working, handler[d].linking = {},
         at \in Working \ {"read"} => payment[handler[d].session].status # "none",
         Replaced, KeysName', UNCHANGED <<customerVars, atStripe, checkout, payment>>
  PROVE  CustomersIInv' /\ BookingIInv'
<1> DEFINE new == [handler[d] EXCEPT !.at = at]
<1>1. handler' = [handler EXCEPT ![d] = new]
  BY DEF Step
<1>2. /\ new.at = at /\ new.session = handler[d].session
      /\ new.rows = handler[d].rows /\ new.linking = handler[d].linking
      /\ {"at", "session", "rows", "linking"} \subseteq DOMAIN new
  BY HandlerNow
<1> HIDE DEF new
<1>3. Rows \subseteq Rows' /\ RowsTyped' /\ UNCHANGED job
  BY RowsSame DEF customerVars, ShopIInv, CustomersIInv
<1>4. HandlerIs(new)
  BY <1>2, <1>3, HandlerNow DEF HandlerIs
<1> QED BY <1>1, <1>2, <1>3, <1>4, HandlerMoves

(* A delivery begins, again or is lost: with nothing written yet.          *)
LEMMA BeginKeeps ==
  ASSUME ShopIInv, NEW d \in Deliveries, NEW s \in Sessions, NEW at \in {"read", "done", "failed"},
         handler' = [handler EXCEPT ![d] = [NoHandler EXCEPT !.at = at, !.session = s]],
         at \in {"read", "failed"} => atStripe[s] = "paid",
         handler[d].at # "idle" => handler[d].session = s,
         UNCHANGED <<parcels, customerVars, atStripe, checkout, payment>>
  PROVE  CustomersIInv' /\ BookingIInv'
<1> DEFINE new == [NoHandler EXCEPT !.at = at, !.session = s]
<1>1. /\ new.at = at /\ new.session = s /\ new.rows = <<>> /\ new.linking = {}
      /\ {"at", "session", "rows", "linking"} \subseteq DOMAIN new
  BY DEF NoHandler
<1>2. DOMAIN new.rows = {}
  BY <1>1
<1>3. Rows \subseteq Rows' /\ RowsTyped' /\ Replaced /\ KeysName' /\ UNCHANGED job
  BY RowsSame, SameParcels DEF customerVars, ShopIInv, CustomersIInv, BookingIInv
<1>4. handler' = [handler EXCEPT ![d] = new]
  OBVIOUS
<1> HIDE DEF new
<1>5. HandlerIs(new)
  BY <1>1, <1>2 DEF HandlerIs, Working
<1> QED BY <1>1, <1>3, <1>4, <1>5, HandlerMoves

LEMMA DeliveriesKeep ==
  ASSUME ShopIInv, UNCHANGED <<parcels, customerVars>>, NEW d \in Deliveries,
         (\E s \in Sessions : Deliver(d, s)) \/ ReadPayment(d) \/ HandlerCrash(d) \/ Redeliver(d)
  PROVE  CustomersIInv' /\ BookingIInv'
<1>1. CASE \E s \in Sessions : Deliver(d, s)
  <2>1. PICK s \in Sessions : Deliver(d, s)
    BY <1>1
  <2>2. PICK at \in {"read", "done"} :
          /\ handler' = [handler EXCEPT ![d] = [NoHandler EXCEPT !.at = at, !.session = s]]
          /\ at = "read" => atStripe[s] = "paid"
    BY <2>1 DEF Deliver
  <2> QED BY <2>1, <2>2, BeginKeeps DEF Deliver
<1>2. CASE ReadPayment(d)
  <2>1. handler[d].at = "read" /\ UNCHANGED <<checkout, atStripe, payment>>
    BY <1>2 DEF ReadPayment
  <2>2. PICK at \in {"failed", "done", "sender"} :
          Step(d, at) /\ (at = "sender" => payment[handler[d].session].status # "none")
    BY <1>2 DEF ReadPayment
  <2>3. Replaced /\ KeysName'
    BY SameParcels DEF ShopIInv, BookingIInv
  <2>4. handler[d].linking = {}
    BY <2>1, HandlerNow
  <2> QED BY <2>1, <2>2, <2>3, <2>4, StepKeeps DEF Working
<1>3. CASE HandlerCrash(d)
  <2>1. handler[d].at \in Working
    BY <1>3 DEF HandlerCrash, ShopIInv, BookingIInv, HandlersKnow, HandlerKnows
  <2>2. handler[d].session \in Sessions /\ atStripe[handler[d].session] = "paid"
    BY <2>1, HandlerNow
  <2> QED BY <1>3, <2>2, BeginKeeps DEF HandlerCrash
<1>4. CASE Redeliver(d)
  <2>1. handler[d].session \in Sessions /\ atStripe[handler[d].session] = "paid"
    BY <1>4, HandlerNow DEF Redeliver
  <2> QED BY <1>4, <2>1, BeginKeeps DEF Redeliver
<1> QED BY <1>1, <1>2, <1>3, <1>4

LEMMA PartyKeeps ==
  ASSUME ShopIInv, NEW d \in Deliveries, NEW p \in Clients, UpsertFromBooking(d, p),
         handler[d].at \in {"sender", "receivers"},
         UNCHANGED <<parcels, job, atStripe, checkout, payment>>
  PROVE  CustomersIInv' /\ BookingIInv' /\ StrongerStep
<1>1. PICK id \in UpsertTargets(p) :
       /\ UpsertCustomerRow(p, id)
       /\ handler' = [handler EXCEPT
            ![d].rows = [x \in DOMAIN handler[d].rows \cup {p} |-> IF x = p THEN id ELSE handler[d].rows[x]],
            ![d].linking = IF PaymentsOn THEN handler[d].linking \cup {p} ELSE handler[d].linking]
  BY DEF UpsertFromBooking
<1> DEFINE rows == [x \in DOMAIN handler[d].rows \cup {p} |-> IF x = p THEN id ELSE handler[d].rows[x]]
           linking == IF PaymentsOn THEN handler[d].linking \cup {p} ELSE handler[d].linking
           new == [handler[d] EXCEPT !.rows = rows, !.linking = linking]
<1>2. RowsTyped' /\ Rows \subseteq Rows' /\ id \in Rows' /\ StrongerStep
  BY <1>1, UpsertWrites DEF ShopIInv, CustomersIInv
<1>3. /\ DOMAIN rows \subseteq Clients /\ linking \subseteq DOMAIN rows
      /\ \A x \in DOMAIN rows : rows[x] \in Rows'
  BY <1>2, HandlerNow
<1>4. handler' = [handler EXCEPT ![d] = new]
  <2> HIDE DEF rows, linking
  <2>1. handler' = [handler EXCEPT ![d].rows = rows, ![d].linking = linking]
    BY <1>1 DEF rows, linking
  <2> QED BY <2>1, HandlerNow
<1> HIDE DEF rows, linking
<1>5. /\ {"at", "session", "rows", "linking"} \subseteq DOMAIN new
      /\ new.at = handler[d].at /\ new.session = handler[d].session
      /\ new.rows = rows /\ new.linking = linking
  BY HandlerNow
<1> HIDE DEF new
<1>6. HandlerIs(new)
  BY <1>2, <1>3, <1>5, HandlerNow DEF HandlerIs, Working
<1>7. Replaced /\ KeysName'
  BY SameParcels DEF ShopIInv, BookingIInv
<1> QED BY <1>2, <1>4, <1>5, <1>6, <1>7, HandlerMoves

LEMMA SyncKeeps ==
  ASSUME ShopIInv, NEW d \in Deliveries, SyncToStripe(d), handler[d].at \in Working,
         UNCHANGED <<parcels, job, atStripe, checkout, payment>>
  PROVE  CustomersIInv' /\ BookingIInv' /\ StrongerStep
<1>1. PICK p \in handler[d].linking :
        /\ \/ LinkTo(handler[d].rows[p], <<handler[d].session, p.name>>)
           \/ UNCHANGED row
        /\ handler' = [handler EXCEPT ![d].linking = handler[d].linking \ {p}]
  BY DEF SyncToStripe
<1> DEFINE new == [handler[d] EXCEPT !.linking = handler[d].linking \ {p}]
<1>2. p \in Clients /\ handler[d].rows[p] \in Rows /\ <<handler[d].session, p.name>> \in Links
  BY HandlerNow DEF Links, Names
<1>3. RowsTyped' /\ Rows \subseteq Rows' /\ StrongerStep
  BY <1>1, <1>2, LinkWrites, RowsSame DEF ShopIInv, CustomersIInv
<1>4. handler' = [handler EXCEPT ![d] = new]
  BY <1>1
<1>5. /\ {"at", "session", "rows", "linking"} \subseteq DOMAIN new
      /\ new.at = handler[d].at /\ new.session = handler[d].session
      /\ new.rows = handler[d].rows /\ new.linking = handler[d].linking \ {p}
  BY HandlerNow
<1> HIDE DEF new
<1>6. HandlerIs(new)
  BY <1>3, <1>5, HandlerNow DEF HandlerIs, Working
<1>7. Replaced /\ KeysName'
  BY SameParcels DEF ShopIInv, BookingIInv
<1> QED BY <1>3, <1>4, <1>5, <1>6, <1>7, HandlerMoves

LEMMA PartiesKeep ==
  ASSUME ShopIInv, NEW d \in Deliveries,
         UpsertSender(d) \/ UpsertReceiver(d) \/ SyncToStripe(d) \/ PartiesWritten(d),
         UNCHANGED <<parcels, job, atStripe, checkout, payment>>
  PROVE  CustomersIInv' /\ BookingIInv' /\ StrongerStep
<1>1. CASE UpsertSender(d)
  <2>1. Sender[handler[d].session] \in Clients
    BY <1>1, HandlerNow, BookingAssumption DEF UpsertSender, Working
  <2> QED BY <1>1, <2>1, PartyKeeps DEF UpsertSender
<1>2. CASE UpsertReceiver(d)
  <2>1. Receivers[handler[d].session] \subseteq Clients
    BY <1>2, HandlerNow, BookingAssumption DEF UpsertReceiver, Working
  <2> QED BY <1>2, <2>1, PartyKeeps DEF UpsertReceiver
<1>3. CASE SyncToStripe(d)
  <2>1. handler[d].at \in Working
    BY <1>3, HandlerNow DEF SyncToStripe, Working
  <2> QED BY <1>3, <2>1, SyncKeeps
<1>4. CASE PartiesWritten(d)
  <2>1. PICK at \in {"receivers", "fulfil"} : Step(d, at)
    BY <1>4 DEF PartiesWritten
  <2>2. handler[d].at \in {"sender", "receivers"} /\ handler[d].linking = {} /\ UNCHANGED row
    BY <1>4 DEF PartiesWritten
  <2>3. Replaced /\ KeysName'
    BY SameParcels DEF ShopIInv, BookingIInv
  <2>4. StrongerStep
    BY <2>2, RowsSame DEF ShopIInv, CustomersIInv
  <2> QED BY <2>1, <2>2, <2>3, <2>4, StepKeeps, HandlerNow DEF Working, customerVars
<1> QED BY <1>1, <1>2, <1>3, <1>4

(* The transaction that completes a payment and makes its parcels.         *)
LEMMA InsertsAll ==
  ASSUME ShopIInv, NEW d \in Deliveries, handler[d].at = "fulfil",
         NEW s \in Sessions, s = handler[d].session, payment[s].status # "completed",
         InsertMany(ParcelsOf(d)), Step(d, "assign"),
         payment' = [payment EXCEPT ![s].status = "completed"],
         UNCHANGED <<customerVars, atStripe, checkout>>
  PROVE  CustomersIInv' /\ BookingIInv'
<1> USE DEF ShopIInv
<1> DEFINE of(p) == Parcel(<<d, p>>, d, handler[d].rows[Sender[s]], handler[d].rows[p])
           new == [handler[d] EXCEPT !.at = "assign"]
<1>1. parcels' = parcels \cup {of(p) : p \in Receivers[s]}
  BY DEF InsertMany, ParcelsOf
<1>2. \A p : /\ of(p).key = <<d, p>> /\ of(p).call = d
             /\ {"key", "call", "from", "to", "placed"} \subseteq DOMAIN of(p)
  BY DEF Parcel
<1> HIDE DEF of
<1>3. MadeFor(s) = {}
  BY DEF BookingIInv, Made
<1>4. \A x \in parcels : x.call # d
  BY <1>3 DEF MadeFor, DeliveriesOf
<1>5. ASSUME NEW x \in parcels, NEW p
      PROVE  x.key # <<d, p>>
  <2>1. KeyOf(x)
    BY DEF BookingIInv, KeysName
  <2>2. CASE \E n : x.key = <<n>>
    BY <2>2, KeysDiffer
  <2>3. CASE \E q : x.key = <<x.call, q>>
    BY <1>4, <2>3, KeysDiffer
  <2> QED BY <2>1, <2>2, <2>3 DEF KeyOf
<1>6. KeysName'
  <2>1. \A x \in parcels' : {"key", "call", "from", "to", "placed"} \subseteq DOMAIN x
    BY <1>1, <1>2 DEF BookingIInv, KeysName
  <2>2. \A x \in parcels' : KeyOf(x)
    BY <1>1, <1>2 DEF BookingIInv, KeysName, KeyOf
  <2>3. ASSUME NEW x \in parcels', NEW y \in parcels', x.key = y.key
        PROVE  x = y
    <3>1. CASE x \in parcels /\ y \in parcels
      BY <2>3, <3>1 DEF BookingIInv, KeysName
    <3>2. CASE x \in parcels <=> y \notin parcels
      BY <1>1, <1>2, <1>5, <2>3, <3>2
    <3>3. CASE x \notin parcels /\ y \notin parcels
      <4>1. PICK p \in Receivers[s] : x = of(p)
        BY <1>1, <3>3
      <4>2. PICK q \in Receivers[s] : y = of(q)
        BY <1>1, <3>3
      <4>3. p = q
        BY <1>2, <2>3, <4>1, <4>2, KeysDiffer
      <4> QED BY <4>1, <4>2, <4>3
    <3> QED BY <3>1, <3>2, <3>3
  <2> QED BY <2>1, <2>2, <2>3 DEF KeysName
<1>7. /\ payment'[s].status = "completed" /\ DOMAIN payment' = Sessions
      /\ \A t \in Sessions : "status" \in DOMAIN payment'[t]
      /\ \A t \in Sessions \ {s} : payment'[t] = payment[t]
  BY DEF BookingIInv, SessionsTyped
<1>8. handler' = [handler EXCEPT ![d] = new]
  BY DEF Step
<1>9. /\ new.at = "assign" /\ new.session = s
      /\ new.rows = handler[d].rows /\ new.linking = handler[d].linking
      /\ {"at", "session", "rows", "linking"} \subseteq DOMAIN new
  BY HandlerNow
<1>10. payment[s].status # "none" /\ atStripe[s] = "paid"
  BY HandlerNow DEF Working
<1>11. handler'[d] = new /\ \A e \in Deliveries \ {d} : handler'[e] = handler[e]
  BY <1>8, HandlerNow
<1> HIDE DEF new
<1>12. Rows \subseteq Rows' /\ RowsTyped' /\ UNCHANGED job
  BY RowsSame DEF customerVars, CustomersIInv
<1>13. HandlerIs(new)
  BY <1>9, <1>10, <1>12, HandlerNow DEF HandlerIs, Working
<1>14. CustomersIInv' /\ HandlersTyped' /\ HandlersKnow'
  BY <1>7, <1>8, <1>12, <1>13, HandlerChanges
<1>15. SessionsTyped' /\ StoredOnce'
  BY <1>7, <1>10 DEF BookingIInv, SessionsTyped, StoredOnce
<1>16. \A e \in Deliveries : handler'[e].session = handler[e].session
  BY <1>9, <1>11
<1>17. MadeFor(s)' = {of(p) : p \in Receivers[s]}
  BY <1>1, <1>2, <1>3, <1>9, <1>11, <1>16 DEF MadeFor, DeliveriesOf
<1>18. MadeBy(s, d)'
  BY <1>2, <1>17 DEF MadeBy
<1>19. ASSUME NEW t \in Sessions \ {s}
       PROVE  MadeFor(t)' = MadeFor(t)
  BY <1>1, <1>2, <1>16, <1>19 DEF MadeFor, DeliveriesOf
<1>20. Made'
  <2>1. \A t \in Sessions \ {s}, e \in Deliveries : MadeBy(t, e) => MadeBy(t, e)'
    BY <1>19 DEF MadeBy
  <2>2. \A x \in parcels' : x.call \in Deliveries => handler'[x.call].at # "idle"
    BY <1>1, <1>2, <1>9, <1>11 DEF BookingIInv, Made
  <2> QED BY <1>7, <1>10, <1>18, <1>19, <2>1, <2>2 DEF BookingIInv, Made
<1> QED BY <1>6, <1>14, <1>15, <1>20 DEF BookingIInv

LEMMA FulfilKeeps ==
  ASSUME ShopIInv, NEW d \in Deliveries, Fulfil(d) \/ AssignCreated(d), UNCHANGED customerVars
  PROVE  CustomersIInv' /\ BookingIInv' /\ Kept
<1>1. CASE Fulfil(d)
  <2> DEFINE s == handler[d].session
  <2>1. handler[d].at = "fulfil" /\ UNCHANGED <<atStripe, checkout>>
    BY <1>1 DEF Fulfil
  <2>2. s \in Sessions /\ payment[s].status # "none" /\ handler[d].linking = {}
    BY <2>1, HandlerNow DEF Working
  <2>3. CASE InsertMany(ParcelsOf(d)) /\ payment[s].status # "completed"
             /\ payment' = [payment EXCEPT ![s].status = "completed"] /\ Step(d, "assign")
    <3>1. CustomersIInv' /\ BookingIInv'
      BY <2>1, <2>2, <2>3, InsertsAll
    <3>2. Kept
      BY <2>3 DEF Kept, InsertMany, SameParcel
    <3> QED BY <3>1, <3>2
  <2>4. CASE (Step(d, "done") \/ Step(d, "failed")) /\ UNCHANGED <<parcels, payment>>
    <3>1. Replaced /\ KeysName'
      BY <2>4, SameParcels DEF ShopIInv, BookingIInv
    <3> QED BY <2>1, <2>2, <2>4, <3>1, StepKeeps DEF Working, Kept, Replaced
  <2> QED BY <1>1, <2>3, <2>4 DEF Fulfil, PaidAlready
<1>2. CASE AssignCreated(d)
  <2>1. PICK taken \in SUBSET {x \in parcels : x.call = d} :
          parcels' = (parcels \ taken) \cup {[x EXCEPT !.placed = TRUE] : x \in taken}
    BY <1>2 DEF AssignCreated, PlaceSome
  <2>2. taken \in SUBSET parcels
    BY <2>1
  <2>3. KeysName
    BY DEF ShopIInv, BookingIInv
  <2>4. Replaced /\ KeysName'
    BY <2>1, <2>2, <2>3, Replacing
  <2>5. handler[d].at = "assign" /\ Step(d, "done") /\ UNCHANGED <<atStripe, checkout, payment>>
    BY <1>2 DEF AssignCreated
  <2>6. handler[d].linking = {}
    BY <2>5, HandlerNow
  <2> QED BY <2>4, <2>5, <2>6, StepKeeps DEF Working, Kept, Replaced
<1> QED BY <1>1, <1>2

-----------------------------------------------------------------------------
(* Posts: what a call knows stays so while parcels are only added or       *)
(* replaced.                                                               *)

LEMMA RequestsStay ==
  ASSUME RequestsKnow, Kept, UNCHANGED request
  PROVE  RequestsKnow'
<1>1. ASSUME NEW q \in Posts
      PROVE  RequestKnows(q)'
  BY DEF RequestsKnow, RequestKnows, OwnParcel, Key, MatchesPayload, Kept, SameParcel
<1> QED BY <1>1 DEF RequestsKnow

LEMMA RequestMoves ==
  ASSUME RequestsKnow, Kept, NEW q \in Posts, NEW new, request' = [request EXCEPT ![q] = new],
         {"at", "number", "from", "to", "auto", "answer"} \subseteq DOMAIN new,
         new.at \in {"assign", "read"} =>
           \E x \in parcels' : /\ x.call = q /\ x.key = Key(new.number, q)
                               /\ x.from = new.from /\ x.to = new.to,
         new.answer \in {"created", "replayed"} => new.at = "answered",
         new.answer \in {"created", "replayed"} /\ new.number # Generated =>
           \E x \in parcels' : x.key = <<new.number>> /\ x.from = new.from /\ x.to = new.to
  PROVE  RequestsKnow'
<1>1. /\ DOMAIN request' = Posts /\ request'[q] = new
      /\ \A r \in Posts \ {q} : request'[r] = request[r]
  BY DEF RequestsKnow
<1>2. RequestKnows(q)'
  BY <1>1 DEF RequestKnows, OwnParcel, MatchesPayload
<1>3. ASSUME NEW r \in Posts \ {q}
      PROVE  RequestKnows(r)'
  <2>1. RequestKnows(r) /\ request'[r] = request[r]
    BY <1>1 DEF RequestsKnow
  <2>2. OwnParcel(r) => OwnParcel(r)'
    BY <2>1 DEF OwnParcel, Key, Kept, SameParcel
  <2>3. (\E x \in parcels : x.key = <<request[r].number>> /\ MatchesPayload(x, r)) =>
           (\E x \in parcels : x.key = <<request[r].number>> /\ MatchesPayload(x, r))'
    BY <2>1 DEF MatchesPayload, Kept, SameParcel
  <2> QED BY <2>1, <2>2, <2>3 DEF RequestKnows
<1> QED BY <1>1, <1>2, <1>3 DEF RequestsKnow

(* A parcel a shift takes, or gives up, is the same parcel.                *)
LEMMA PlacedIs ==
  ASSUME ShopIInv, NEW x \in parcels, NEW yes, parcels' = Placed(x, yes),
         UNCHANGED bookingVars
  PROVE  BookingIInv' /\ Kept
<1>1. {x} \in SUBSET parcels /\ KeysName
  BY DEF ShopIInv, BookingIInv
<1>2. parcels' = (parcels \ {x}) \cup {[z EXCEPT !.placed = yes] : z \in {x}}
  BY DEF Placed
<1>3. Replaced /\ KeysName'
  BY <1>1, <1>2, Replacing
<1>4. BookingIInv /\ Made'
  BY <1>3, MadeStays DEF ShopIInv, bookingVars
<1> QED BY <1>3, <1>4
    DEF BookingIInv, bookingVars, HandlersTyped, SessionsTyped, HandlersKnow, HandlerKnows, StoredOnce,
        Kept, Replaced

(* A posted parcel is nobody's booking.                                    *)
LEMMA PostedIs ==
  ASSUME ShopIInv, NEW q \in Posts, NEW n, NEW from, NEW to, NumberFree(<<n>>),
         InsertMany({Parcel(<<n>>, q, from, to)}), UNCHANGED bookingVars
  PROVE  BookingIInv' /\ Kept
<1> DEFINE new == Parcel(<<n>>, q, from, to)
<1>1. /\ parcels' = parcels \cup {new} /\ new.key = <<n>> /\ new.call = q
      /\ {"key", "call", "from", "to", "placed"} \subseteq DOMAIN new
  BY DEF InsertMany, Parcel
<1>2. q \notin Deliveries
  BY BookingAssumption
<1> HIDE DEF new
<1>3. KeysName'
  BY <1>1 DEF ShopIInv, BookingIInv, KeysName, KeyOf, NumberFree
<1>4. ASSUME NEW s \in Sessions
      PROVE  MadeFor(s)' = MadeFor(s)
  BY <1>1, <1>2 DEF MadeFor, DeliveriesOf, bookingVars
<1>5. ASSUME NEW s \in Sessions, NEW d \in Deliveries
      PROVE  MadeBy(s, d)' <=> MadeBy(s, d)
  BY <1>4 DEF MadeBy
<1>6. \A x \in parcels' : x.call \in Deliveries => handler'[x.call].at # "idle"
  BY <1>1, <1>2 DEF ShopIInv, BookingIInv, Made, bookingVars
<1>7. Made'
  BY <1>4, <1>5, <1>6 DEF ShopIInv, BookingIInv, Made, bookingVars
<1>8. Kept
  BY <1>1 DEF Kept, SameParcel
<1> QED BY <1>3, <1>7, <1>8
    DEF ShopIInv, BookingIInv, bookingVars, HandlersTyped, SessionsTyped, HandlersKnow, HandlerKnows, StoredOnce

LEMMA ParcelsUntouched ==
  ASSUME ShopIInv, UNCHANGED <<parcels, bookingVars>>
  PROVE  BookingIInv' /\ Kept
<1>1. Replaced /\ KeysName'
  BY SameParcels DEF ShopIInv, BookingIInv
<1>2. Made'
  BY <1>1, MadeStays DEF ShopIInv, bookingVars
<1> QED BY <1>1, <1>2
    DEF ShopIInv, BookingIInv, bookingVars, HandlersTyped, SessionsTyped, HandlersKnow, HandlerKnows, StoredOnce,
        Kept, Replaced

(* A call answers, with something that is not a promise of a parcel.       *)
LEMMA ReplyKeeps ==
  ASSUME ShopIInv, Kept, NEW q \in Posts, NEW answer, Reply(q, answer),
         answer \in {"created", "replayed"} /\ request[q].number # Generated =>
           \E x \in parcels : x.key = <<request[q].number>> /\ MatchesPayload(x, q)
  PROVE  RequestsKnow'
<1> DEFINE new == [request[q] EXCEPT !.at = "answered", !.answer = answer]
<1>1. RequestsKnow
  BY DEF ShopIInv
<1>2. request' = [request EXCEPT ![q] = new]
  BY DEF Reply
<1>3. /\ {"at", "number", "from", "to", "auto", "answer"} \subseteq DOMAIN new
      /\ new.at = "answered" /\ new.answer = answer
      /\ new.number = request[q].number /\ new.from = request[q].from /\ new.to = request[q].to
  BY <1>1 DEF RequestsKnow
<1> HIDE DEF new
<1>4. new.answer \in {"created", "replayed"} /\ new.number # Generated =>
        \E x \in parcels' : x.key = <<new.number>> /\ x.from = new.from /\ x.to = new.to
  BY <1>3 DEF MatchesPayload, Kept, SameParcel
<1> QED BY <1>1, <1>2, <1>3, <1>4, RequestMoves

(* A call goes on, with its answer still to be given.                      *)
LEMMA DeliveryGoesOn ==
  ASSUME ShopIInv, Kept, NEW q \in Posts, NEW at, request' = [request EXCEPT ![q].at = at],
         request[q].at # "answered",
         at \in {"assign", "read"} =>
           \E x \in parcels' : /\ x.call = q /\ x.key = Key(request[q].number, q)
                               /\ x.from = request[q].from /\ x.to = request[q].to
  PROVE  RequestsKnow'
<1> DEFINE new == [request[q] EXCEPT !.at = at]
<1>1. RequestsKnow
  BY DEF ShopIInv
<1>2. request' = [request EXCEPT ![q] = new]
  OBVIOUS
<1>3. /\ {"at", "number", "from", "to", "auto", "answer"} \subseteq DOMAIN new
      /\ new.at = at /\ new.answer = request[q].answer
      /\ new.number = request[q].number /\ new.from = request[q].from /\ new.to = request[q].to
  BY <1>1 DEF RequestsKnow
<1> HIDE DEF new
<1>4. new.answer \notin {"created", "replayed"}
  BY <1>1, <1>3 DEF RequestsKnow, RequestKnows
<1>5. new.at \in {"assign", "read"} =>
        \E x \in parcels' : /\ x.call = q /\ x.key = Key(new.number, q)
                            /\ x.from = new.from /\ x.to = new.to
  BY <1>3
<1> QED BY <1>1, <1>2, <1>3, <1>4, <1>5, RequestMoves

(* A call that writes no parcel begins.                                    *)
LEMMA CallBegins ==
  ASSUME ShopIInv, Kept, NEW q \in Posts, NEW new, request' = [request EXCEPT ![q] = new],
         {"at", "number", "from", "to", "auto", "answer"} \subseteq DOMAIN new,
         new.at \notin {"assign", "read"}, new.answer \in {Absent, "invalid"}
  PROVE  RequestsKnow'
BY RequestMoves, BookingAssumption DEF ShopIInv

LEMMA PackagesKeep ==
  ASSUME ShopIInv, PackagesNext, UNCHANGED bookingVars
  PROVE  BookingIInv' /\ RequestsKnow'
<1>1. PICK q \in Posts :
        \/ ValidateReferences(q) \/ LookUpNumber(q) \/ InsertPackage(q) \/ AssignPackage(q)
        \/ AnswerCreated(q) \/ Unassign(q) \/ AssignAgain(q) \/ RequestCrash(q)
  BY DEF PackagesNext
<1>2. RequestKnows(q)
  BY DEF ShopIInv, RequestsKnow
<1>3. CASE ValidateReferences(q)
  <2>1. PICK number \in Numbers \cup {Generated}, auto \in BOOLEAN,
             from \in Rows \cup {NoRow}, to \in Rows :
          request' = [request EXCEPT ![q] =
            [at |-> IF from = NoRow THEN "answered" ELSE "lookup", number |-> number,
             from |-> from, to |-> to, auto |-> auto,
             answer |-> IF from = NoRow THEN "invalid" ELSE Absent]]
    BY <1>3 DEF ValidateReferences
  <2> DEFINE new == [at |-> IF from = NoRow THEN "answered" ELSE "lookup", number |-> number,
                     from |-> from, to |-> to, auto |-> auto,
                     answer |-> IF from = NoRow THEN "invalid" ELSE Absent]
  <2>2. /\ {"at", "number", "from", "to", "auto", "answer"} \subseteq DOMAIN new
        /\ new.at \notin {"assign", "read"} /\ new.answer \in {Absent, "invalid"}
    OBVIOUS
  <2>3. request' = [request EXCEPT ![q] = new]
    BY <2>1
  <2>4. Kept /\ BookingIInv'
    BY <1>3, ParcelsUntouched DEF ValidateReferences
  <2> HIDE DEF new
  <2> QED BY <2>2, <2>3, <2>4, CallBegins
<1>4. CASE LookUpNumber(q)
  <2>1. BookingIInv' /\ Kept
    BY <1>4, ParcelsUntouched DEF LookUpNumber
  <2>2. CASE request' = [request EXCEPT ![q].at = "insert"]
    <3>1. request[q].at # "answered" /\ "insert" \notin {"assign", "read"}
      BY <1>4 DEF LookUpNumber
    <3> QED BY <2>1, <2>2, <3>1, DeliveryGoesOn
  <2>3. CASE Reply(q, "conflict")
    BY <2>1, <2>3, ReplyKeeps
  <2>4. CASE Reply(q, "replayed") /\ \E x \in WithNumber(request[q].number) : MatchesPayload(x, q)
    <3>1. \E x \in parcels : x.key = <<request[q].number>> /\ MatchesPayload(x, q)
      BY <2>4 DEF WithNumber
    <3> QED BY <2>1, <2>4, <3>1, ReplyKeeps
  <2> QED BY <1>4, <2>2, <2>3, <2>4, <2>1 DEF LookUpNumber
<1>5. CASE InsertPackage(q)
  <2> DEFINE key == Key(request[q].number, q)
             new == Parcel(key, q, request[q].from, request[q].to)
  <2>1. PICK n : key = <<n>>
    BY DEF Key
  <2>2. CASE NumberFree(key)
    <3>1. InsertMany({new})
      BY <1>5, <2>2 DEF InsertPackage
    <3>2. BookingIInv' /\ Kept
      BY <2>1, <2>2, <3>1, PostedIs
    <3>3. new \in parcels' /\ new.call = q /\ new.key = key /\ new.from = request[q].from /\ new.to = request[q].to
      BY <3>1 DEF InsertMany, Parcel
    <3> HIDE DEF new
    <3>4. PICK at \in {"assign", "read"} : request' = [request EXCEPT ![q].at = at]
      BY <1>5, <2>2 DEF InsertPackage
    <3>5. request[q].at # "answered"
      BY <1>5 DEF InsertPackage
    <3> QED BY <3>2, <3>3, <3>4, <3>5, DeliveryGoesOn
  <2>3. CASE ~NumberFree(key)
    <3>1. Reply(q, "conflict") /\ UNCHANGED parcels
      BY <1>5, <2>3 DEF InsertPackage
    <3>2. BookingIInv' /\ Kept
      BY <3>1, ParcelsUntouched
    <3> QED BY <3>1, <3>2, ReplyKeeps
  <2> QED BY <2>2, <2>3
<1>6. CASE AssignPackage(q)
  <2>1. PICK x \in parcels, yes \in BOOLEAN : parcels' = Placed(x, yes)
    BY <1>6 DEF AssignPackage
  <2>2. BookingIInv' /\ Kept
    BY <2>1, PlacedIs
  <2>3. PICK y \in parcels' : /\ y.call = q /\ y.key = Key(request[q].number, q)
                              /\ y.from = request[q].from /\ y.to = request[q].to
    BY <1>2, <1>6, <2>2 DEF AssignPackage, RequestKnows, OwnParcel, Kept, SameParcel
  <2>4. request[q].at # "answered" /\ request' = [request EXCEPT ![q].at = "read"]
    BY <1>6 DEF AssignPackage
  <2> QED BY <2>2, <2>3, <2>4, DeliveryGoesOn
<1>7. CASE AnswerCreated(q)
  <2>1. BookingIInv' /\ Kept
    BY <1>7, ParcelsUntouched DEF AnswerCreated
  <2>2. request[q].number # Generated =>
          \E x \in parcels : x.key = <<request[q].number>> /\ MatchesPayload(x, q)
    BY <1>2, <1>7 DEF AnswerCreated, RequestKnows, OwnParcel, Key, MatchesPayload
  <2> QED BY <1>7, <2>1, <2>2, ReplyKeeps DEF AnswerCreated
<1>8. CASE Unassign(q)
  <2>1. PICK x \in parcels :
          /\ parcels' = Placed(x, FALSE)
          /\ request' = [request EXCEPT ![q] = [NoRequest EXCEPT !.at = "again", !.number = x.key]]
    BY <1>8 DEF Unassign
  <2> DEFINE new == [NoRequest EXCEPT !.at = "again", !.number = x.key]
  <2>2. /\ {"at", "number", "from", "to", "auto", "answer"} \subseteq DOMAIN new
        /\ new.at = "again" /\ new.answer = Absent
    BY DEF NoRequest
  <2>3. BookingIInv' /\ Kept
    BY <2>1, PlacedIs
  <2>4. request' = [request EXCEPT ![q] = new]
    BY <2>1
  <2> HIDE DEF new
  <2> QED BY <2>2, <2>3, <2>4, CallBegins
<1>9. CASE AssignAgain(q)
  <2>1. PICK x \in parcels, yes \in BOOLEAN : parcels' = Placed(x, yes)
    BY <1>9 DEF AssignAgain
  <2>2. BookingIInv' /\ Kept
    BY <2>1, PlacedIs
  <2> QED BY <1>9, <2>2, ReplyKeeps DEF AssignAgain
<1>10. CASE RequestCrash(q)
  <2>1. BookingIInv' /\ Kept
    BY <1>10, ParcelsUntouched DEF RequestCrash
  <2> QED BY <1>10, <2>1, ReplyKeeps DEF RequestCrash
<1> QED BY <1>1, <1>3, <1>4, <1>5, <1>6, <1>7, <1>8, <1>9, <1>10

-----------------------------------------------------------------------------
(* The storefront, the packages API and the dashboard, in any order.       *)

LEMMA CustomersStay ==
  ASSUME CustomersIInv, UNCHANGED <<customerVars, handler>>
  PROVE  CustomersIInv' /\ StrongerStep
<1>1. RowsTyped' /\ StrongerStep
  BY RowsSame DEF CustomersIInv, customerVars
<1>2. JobsKnow' /\ PartiesKnown'
  BY DEF CustomersIInv, customerVars, JobsKnow, JobKnows, PartiesKnown, Rows
<1> QED BY <1>1, <1>2 DEF CustomersIInv

LEMMA BookingKeeps ==
  ASSUME ShopIInv, BookingNext, UNCHANGED <<job, request>>
  PROVE  ShopIInv' /\ StrongerStep
<1> USE DEF ShopIInv
<1>1. CASE /\ \/ \E s \in Sessions : Pay(s) \/ StorePending(s) \/ PayCrash(s) \/ CustomerPays(s)
              \/ DepotOpens
              \/ \E d \in Deliveries : \/ \E s \in Sessions : Deliver(d, s)
                                       \/ ReadPayment(d) \/ HandlerCrash(d) \/ Redeliver(d)
           /\ UNCHANGED <<parcels, row>>
  <2>1. UNCHANGED <<parcels, customerVars>>
    BY <1>1 DEF customerVars
  <2>2. ASSUME DepotOpens
        PROVE  CustomersIInv' /\ BookingIInv'
    <3>1. UNCHANGED <<basket, checkout, atStripe, payment, handler>>
      BY <2>2 DEF DepotOpens
    <3>2. SessionsTyped' /\ StoredOnce'
      BY <3>1 DEF BookingIInv, SessionsTyped, StoredOnce
    <3> QED BY <2>1, <3>1, <3>2, SessionMoves
  <2>3. CustomersIInv' /\ BookingIInv'
    BY <1>1, <2>1, <2>2, SitesKeep, DeliveriesKeep
  <2>4. RequestsKnow'
    BY <2>1, RequestsStay DEF Kept, SameParcel
  <2>5. StrongerStep
    BY <1>1, RowsSame DEF CustomersIInv
  <2> QED BY <2>3, <2>4, <2>5
<1>2. CASE /\ \E d \in Deliveries : UpsertSender(d) \/ UpsertReceiver(d) \/ SyncToStripe(d) \/ PartiesWritten(d)
           /\ UNCHANGED <<parcels, basket, checkout, atStripe, payment, depots>>
  <2>1. CustomersIInv' /\ BookingIInv' /\ StrongerStep
    BY <1>2, PartiesKeep
  <2>2. RequestsKnow'
    BY <1>2, RequestsStay DEF Kept, SameParcel
  <2> QED BY <2>1, <2>2
<1>3. CASE (\E d \in Deliveries : Fulfil(d) \/ AssignCreated(d)) /\ UNCHANGED row
  <2>1. CustomersIInv' /\ BookingIInv' /\ Kept
    BY <1>3, FulfilKeeps DEF customerVars
  <2>2. RequestsKnow'
    BY <2>1, RequestsStay
  <2>3. StrongerStep
    BY <1>3, RowsSame DEF CustomersIInv
  <2> QED BY <2>1, <2>2, <2>3
<1> QED BY <1>1, <1>2, <1>3 DEF BookingNext

LEMMA ShopBegins == ShopInit => ShopIInv
<1> SUFFICES ASSUME ShopInit PROVE ShopIInv
  OBVIOUS
<1> USE DEF ShopInit
<1>1. parcels = {} /\ row = [r \in RowIds |-> NoRow] /\ Rows = {}
  BY DEF PackagesInit, CustomersInit, Rows
<1>2. handler = [d \in Deliveries |-> NoHandler]
  BY DEF BookingInit
<1>3. /\ NoHandler.at = "idle" /\ DOMAIN NoHandler.rows = {} /\ NoHandler.linking = {}
      /\ {"at", "session", "rows", "linking"} \subseteq DOMAIN NoHandler
  BY DEF NoHandler
<1>4. RowsTyped /\ PartiesKnown
  BY <1>1, <1>2, <1>3 DEF RowsTyped, PartiesKnown
<1>5. JobsKnow
  BY DEF CustomersInit, JobsKnow, JobKnows, Idle
<1>6. HandlersTyped /\ HandlersKnow
  BY <1>2, <1>3 DEF HandlersTyped, HandlersKnow, HandlerKnows, Working
<1>7. SessionsTyped /\ StoredOnce
  BY DEF BookingInit, SessionsTyped, StoredOnce
<1>8. KeysName
  BY <1>1 DEF KeysName
<1>9. \A s \in Sessions : payment[s].status # "completed" /\ MadeFor(s) = {}
  BY <1>1 DEF BookingInit, MadeFor
<1>10. Made
  BY <1>1, <1>9 DEF Made
<1>11. \A q \in Posts : request[q] = NoRequest
  BY DEF PackagesInit
<1>12. RequestsKnow
  BY <1>11, BookingAssumption DEF PackagesInit, RequestsKnow, RequestKnows, NoRequest
<1> QED BY <1>4, <1>5, <1>6, <1>7, <1>8, <1>10, <1>12 DEF ShopIInv, CustomersIInv, BookingIInv

LEMMA ShopStep == ShopIInv /\ [ShopNext]_shopVars => ShopIInv' /\ StrongerStep
<1> SUFFICES ASSUME ShopIInv, [ShopNext]_shopVars PROVE ShopIInv' /\ StrongerStep
  OBVIOUS
<1>1. CASE BookingNext /\ UNCHANGED <<job, request>>
  BY <1>1, BookingKeeps
<1>2. CASE PackagesNext /\ UNCHANGED <<customerVars, bookingVars>>
  <2>1. CustomersIInv' /\ StrongerStep
    BY <1>2, CustomersStay DEF ShopIInv, bookingVars
  <2> QED BY <1>2, <2>1, PackagesKeep DEF ShopIInv
<1>3. CASE CustomersNext /\ UNCHANGED <<packageVars, bookingVars>>
  <2>1. UNCHANGED <<parcels, request, handler, bookingVars>>
    BY <1>3 DEF packageVars, bookingVars
  <2>2. CustomersIInv' /\ StrongerStep
    BY <1>3, <2>1, CustomersKeep DEF ShopIInv
  <2>3. BookingIInv' /\ RequestsKnow'
    BY <2>1, ParcelsUntouched, RequestsStay DEF ShopIInv
  <2> QED BY <2>2, <2>3 DEF ShopIInv
<1>4. CASE UNCHANGED shopVars
  <2>1. UNCHANGED <<parcels, request, handler, customerVars, bookingVars>>
    BY <1>4 DEF shopVars, packageVars, bookingVars, customerVars
  <2>2. CustomersIInv' /\ StrongerStep
    BY <2>1, CustomersStay DEF ShopIInv
  <2>3. BookingIInv' /\ RequestsKnow'
    BY <2>1, ParcelsUntouched, RequestsStay DEF ShopIInv
  <2> QED BY <2>2, <2>3 DEF ShopIInv
<1> QED BY <1>1, <1>2, <1>3, <1>4 DEF ShopNext

-----------------------------------------------------------------------------
(* As many parcels as receivers: a key names a receiver, and a parcel.     *)
LEMMA OneEach ==
  ASSUME KeysName, NEW s \in Sessions, NEW d \in Deliveries, MadeBy(s, d)
  PROVE  /\ Cardinality(MadeFor(s)) = Cardinality(Receivers[s])
         /\ Cardinality({x.call : x \in MadeFor(s)}) = 1
<1> DEFINE made == MadeFor(s)
           f == [p \in Receivers[s] |-> CHOOSE x \in made : x.key = <<d, p>>]
<1>1. /\ \A x \in made : x.call = d /\ x \in parcels
      /\ \A x \in made : \E p \in Receivers[s] : x.key = <<d, p>>
      /\ \A p \in Receivers[s] : \E x \in made : x.key = <<d, p>>
  BY DEF MadeBy, MadeFor
<1> HIDE DEF made
<1>2. Receivers[s] # {} /\ IsFiniteSet(Receivers[s])
  BY BookingAssumption
<1>3. \A p \in Receivers[s] : f[p] \in made /\ f[p].key = <<d, p>>
  BY <1>1
<1>4. f \in [Receivers[s] -> made]
  BY <1>3
<1>5. ASSUME NEW p \in Receivers[s], NEW q \in Receivers[s], f[p] = f[q]
      PROVE  p = q
  <2>1. <<d, p>> = <<d, q>>
    BY <1>3, <1>5
  <2> QED BY <2>1, KeysDiffer
<1>6. \A x \in made : \E p \in Receivers[s] : f[p] = x
  <2> TAKE x \in made
  <2>1. PICK p \in Receivers[s] : x.key = <<d, p>>
    BY <1>1
  <2>2. f[p] \in made /\ f[p].key = x.key
    BY <1>3, <2>1
  <2>3. f[p] = x
    BY <1>1, <2>2 DEF KeysName
  <2> WITNESS p \in Receivers[s]
  <2> QED BY <2>3
<1>7. DOMAIN f = Receivers[s]
  OBVIOUS
<1> HIDE DEF f
<1>8. f \in Bijection(Receivers[s], made)
  BY <1>4, <1>5, <1>6, <1>7 DEF Bijection, Injection, Surjection, IsInjective
<1>9. Cardinality(made) = Cardinality(Receivers[s])
  BY <1>2, <1>8, FS_Bijection DEF ExistsBijection
<1>10. {x.call : x \in made} = {d}
  BY <1>1, <1>2
<1> QED BY <1>9, <1>10, FS_Singleton DEF made

LEMMA OrdersOnce == ShopIInv => EveryOrderOnce
<1> SUFFICES ASSUME ShopIInv PROVE EveryOrderOnce
  OBVIOUS
<1>1. PaidOnce
  <2>1. ASSUME NEW s \in Sessions
        PROVE  IF payment[s].status = "completed"
               THEN /\ atStripe[s] = "paid"
                    /\ Cardinality({x.call : x \in MadeFor(s)}) = 1
                    /\ Cardinality(MadeFor(s)) = Cardinality(Receivers[s])
               ELSE MadeFor(s) = {}
    BY OneEach DEF ShopIInv, BookingIInv, Made
  <2> QED BY <2>1 DEF PaidOnce, MadeFor, DeliveriesOf
<1>2. PostedOnce
  BY DEF ShopIInv, BookingIInv, KeysName, RequestsKnow, RequestKnows, PostedOnce
<1> QED BY <1>1, <1>2 DEF EveryOrderOnce

(* For any number of bookings, receivers, deliveries and posts, with the   *)
(* dashboard at work: a paid booking's parcels are made once, one for each *)
(* receiver, and a tracking number names one package.                      *)
THEOREM OrdersAreMadeOnce == ShopSpec => []EveryOrderOnce
<1>1. ShopSpec => []ShopIInv
  BY ShopBegins, ShopStep, PTL DEF ShopSpec
<1> QED BY <1>1, OrdersOnce, PTL

(* Whatever writes a customer's row meanwhile, its details are replaced    *)
(* only by those of an identity at least as strong.                        *)
THEOREM IdentitiesStand == ShopSpec => StrongerIdentityStands
<1>1. ShopSpec => []ShopIInv
  BY ShopBegins, ShopStep, PTL DEF ShopSpec
<1>2. ShopIInv /\ [ShopNext]_shopVars => [StrongerStep]_customerVars
  BY ShopStep
<1>3. ShopSpec => [][StrongerStep]_customerVars
  BY <1>1, <1>2, PTL DEF ShopSpec
<1> QED BY <1>3 DEF StrongerIdentityStands, StrongerStep

=============================================================================
