---------------------------- MODULE Subscription ----------------------------
(***************************************************************************)
(* An organisation's plan with the platform: the Stripe customer and       *)
(* subscription made the first time anybody asks for its trial, meters its *)
(* shifts or opens the billing portal, Stripe's own transitions, and the   *)
(* webhooks that copy them back.  src/billing/billing.service.ts and the    *)
(* writes of src/organisations/organisations.service.ts.                   *)
(*                                                                         *)
(* Every call makes at most one customer, so a customer goes by its call;  *)
(* each has one subscription, whose items are the base price and the       *)
(* metered shift-overage price.                                            *)
(***************************************************************************)
EXTENDS Integers, FiniteSets

CONSTANTS
  Calls,
  Kinds,          \* of each call: GET billing/trial, the usage reporter, POST billing/portal
  NoCustomer,
  MaxEvents       \* bound: Stripe changes nothing more once it has told so much

ASSUME SubscriptionAssumption ==
  /\ IsFiniteSet(Calls) /\ NoCustomer \notin Calls /\ MaxEvents \in Nat
  /\ Kinds \in [Calls -> SUBSET {"trial", "usage", "portal"}]

VARIABLES
  org,            \* organisations: type, and the cached status
  plan,           \* stripe.organisation_subscriptions
  stripe,         \* customer and subscription, as Stripe has them
  events,         \* webhooks Stripe may deliver, late, again or out of order
  hooks,          \* subscription webhooks between their two statements
  calls,
  metered         \* history: customers usage was posted to, and their items then

subscriptionVars == <<org, plan, stripe, events, hooks, calls, metered>>

NoSubscription == [status |-> "none", items |-> {}, card |-> FALSE]
NoPlan == [customer |-> NoCustomer, pays |-> FALSE, vanity |-> FALSE]
NoCall == [at |-> "idle", kind |-> "none", status |-> "none", customer |-> NoCustomer, entitled |-> FALSE]

(* New companies and personal organisations have no status; a migration    *)
(* gave 'grandfathered' to the companies there were.                       *)
SubscriptionInit ==
  /\ org \in [type : {"company", "personal"}, status : {"none", "grandfathered"}]
  /\ org.type = "personal" => org.status = "none"
  /\ plan = NoPlan
  /\ stripe = [c \in Calls |-> NoSubscription]
  /\ events = {} /\ hooks = {} /\ metered = {}
  /\ calls = [c \in Calls |-> NoCall]

-----------------------------------------------------------------------------
(* What Stripe does, and tells.                                            *)

Entitled(c) == "base" \in stripe[c].items /\ stripe[c].status \in {"trialing", "active", "past_due"}

Told(c) == {[type |-> "subscription", customer |-> c, status |-> stripe'[c].status],
            [type |-> "entitlements", customer |-> c, active |-> Entitled(c)']}

Quiet == Cardinality(events) >= MaxEvents

TrialEnds(c) ==
  /\ ~Quiet
  /\ stripe[c].status = "trialing"
  /\ stripe' = [stripe EXCEPT ![c].status = IF stripe[c].card THEN "active" ELSE "canceled"]
  /\ events' = events \cup Told(c)
  /\ UNCHANGED <<org, plan, hooks, calls, metered>>

(* A billing portal session takes a card.                                  *)
CardAdded(c) ==
  /\ ~Quiet
  /\ calls[c].at = "portal"
  /\ stripe' = [stripe EXCEPT ![calls[c].customer].card = TRUE]
  /\ events' = events \cup {[type |-> "customer", customer |-> calls[c].customer, card |-> TRUE]}
  /\ UNCHANGED <<org, plan, hooks, calls, metered>>

(* An invoice of an active subscription is not paid, and may be after all. *)
InvoiceRetried(c) ==
  /\ ~Quiet
  /\ \/ stripe[c].status = "active" /\ stripe' = [stripe EXCEPT ![c].status = "past_due"]
     \/ stripe[c].status = "past_due"
        /\ \E s \in {"active", "canceled"} : stripe' = [stripe EXCEPT ![c].status = s]
  /\ events' = events \cup Told(c)
  /\ UNCHANGED <<org, plan, hooks, calls, metered>>

-----------------------------------------------------------------------------
(* The calls.  Each reads the organisation first, and goes on with what it *)
(* read.                                                                   *)

At(c, at) == calls[c].at = at
Goto(c, at) == calls' = [calls EXCEPT ![c].at = at]
Ends(c) == calls' = [calls EXCEPT ![c] = [NoCall EXCEPT !.at = "done"]]

NeedsPlan(c) == org.type = "company" /\ calls[c].status = "none"

ReadOrg(c) ==
  /\ At(c, "idle")
  /\ \E kind \in Kinds[c] :
       calls' = [calls EXCEPT ![c] = [NoCall EXCEPT !.at = IF kind = "trial" THEN "ensure" ELSE "plan",
                                                    !.kind = kind, !.status = org.status]]
  /\ UNCHANGED <<org, plan, stripe, events, hooks, metered>>

(* ensureSubscription's early return.                                      *)
NothingToEnsure(c) ==
  /\ At(c, "ensure") /\ ~NeedsPlan(c)
  /\ Ends(c)
  /\ UNCHANGED <<org, plan, stripe, events, hooks, metered>>

(* ensureShiftOverageSubscriptionItem.                                     *)
ReadPlan(c) ==
  /\ At(c, "plan")
  /\ calls' = [calls EXCEPT
       ![c].at = IF plan.customer # NoCustomer THEN "items" ELSE IF NeedsPlan(c) THEN "ensure" ELSE "metered_only",
       ![c].customer = plan.customer]
  /\ UNCHANGED <<org, plan, stripe, events, hooks, metered>>

(* Mutant: the status is cached before the row names the subscription.     *)
SubscribeCached(c) ==
  /\ At(c, "ensure") /\ NeedsPlan(c)
  /\ \E trial \in BOOLEAN :
       stripe' = [stripe EXCEPT ![c].items = {"base"},
                                ![c].status = IF trial THEN "trialing" ELSE "active"]
  /\ events' = events \cup Told(c)
  /\ calls' = [calls EXCEPT ![c].at = "subscribed", ![c].status = stripe'[c].status]
  /\ org' = [org EXCEPT !.status = stripe'[c].status]
  /\ UNCHANGED <<plan, hooks, metered>>

(* ensureSubscription: customers.create and subscriptions.create.  A       *)
(* customer without a subscription is nobody's: the two are one step.  The *)
(* price may come with trial days.                                         *)
Subscribe(c) ==
  /\ At(c, "ensure") /\ NeedsPlan(c)
  /\ \E trial \in BOOLEAN :
       stripe' = [stripe EXCEPT ![c].items = {"base"},
                                ![c].status = IF trial THEN "trialing" ELSE "active"]
  /\ events' = events \cup Told(c)
  /\ calls' = [calls EXCEPT ![c].at = "subscribed", ![c].status = stripe'[c].status]
  /\ UNCHANGED <<org, plan, hooks, metered>>

(* provisionMeteredOnlyBilling, for whom no trial is ever begun.           *)
ProvisionMeteredOnly(c) ==
  /\ At(c, "metered_only")
  /\ stripe' = [stripe EXCEPT ![c].items = {"overage"}, ![c].status = "active"]
  /\ events' = events \cup Told(c)
  /\ Goto(c, "link")
  /\ UNCHANGED <<org, plan, hooks, metered>>

(* setSubscription: an upsert that leaves the two flags as they are.       *)
SetSubscription(c) ==
  /\ At(c, "subscribed") \/ At(c, "link")
  /\ plan' = [plan EXCEPT !.customer = c]
  /\ calls' = [calls EXCEPT ![c].at = IF At(c, "link") THEN "post" ELSE "cache",
                            ![c].customer = IF At(c, "link") THEN c ELSE NoCustomer]
  /\ UNCHANGED <<org, stripe, events, hooks, metered>>

(* updateBillingCache with the answer to subscriptions.create.             *)
UpdateBillingCache(c) ==
  /\ At(c, "cache")
  /\ org' = [org EXCEPT !.status = calls[c].status]
  /\ Goto(c, "vanity")
  /\ UNCHANGED <<plan, stripe, events, hooks, metered>>

(* syncVanityUrlEntitlementForCustomer: what Stripe lists, and the write   *)
(* of it, by when Stripe may have told otherwise.                          *)
ListEntitlements(c) ==
  /\ At(c, "vanity")
  /\ calls' = [calls EXCEPT ![c].at = "entitled", ![c].entitled = Entitled(c)]
  /\ UNCHANGED <<org, plan, stripe, events, hooks, metered>>

UpdateVanity(c) ==
  /\ At(c, "entitled")
  /\ plan' = [plan EXCEPT !.vanity = calls[c].entitled]
  /\ IF calls[c].kind = "trial" THEN Ends(c) ELSE Goto(c, "plan_again")
  /\ UNCHANGED <<org, stripe, events, hooks, metered>>

(* The second getSubscription of the two callers that want a customer.     *)
ReadPlanAgain(c) ==
  /\ At(c, "plan_again")
  /\ calls' = [calls EXCEPT ![c].at = "items", ![c].customer = plan.customer]
  /\ UNCHANGED <<org, plan, stripe, events, hooks, metered>>

(* subscriptionItems.list and create; Stripe adds nothing to a             *)
(* subscription that is over.                                              *)
AttachOverage(c) ==
  LET customer == calls[c].customer IN
  /\ At(c, "items")
  /\ IF "overage" \in stripe[customer].items THEN UNCHANGED stripe
     ELSE /\ stripe[customer].status # "canceled"
          /\ stripe' = [stripe EXCEPT ![customer].items = @ \cup {"overage"}]
  /\ Goto(c, "post")
  /\ UNCHANGED <<org, plan, events, hooks, metered>>

(* billing.meterEvents.create, or the portal session.                      *)
AnswerCall(c) ==
  /\ At(c, "post")
  /\ \/ /\ calls[c].kind = "usage"
        /\ metered' = metered \cup {[customer |-> calls[c].customer, items |-> stripe[calls[c].customer].items]}
        /\ Ends(c)
     \/ calls[c].kind = "portal" /\ Goto(c, "portal") /\ UNCHANGED metered
  /\ UNCHANGED <<org, plan, stripe, events, hooks>>

(* Stripe or the database fails, or the process goes down.                 *)
CallFails(c) ==
  /\ calls[c].at \notin {"idle", "done", "portal"}
  /\ Ends(c)
  /\ UNCHANGED <<org, plan, stripe, events, hooks, metered>>

-----------------------------------------------------------------------------
(* The webhooks.  Bound: one is between its two statements at a time.      *)

SubscriptionHook(e) ==
  /\ e.type = "subscription" /\ hooks = {}
  /\ plan' = [plan EXCEPT !.customer = e.customer]
  /\ hooks' = hooks \cup {e}
  /\ UNCHANGED <<org, stripe, events, calls, metered>>

SubscriptionHookCaches(e) ==
  /\ e \in hooks
  /\ org' = [org EXCEPT !.status = e.status]
  /\ hooks' = hooks \ {e}
  /\ UNCHANGED <<plan, stripe, events, calls, metered>>

SubscriptionHookFails(e) ==
  /\ e \in hooks
  /\ hooks' = hooks \ {e}
  /\ UNCHANGED <<org, plan, stripe, events, calls, metered>>

(* An update of no row is no error.                                        *)
PaymentMethodHook(e) ==
  /\ e.type = "customer" /\ plan.customer # NoCustomer
  /\ plan' = [plan EXCEPT !.pays = e.card]
  /\ UNCHANGED <<org, stripe, events, hooks, calls, metered>>

EntitlementsHook(e) ==
  /\ e.type = "entitlements" /\ plan.customer = e.customer
  /\ plan' = [plan EXCEPT !.vanity = e.active]
  /\ UNCHANGED <<org, stripe, events, hooks, calls, metered>>

SubscriptionNext ==
  \/ \E c \in Calls :
       \/ ReadOrg(c) \/ NothingToEnsure(c) \/ ReadPlan(c) \/ Subscribe(c) \/ ProvisionMeteredOnly(c)
       \/ SetSubscription(c)
       \/ UpdateBillingCache(c) \/ ListEntitlements(c) \/ UpdateVanity(c) \/ ReadPlanAgain(c)
       \/ AttachOverage(c) \/ AnswerCall(c) \/ CallFails(c)
       \/ TrialEnds(c) \/ CardAdded(c) \/ InvoiceRetried(c)
  \/ \E e \in events : \/ SubscriptionHook(e) \/ SubscriptionHookCaches(e) \/ SubscriptionHookFails(e)
                       \/ PaymentMethodHook(e) \/ EntitlementsHook(e)

SubscriptionSpec == SubscriptionInit /\ [][SubscriptionNext]_subscriptionVars

-----------------------------------------------------------------------------
(* However calls, failures and webhooks cross, all the subscriptions an    *)
(* organisation ever gets are of one kind: with a base price, as           *)
(* ensureSubscription makes them, or metered only.  Whoever finds the      *)
(* status set takes the row to name a subscription, or makes a metered one *)
(* that bills no base price.  And the organisations that never go through  *)
(* a trial, the personal ones and the legacy companies, get no base price. *)
OneKindOfPlan ==
  /\ \A c, d \in Calls :
       stripe[c].status # "none" /\ stripe[d].status # "none"
         => ("base" \in stripe[c].items <=> "base" \in stripe[d].items)
  /\ \A c \in Calls :
       "base" \in stripe[c].items => org.type = "company" /\ org.status # "grandfathered"

(* Usage is posted to a customer whose subscription carries the metered    *)
(* price by then, be it this call's, another's or a webhook's; whether     *)
(* that subscription is over nobody looks at, here as in                   *)
(* ensureShiftOverageSubscriptionItem.                                     *)
MeteredWhereAttached == \A m \in metered : "overage" \in m.items
=============================================================================
