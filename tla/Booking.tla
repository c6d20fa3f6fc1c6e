------------------------------ MODULE Booking ------------------------------
(***************************************************************************)
(* A public booking from its quote to its parcels: BookingService.pay      *)
(* opens a Checkout Session at Stripe and stores a pending payment, the    *)
(* customer pays at Stripe, and Stripe delivers the event, as often as it  *)
(* is not answered and sometimes again, to PaymentsService, which writes   *)
(* the customers one by one and then, in one transaction, the packages and *)
(* the completed payment (src/services/booking.service.ts,             *)
(* src/payments/payments.service.ts).                                  *)
(***************************************************************************)
EXTENDS Packages, FiniteSetsExt

CONSTANTS Sessions,     \* checkout sessions, one a booking
          Sender, Receivers, \* the people of each booking
          Deliveries,   \* deliveries of Stripe's events
          Catalogue,    \* the products on sale
          Distance, Weight  \* of each booking, in km and kg

Names == {p.name : p \in Clients}

(* The links a row may have: made for its id, or for a party of a booking. *)
Links == {Absent} \cup ({"create", "update"} \X RowIds) \cup (Sessions \X Names)

CustomerRow ==
  [name : Names, phone : {p.phone : p \in Clients}, email : {p.email : p \in Clients},
   place : {p.place : p \in Clients}, geo : {p.geo : p \in Clients}, stripe : Links, external : BOOLEAN]

ASSUME BookingAssumption ==
  /\ Sender \in [Sessions -> Clients]
  /\ Receivers \in [Sessions -> SUBSET Clients]
  /\ \A s \in Sessions : Receivers[s] # {} /\ IsFiniteSet(Receivers[s])
  /\ Deliveries \cap Posts = {}
  /\ NoRow \notin CustomerRow
  /\ Absent \notin {"created", "replayed"}

VARIABLES basket,       \* what each booking orders
          checkout,     \* BookingService.pay: "no", "opened", "stored", "refused", "lost"
          atStripe,     \* the session at Stripe
          payment,      \* the row of stripe.payments
          depots,       \* the organisation has a warehouse
          handler       \* the webhook calls under way

bookingVars == <<basket, checkout, atStripe, payment, depots, handler>>

NoHandler == [at |-> "idle", session |-> Absent, rows |-> <<>>, linking |-> {}]

BookingInit ==
  /\ basket = [s \in Sessions |-> {}]
  /\ checkout = [s \in Sessions |-> "no"]
  /\ atStripe = [s \in Sessions |-> "none"]
  /\ payment = [s \in Sessions |-> [status |-> "none", amount |-> 0]]
  /\ depots \in BOOLEAN
  /\ handler = [d \in Deliveries |-> NoHandler]

-----------------------------------------------------------------------------
(* loadItems: one service on sale, and add-ons that are that service's.    *)
Orderable(items) ==
  \E x \in items :
    /\ x.kind = "service"
    /\ items \subseteq Catalogue
    /\ \A y \in items \ {x} : y.kind = "addon" /\ y.parent = x.name

(* quantityForUnit, in thousandths.  MI_PER_KM and LB_PER_KG.              *)
Quantity(unit, s) ==
  CASE unit = "per_recipient" -> 1000 * Cardinality(Receivers[s])
    [] unit = "per_km" -> 1000 * Distance[s]
    [] unit = "per_mi" -> 621 * Distance[s]
    [] unit = "per_kg" -> 1000 * Weight[s]
    [] unit = "per_lb" -> 2205 * Weight[s]
    [] OTHER -> 1000

(* computeLines: each line is rounded to the minor unit, half up, before   *)
(* the lines are added.                                                    *)
Line(x, s) == (x.amount * Quantity(x.unit, s) + 500) \div 1000

Quote(items, s) == MapThenSumSet(LAMBDA x : Line(x, s), items)

NeedsDistance(items) == \E x \in items : x.unit \in {"per_km", "per_mi"}

(* getRouteDistanceKm: 503 when the routing service has no answer.         *)
DistanceKnown(items, reachable) == NeedsDistance(items) => reachable

(* normalizeBookingPhones: everybody's phone is a number, or 400.          *)
PhonesValid(s) == \A p \in {Sender[s]} \cup Receivers[s] : p.phone # Absent

-----------------------------------------------------------------------------
(* pay, to the answer of sessions.create: the items, the distance service  *)
(* and the phones are checked before anything can be charged.              *)
Pay(s) ==
  /\ checkout[s] = "no"
  /\ \E items \in SUBSET Catalogue, reachable \in BOOLEAN :
       IF /\ Orderable(items)
          /\ DistanceKnown(items, reachable)
          /\ PhonesValid(s)
       THEN /\ basket' = [basket EXCEPT ![s] = items]
            /\ checkout' = [checkout EXCEPT ![s] = "opened"]
            /\ atStripe' = [atStripe EXCEPT ![s] = "open"]
       ELSE /\ checkout' = [checkout EXCEPT ![s] = "refused"]
            /\ UNCHANGED <<basket, atStripe>>
  /\ UNCHANGED <<payment, depots, handler>>

(* The pending payment, with the session's own total.                      *)
StorePending(s) ==
  /\ checkout[s] = "opened"
  /\ payment' = [payment EXCEPT ![s] = [status |-> "pending", amount |-> Quote(basket[s], s)]]
  /\ checkout' = [checkout EXCEPT ![s] = "stored"]
  /\ UNCHANGED <<basket, atStripe, depots, handler>>

(* The process goes down between Stripe's answer and the insert.           *)
PayCrash(s) ==
  /\ checkout[s] = "opened"
  /\ checkout' = [checkout EXCEPT ![s] = "lost"]
  /\ UNCHANGED <<basket, atStripe, payment, depots, handler>>

(* Stripe: the session is paid at once, or later, or never.                *)
CustomerPays(s) ==
  /\ \/ atStripe[s] = "open" /\ \E x \in {"paid", "processing"} : atStripe' = [atStripe EXCEPT ![s] = x]
     \/ atStripe[s] = "processing" /\ \E x \in {"paid", "failed"} : atStripe' = [atStripe EXCEPT ![s] = x]
  /\ UNCHANGED <<basket, checkout, payment, depots, handler>>

DepotOpens == /\ ~depots /\ depots' = TRUE
              /\ UNCHANGED <<basket, checkout, atStripe, payment, handler>>

-----------------------------------------------------------------------------
Step(d, at) == handler' = [handler EXCEPT ![d].at = at]

(* Stripe delivers the session's event.  An event of a session that is not *)
(* paid yet is answered and does nothing (handle).                         *)
Deliver(d, s) ==
  /\ handler[d].at = "idle"
  /\ atStripe[s] \in {"paid", "processing"}
  /\ handler' = [handler EXCEPT ![d] =
       [NoHandler EXCEPT !.at = IF atStripe[s] = "paid" THEN "read" ELSE "done", !.session = s]]
  /\ UNCHANGED <<basket, checkout, atStripe, payment, depots>>

(* Step 1, unlocked: 404 before our own insert, so that Stripe comes back; *)
(* nothing to do when another delivery has been through.                   *)
ReadPayment(d) ==
  /\ handler[d].at = "read"
  /\ Step(d, CASE payment[handler[d].session].status = "none" -> "failed"
               [] payment[handler[d].session].status = "completed" -> "done"
               [] OTHER -> "sender")
  /\ UNCHANGED <<basket, checkout, atStripe, payment, depots>>

(* upsertFromBooking: the row, then, best effort, its Stripe customer.     *)
UpsertFromBooking(d, p) ==
  /\ \E id \in UpsertTargets(p) :
       /\ UpsertCustomerRow(p, id)
       /\ handler' = [handler EXCEPT
            ![d].rows = [x \in DOMAIN @ \cup {p} |-> IF x = p THEN id ELSE @[x]],
            ![d].linking = IF PaymentsOn THEN @ \cup {p} ELSE @]

(* Step 2: the sender is awaited, the receivers are written side by side.  *)
UpsertSender(d) ==
  /\ handler[d].at = "sender"
  /\ Sender[handler[d].session] \notin DOMAIN handler[d].rows
  /\ UpsertFromBooking(d, Sender[handler[d].session])

UpsertReceiver(d) ==
  /\ handler[d].at = "receivers"
  /\ \E p \in Receivers[handler[d].session] \ DOMAIN handler[d].rows : UpsertFromBooking(d, p)

SyncToStripe(d) ==
  \E p \in handler[d].linking :
    /\ \/ LinkTo(handler[d].rows[p], <<handler[d].session, p.name>>)
       \/ UNCHANGED row
    /\ handler' = [handler EXCEPT ![d].linking = @ \ {p}]

PartiesWritten(d) ==
  /\ handler[d].linking = {}
  /\ \/ /\ handler[d].at = "sender"
        /\ Sender[handler[d].session] \in DOMAIN handler[d].rows
        /\ Step(d, "receivers")
     \/ /\ handler[d].at = "receivers"
        /\ Receivers[handler[d].session] \subseteq DOMAIN handler[d].rows
        /\ Step(d, "fulfil")
  /\ UNCHANGED row

-----------------------------------------------------------------------------
(* Mutant: the status is not read again under the lock.                    *)
PaidAlreadyUnlocked(s) == FALSE

(* The re-check under the payment's lock.                                  *)
PaidAlready(s) == payment[s].status = "completed"

ParcelsOf(d) ==
  {Parcel(<<d, p>>, d, handler[d].rows[Sender[handler[d].session]], handler[d].rows[p]) :
     p \in Receivers[handler[d].session]}

(* Step 3, one transaction: no depot to collect from fails it, to be tried *)
(* again; else one package a receiver and the completed payment.           *)
Fulfil(d) ==
  /\ handler[d].at = "fulfil"
  /\ LET s == handler[d].session IN
       \/ /\ PaidAlready(s)
          /\ Step(d, "done")
          /\ UNCHANGED <<parcels, payment>>
       \/ /\ ~PaidAlready(s) /\ ~depots
          /\ Step(d, "failed")
          /\ UNCHANGED <<parcels, payment>>
       \/ /\ ~PaidAlready(s) /\ depots
          /\ InsertMany(ParcelsOf(d))
          /\ payment' = [payment EXCEPT ![s].status = "completed"]
          /\ Step(d, "assign")
  /\ UNCHANGED <<basket, checkout, atStripe, depots>>

(* assignCreated goes through the packages one by one; a shift takes one   *)
(* or it is deferred, and the first throw ends the loop.                   *)
PlaceSome(mine) ==
  \E taken \in SUBSET mine :
    parcels' = (parcels \ taken) \cup {[x EXCEPT !.placed = TRUE] : x \in taken}

(* Step 4, after the commit: what assignCreated throws is swallowed.       *)
AssignCreated(d) ==
  /\ handler[d].at = "assign"
  /\ PlaceSome({x \in parcels : x.call = d})
  /\ Step(d, "done")
  /\ UNCHANGED <<basket, checkout, atStripe, payment, depots>>

HandlerCrash(d) ==
  /\ handler[d].at \notin {"idle", "done", "failed"}
  /\ handler' = [handler EXCEPT ![d] = [NoHandler EXCEPT !.at = "failed", !.session = handler[d].session]]
  /\ UNCHANGED <<basket, checkout, atStripe, payment, depots>>

(* An answer that was not 2xx, and now and then one that was: again.       *)
Redeliver(d) ==
  /\ handler[d].at = "failed"
  /\ handler' = [handler EXCEPT ![d] = [NoHandler EXCEPT !.at = "read", !.session = handler[d].session]]
  /\ UNCHANGED <<basket, checkout, atStripe, payment, depots>>

BookingNext ==
  \/ /\ \/ \E s \in Sessions : Pay(s) \/ StorePending(s) \/ PayCrash(s) \/ CustomerPays(s)
        \/ DepotOpens
        \/ \E d \in Deliveries : \/ \E s \in Sessions : Deliver(d, s)
                                 \/ ReadPayment(d) \/ HandlerCrash(d) \/ Redeliver(d)
     /\ UNCHANGED <<parcels, row>>
  \/ /\ \E d \in Deliveries : UpsertSender(d) \/ UpsertReceiver(d) \/ SyncToStripe(d) \/ PartiesWritten(d)
     /\ UNCHANGED <<parcels, basket, checkout, atStripe, payment, depots>>
  \/ (\E d \in Deliveries : Fulfil(d) \/ AssignCreated(d)) /\ UNCHANGED row

(* An organisation's storefront, its packages API and its dashboard.       *)
ShopInit == CustomersInit /\ PackagesInit /\ BookingInit

ShopNext ==
  \/ BookingNext /\ UNCHANGED <<job, request>>
  \/ PackagesNext /\ UNCHANGED <<customerVars, bookingVars>>
  \/ CustomersNext /\ UNCHANGED <<packageVars, bookingVars>>

shopVars == <<customerVars, packageVars, bookingVars>>

ShopSpec == ShopInit /\ [][ShopNext]_shopVars

-----------------------------------------------------------------------------
(* A booking's parcels exist exactly when its payment is completed, one a  *)
(* receiver, from the sender's row to the receivers', and never before the *)
(* customer has paid: under repeated and concurrent deliveries, a delivery *)
(* before the pending payment is stored, and a crash at any step.          *)
PaidOnce ==
  \A s \in Sessions :
    LET calls == {d \in Deliveries : handler[d].session = s}
        made == {x \in parcels : x.call \in calls}
    IN IF payment[s].status = "completed"
       THEN /\ atStripe[s] = "paid"
            /\ Cardinality({x.call : x \in made}) = 1
            /\ Cardinality(made) = Cardinality(Receivers[s])
       ELSE made = {}

(* Every order makes its parcels once, paid or posted.                     *)
EveryOrderOnce == PaidOnce /\ PostedOnce
=============================================================================
