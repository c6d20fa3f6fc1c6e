----------------------------- MODULE MCRequests -----------------------------
(***************************************************************************)
(* What is asked of the program from outside: the orders that come from    *)
(* the storefront, the packages API and the dashboard, the wizard and the  *)
(* button, the organisation's own plan, and its people.                    *)
(* The models share no state: a behaviour is about one of them, its focus. *)
(***************************************************************************)
EXTENDS MCBooking, MCOnDemand, MCSubscription, MCAccounts

VARIABLE focus

RequestsInit ==
  /\ focus \in {"site", "api", "clients", "wizard", "button", "billing", "team"}
  /\ CustomersInit /\ PackagesInit /\ BookingInit /\ OnDemandInit /\ SubscriptionInit /\ AccountsInit
  /\ focus # "site" => ~depots
  /\ focus # "wizard" => home[a1] = d1
  /\ focus # "billing" => org.type = "personal"
  /\ focus # "team" => user = NoUser

orderVars == <<customerVars, packageVars, bookingVars>>
requestVars == <<focus, orderVars, onDemandVars, subscriptionVars, accountVars>>

Orders ==
  \/ focus = "site" /\ BookingNext /\ UNCHANGED <<job, request>>
  \/ /\ focus = "api"
     /\ (Known /\ UNCHANGED packageVars) \/ (PackagesNext /\ UNCHANGED customerVars)
     /\ UNCHANGED bookingVars
  \/ focus = "clients" /\ (Known \/ CustomersNext) /\ UNCHANGED <<packageVars, bookingVars>>

RequestsNext ==
  /\ UNCHANGED focus
  /\ \/ Orders /\ UNCHANGED <<onDemandVars, subscriptionVars, accountVars>>
     \/ /\ \/ focus = "wizard" /\ (WizardNext \/ RoadNext)
           \/ focus = "button" /\ (ShiftThere \/ TriggerNext \/ RoadNext)
        /\ UNCHANGED <<orderVars, subscriptionVars, accountVars>>
     \/ focus = "billing" /\ SubscriptionNext /\ UNCHANGED <<orderVars, onDemandVars, accountVars>>
     \/ focus = "team" /\ AccountsNext /\ UNCHANGED <<orderVars, onDemandVars, subscriptionVars>>
=============================================================================
