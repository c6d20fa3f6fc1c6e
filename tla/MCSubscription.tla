--------------------------- MODULE MCSubscription ---------------------------
(* Two calls, any of which may overtake the other.                         *)
EXTENDS Subscription, TLC

CONSTANTS c1, c2

MCKinds == c1 :> {"trial", "usage"} @@ c2 :> {"usage", "portal"}
=============================================================================
