----------------------------- MODULE MCBooking -----------------------------
(* One booking from a sender to two receivers, one of whom shares his      *)
(* phone; two deliveries of its event; a dashboard or storefront request   *)
(* beside them, which may find two customers there.                        *)
EXTENDS Booking, TLC

CONSTANTS k1, k2, k3, b1, e1, e2, q1, q2, j1, j2, h1, h2, m1, n1, n2, x1, x2, x3, x4, x5

MCClient(name, phone, email, place, geo) ==
  [name |-> name, phone |-> phone, email |-> email, place |-> place, geo |-> geo]

MCSender == MCClient(n1, h1, m1, x1, Absent)
MCFriend == MCClient(n2, h2, Absent, x2, Absent)
MCColleague == MCClient(n2, h1, Absent, x5, Absent)
MCMailed == MCClient(n1, Absent, m1, x3, Absent)
MCPlaced == MCClient(n1, Absent, Absent, x4, x4)
MCClients == {MCSender, MCFriend, MCColleague, MCMailed, MCPlaced}

MCSenders == [b \in Sessions |-> MCSender]
MCReceivers == [b \in Sessions |-> {MCFriend, MCColleague}]

MCCatalogue == {[name |-> "van", kind |-> "service", parent |-> "van", unit |-> "per_mi", amount |-> 55],
                [name |-> "lift", kind |-> "addon", parent |-> "van", unit |-> "per_recipient", amount |-> 30],
                [name |-> "rush", kind |-> "addon", parent |-> "bike", unit |-> "per_kg", amount |-> 10]}
MCDistance == [b \in Sessions |-> 7]
MCWeight == [b \in Sessions |-> 2]

Known ==
  /\ Rows = {}
  /\ row' = [row EXCEPT ![k1] = Inserted(MCSender), ![k2] = Inserted(MCFriend)]
  /\ UNCHANGED job
=============================================================================
