---- MODULE MCInsertion ----
EXTENDS Insertion
CONSTANT unset
MCAt == <<100, 200, -100>>
MCWeight == <<1, 2, 1>>
MCDeadline == <<unset, 600, unset>>
MCOld == <<FALSE, FALSE, FALSE>>
Tiring == [NoLimits EXCEPT !["driving"] = 540]
Near == [NoLimits EXCEPT !["distance"] = 540, !["stops"] = 2]
Short == [NoLimits EXCEPT !["working"] = 1090]
MCPolicies == {[enabled |-> TRUE, deleted |-> {}, default |-> x[1], profile |-> x[2]]
                 : x \in {<<Short, <<unset, Near>>>>, <<unset, <<Tiring, unset>>>>}}
====
