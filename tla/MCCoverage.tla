---- MODULE MCCoverage ----
EXTENDS Coverage, TLC
CONSTANTS oa, ob, wa, wb, d1, d2, d3, a1, a2, g1, g2, g3, x1, x2, cold
MCWarehouseOrg == wa :> oa
MCDriverHome == (d1 :> wa) @@ (d2 :> wa)
MCAreaOrg == (a1 :> oa) @@ (a2 :> oa)
MCCovered == (a1 :> {x1}) @@ (a2 :> {x1})
MCGoodsAt == (g1 :> x1) @@ (g2 :> x2)
MCGoodsHome == (g1 :> wa) @@ (g2 :> wa)
MCGoodsOrg == (g1 :> oa) @@ (g2 :> oa)
MCNeeds == (g1 :> {}) @@ (g2 :> {cold})
MCHolds == (d1 :> {cold}) @@ (d2 :> {})
MCBatches == {{g1, g2}}
MCLiveAtFirst == {{a2}}
MCLinks == {<<d1, a1>>, <<d2, a2>>}
====
