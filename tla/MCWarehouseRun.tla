--------------------------- MODULE MCWarehouseRun ---------------------------
EXTENDS WarehouseRun, TLC
CONSTANTS p1, p2, v1, v2, w1, w2
Sym == Permutations({v1,v2})
=============================================================================
