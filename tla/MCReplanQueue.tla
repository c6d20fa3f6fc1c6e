--------------------------- MODULE MCReplanQueue ---------------------------
(* Two replicas, one shift, two messages of which an older release may have *)
(* left one.                                                               *)
EXTENDS ReplanQueue, TLC

CONSTANTS s1, r1, r2

MCLeftovers == {<<>>, <<OnDemand>>, <<Nightly>>}
=============================================================================
