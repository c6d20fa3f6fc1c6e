----------------------------- MODULE MCMetering -----------------------------
(* Two shifts, of one organisation or of two, and two drains at a time.    *)
EXTENDS Metering

CONSTANTS i1, i2, o1, o2, d1, d2, n1, n2

(* The names of the organisations are interchangeable.                     *)
MCOwners == {[i \in Rows |-> o1], [i \in Rows |-> IF i = i1 THEN o1 ELSE o2]}

=============================================================================
