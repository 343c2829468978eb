------------------------- MODULE MCOutboundDelivery -------------------------
(* Two deliveries, two replicas, operators who retry.                      *)
EXTENDS OutboundDelivery, TLC

CONSTANTS d1, d2, r1, r2, o1, o2

\* Rows are interchangeable, and so are replicas and operators.
MCSymmetry == Permutations(Deliveries) \cup Permutations(Replicas) \cup Permutations(Operators)
=============================================================================
