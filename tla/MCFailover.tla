----------------------------- MODULE MCFailover -----------------------------
(* Instances of Failover for TLC.                                          *)
EXTENDS Failover

CONSTANTS s1, s2, m1, m2, mixed, text, e1, e2

FromM1 == [d \in {mixed, text} |-> m1]

(* Shadows, and events, are interchangeable.                               *)
Symmetry == Permutations({s1, s2}) \cup Permutations({e1, e2})
=============================================================================
