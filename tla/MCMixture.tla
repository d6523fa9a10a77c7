------------------------------ MODULE MCMixture ------------------------------
(* Instances of Mixture for TLC.  Agent a signs two frames for its second  *)
(* step and agent b two for its first; the frames are on two sides of one  *)
(* claim, from sources that overlap in every way the selection tells apart. *)
EXTENDS Mixture

CONSTANTS a, b, a0, a1, a1x, a2, a3, b0, b0x, b1, b2, yes, no, p, q, r1, r2

AllFrames == {a0, a1, a1x, a2, a3, b0, b0x, b1, b2}

(* Frames of honest agents, few enough for two replicas. *)
HonestFrames == {a0, a1, a2, b0}

MCAgentOf == [f \in Frames |-> IF f \in {b0, b0x, b1, b2} THEN b ELSE a]

MCStepOf ==
  [f \in Frames |-> CASE f \in {a0, b0, b0x} -> 0
                      [] f \in {a1, a1x, b1} -> 1
                      [] f \in {a2, b2} -> 2
                      [] f = a3 -> 3]

MCRank ==
  [f \in Frames |-> CASE f = b0 -> 1 [] f = a1 -> 2 [] f = a1x -> 3 [] f = a2 -> 4
                      [] f = b1 -> 5 [] f = a0 -> 6 [] f = b2 -> 7 [] f = b0x -> 8
                      [] f = a3 -> 9]

MCTopic == [f \in Frames |-> IF f \in {a1, a1x} THEN no ELSE yes]

MCProvenance ==
  [f \in Frames |-> CASE f \in {b0, a2} -> {p}
                      [] f = a0 -> {p, q}
                      [] OTHER -> {q}]
=============================================================================
