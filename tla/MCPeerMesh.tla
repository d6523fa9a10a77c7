----------------------------- MODULE MCPeerMesh -----------------------------
(* An instance of PeerMesh for TLC: two logit offers of different          *)
(* vocabularies and one score, and a text offer.                           *)
EXTENDS PeerMesh, TLC

CONSTANTS a, b, g, x, y

\* the peers that stay, and the experts, are alike
Alike == Permutations(Core) \cup Permutations(ExpertIds)

MCOffers ==
  {[kind |-> "logit", vocabId |-> "u", size |-> 2, score |-> 1],
   [kind |-> "logit", vocabId |-> "v", size |-> 3, score |-> 1],
   [kind |-> "text", vocabId |-> "none", size |-> 0, score |-> 2]}
=============================================================================
