---------------------------- MODULE MCGovernance ----------------------------
(* An instance of Governance for TLC.  Four agents support two actions:    *)
(* agent 4 runs agent 1's operator, agent 2 contradicts itself in two      *)
(* supports, one support is forged and one expires early.  The verifiers   *)
(* are 11, 12 and the contributor 13; 11 gives both stances.               *)
EXTENDS Governance

Lineage(provider, arch, model) ==
  [provider |-> provider, arch |-> arch, sizeClass |-> "M", modelId |-> model, accuracyBand |-> NoBand]

Base ==
  [agentId |-> 1, principalId |-> "p1", modelId |-> 1, sourceIds |-> {"s1"},
   evidenceHashes |-> {"e1"}, calibration |-> 50, risk |-> 10, action |-> "deploy",
   lineage |-> Lineage("meta", "llama", 1), issuedAt |-> 0, expiresAt |-> 3, signed |-> TRUE]

MCSupport ==
  [n \in Supports |->
     CASE n = "one" -> Base
       [] n = "two" -> [Base EXCEPT !.agentId = 2, !.principalId = "p2", !.modelId = 2,
                          !.sourceIds = {"s2"}, !.evidenceHashes = {"e2"}, !.calibration = 60,
                          !.lineage = Lineage("google", "gemini", 2)]
       [] n = "twoRisky" -> [Base EXCEPT !.agentId = 2, !.principalId = "p2", !.modelId = 5,
                          !.sourceIds = {"s2", "s3"}, !.evidenceHashes = {"e5"}, !.risk = 70,
                          !.lineage = Lineage("meta", "gemini", 1)]
       [] n = "three" -> [Base EXCEPT !.agentId = 3, !.principalId = "p3", !.modelId = 3,
                          !.sourceIds = {"s3"}, !.evidenceHashes = {"e3"}, !.lineage = <<>>,
                          !.expiresAt = 2]
       [] n = "four" -> [Base EXCEPT !.agentId = 4, !.modelId = 4, !.sourceIds = {"s4"},
                          !.evidenceHashes = {"e4"}, !.calibration = 70,
                          !.lineage = Lineage("mistral", "mixtral", 4)]
       [] n = "other" -> [Base EXCEPT !.agentId = 3, !.action = "delete", !.risk = 90]
       [] n = "forged" -> [Base EXCEPT !.agentId = 4, !.signed = FALSE]]

MCAttestation ==
  [n \in Attestations |->
     CASE n = "x" -> [signer |-> "x", lineage |-> Lineage("meta", "llama", 1), signed |-> TRUE]
       [] n = "xAgain" -> [signer |-> "x", lineage |-> Lineage("google", "gemini", 9), signed |-> TRUE]
       [] n = "y" -> [signer |-> "y", lineage |-> Lineage("meta", "llama", 2), signed |-> TRUE]
       [] n = "z" -> [signer |-> "z", lineage |-> Lineage("google", "gemini", 3), signed |-> TRUE]
       [] n = "zForged" -> [signer |-> "z", lineage |-> Lineage("openai", "gpt", 4), signed |-> FALSE]]

Says(verifier, hash, stance) ==
  [verifierId |-> verifier, outcomeHash |-> hash, stance |-> stance, verified |-> TRUE, signed |-> TRUE]

MCVerdict ==
  [n \in Verdicts |->
     CASE n = "a11" -> Says(11, "h1", "affirm")
       [] n = "a12" -> Says(12, "h1", "affirm")
       [] n = "r11" -> Says(11, "h1", "refute")
       [] n = "unsure" -> [Says(12, "h1", "refute") EXCEPT !.verified = FALSE]
       [] n = "forged" -> [Says(12, "h1", "affirm") EXCEPT !.signed = FALSE]
       [] n = "own" -> Says(13, "h1", "affirm")
       [] n = "b11" -> Says(11, "h2", "affirm")
       [] n = "b12" -> Says(12, "h2", "affirm")]

MCLineageOf ==
  [v \in TrustedVerifiers |-> IF v = 11 THEN Lineage("meta", "llama", 1) ELSE <<>>]
=============================================================================
