----------------------------- MODULE OutcomeGate -----------------------------
(***************************************************************************)
(* What happens to an outcome after the action: the completion certificate *)
(* its verifiers counter-sign (lineage-independence.ts), their verdicts    *)
(* that admit a durable write (outcome-verifier.ts), and the reputation    *)
(* its contributors earn by it (reputation.ts), all in                     *)
(* src/packages/radio-moe/src.                                             *)
(*                                                                         *)
(* A verdict is a record with outcomeHash, verifierId, stance, verified,   *)
(* and signed for "its signature verifies under the key pinned for         *)
(* verifierId"; an attestation has signer, lineage, and signed for "its    *)
(* signature verifies for this frame, this key and this lineage"; a        *)
(* performance record has agentId, outcomeHash and verdicts, its measured  *)
(* quality is left out.                                                    *)
(***************************************************************************)
EXTENDS LineageIndependence

CONSTANTS
  TrustedVerifiers,     \* trustedVerifiers
  Contributors,         \* contributorIds
  LineageOf,            \* lineageOf: a lineage, <<>> for undefined
  MinAffirmations,      \* minAffirmations
  MinEffectiveSupport,  \* minEffectiveSupport
  CertK,                \* k of CertPolicy
  MinPairIndependence,  \* minPairIndependence of CertPolicy
  MaxCertSigners        \* MAX_CERT_SIGNERS

ASSUME OutcomePolicyAssumption ==
  /\ DOMAIN LineageOf = TrustedVerifiers
  /\ MinAffirmations \in Nat /\ MinEffectiveSupport \in Nat
  /\ CertK \in Nat /\ MinPairIndependence \in 0 .. Whole /\ MaxCertSigners \in Nat
-----------------------------------------------------------------------------
(* Forms of the definitions below that carry a plausible defect.           *)

(* the last verdict of a verifier counts, whatever it said before *)
EquivocationForgotten(verdicts, external) == FALSE

(* every valid record counts, also a repeated one *)
VerifiedContributionsPerRecord(records, valid) == Cardinality(valid)

(* a signer counts as often as it signed *)
CountedEverySignature(attestations) ==
  {i \in DOMAIN attestations : attestations[i].signed}
-----------------------------------------------------------------------------
OutcomeVerdict ==
  [outcomeHash : STRING, verifierId : Nat, stance : {"affirm", "refute"},
   verified : BOOLEAN, signed : BOOLEAN]

CompletionAttestation == [signer : STRING, lineage : ModelLineage, signed : BOOLEAN]

(* verifyCert: of a signer, the first attestation that verifies counts;    *)
(* then the k-subsets of those that count are tried.                       *)
Counted(attestations) ==
  {i \in DOMAIN attestations :
     /\ attestations[i].signed
     /\ \A j \in 1 .. i - 1 :
          attestations[j].signed => attestations[j].signer # attestations[i].signer}

Independent(attestations, chosen) ==
  \A i, j \in chosen :
    i # j => PairIndependence([lineage |-> attestations[i].lineage, sourceIds |-> {}],
                              [lineage |-> attestations[j].lineage, sourceIds |-> {}])
             >= MinPairIndependence

VerifyCert(attestations) ==
  /\ Len(attestations) <= MaxCertSigners
  /\ \E chosen \in kSubset(CertK, Counted(attestations)) : Independent(attestations, chosen)

(* verdictIsAuthentic, and the verifier's own confidence: the positions of *)
(* the verdicts that are external.  A list of verdicts may have gaps: it   *)
(* is a function of numbers that stand for its order.                      *)
External(verdicts, hash) ==
  {i \in DOMAIN verdicts :
     /\ verdicts[i].verified
     /\ verdicts[i].outcomeHash = hash
     /\ verdicts[i].verifierId \in TrustedVerifiers \ Contributors
     /\ verdicts[i].signed}

(* a verifier with two stances among these verdicts *)
Equivocation(verdicts, external) ==
  \E i, j \in external :
    verdicts[i].verifierId = verdicts[j].verifierId /\ verdicts[i].stance # verdicts[j].stance

(* byVerifier holds the verdict of a verifier that came last *)
LastVerdict(verdicts, external, verifier) ==
  verdicts[Max({i \in external : verdicts[i].verifierId = verifier})]

Verifiers(verdicts, external, stance) ==
  {verifier \in {verdicts[i].verifierId : i \in external} :
     LastVerdict(verdicts, external, verifier).stance = stance}

(* admitDurableWrite: "none" stands for admit.  The affirmers go to        *)
(* effectiveSupport under their ids, by which it sorts them.               *)
Admission(hash, verdicts) ==
  LET external == External(verdicts, hash)
      affirmers == Verifiers(verdicts, external, "affirm")
      lineage(v) == IF LineageOf[v] = <<>> THEN UnknownLineage(v) ELSE LineageOf[v]
      supports == [v \in affirmers |->
                     [agentId |-> v, sourceIds |-> {}, lineage |-> lineage(v)]]
  IN IF Equivocation(verdicts, external) THEN "verifier-equivocation"
     ELSE IF external = {} THEN "no-external-verifier"
     ELSE IF Verifiers(verdicts, external, "refute") # {} THEN "refuted"
     ELSE IF Cardinality(affirmers) < MinAffirmations THEN "insufficient-affirmation"
     ELSE IF EffectiveSupport(supports) < MinEffectiveSupport THEN "insufficient-independence"
     ELSE "none"

(* mintPerformanceRecord: whether a record may be minted, and its form *)
MayMint(agent, hash, verdicts) == agent \in Contributors /\ Admission(hash, verdicts) = "none"

PerformanceRecord(agent, hash, verdicts) ==
  [agentId |-> agent, outcomeHash |-> hash, verdicts |-> verdicts]

(* verifyPerformanceRecord, of a record with the signature of its agent *)
VerifyPerformanceRecord(record) ==
  MayMint(record.agentId, record.outcomeHash, record.verdicts)

(* reputation: the valid records of an agent, by their positions, and the  *)
(* contributions they count for                                            *)
ValidRecords(agent, records) ==
  {i \in DOMAIN records : records[i].agentId = agent /\ VerifyPerformanceRecord(records[i])}

VerifiedContributions(records, valid) == Cardinality({records[i].outcomeHash : i \in valid})
=============================================================================
