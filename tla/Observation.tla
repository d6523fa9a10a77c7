----------------------------- MODULE Observation -----------------------------
(***************************************************************************)
(* What may become evidence, and what may be told of it: observation.ts    *)
(* and disclosure.ts of src/packages/radio-moe/src.                        *)
(*                                                                         *)
(* An observation is a record with the fields of the source.  A text field *)
(* is TRUE when it is not empty.  The confidence and the health are        *)
(* numbers of 0 .. Unit, or Unknown when absent or not a number.  lineage  *)
(* is a sequence of at most one record.                                    *)
(***************************************************************************)
EXTENDS Integers, Sequences, FiniteSets

CONSTANTS
  Unit,       \* the confidence 1
  Low, High,  \* TierThresholds
  MaxTtl,     \* maxTtlMs
  ClockSkew   \* clockSkewMs

ASSUME ObservationAssumption ==
  /\ Unit \in Nat /\ Low \in 0 .. High /\ High \in 0 .. Unit
  /\ MaxTtl \in Nat \ {0} /\ ClockSkew \in Nat

Unknown == -1

PrivacyClasses == {"public", "internal", "restricted", "sensitive"}

PrivacyOrder ==
  [public |-> 0, internal |-> 1, restricted |-> 2, sensitive |-> 3]

(* admitObservation(obs, now, {minSensorHealth: floor}); no floor is set   *)
(* when it is Unknown                                                      *)
Admissible(obs, now, floor) ==
  /\ obs.source /\ obs.location /\ obs.calibrated
  /\ obs.confidence \in 0 .. Unit
  /\ obs.privacy \in PrivacyClasses
  /\ obs.expiresAt > obs.issuedAt
  /\ obs.expiresAt - obs.issuedAt <= MaxTtl
  /\ obs.issuedAt <= now + ClockSkew /\ now < obs.expiresAt
  /\ \A l \in {obs.lineage[i] : i \in DOMAIN obs.lineage} :
       l.derived /\ l.provenance
  /\ floor # Unknown => obs.health \in floor .. Unit

(* confidenceTier; before it, a form that reads the confidence alone       *)
TierByConfidence(obs) ==
  IF obs.confidence >= High THEN "authorized-workflow"
  ELSE IF obs.confidence >= Low THEN "request-more-sensing"
  ELSE "update-world-model"

ConfidenceTier(obs) ==
  IF \E i \in DOMAIN obs.lineage : obs.lineage[i].derived
  THEN "update-world-model"
  ELSE TierByConfidence(obs)

(* discloseFinding: the references to the evidence that the ceiling lets   *)
(* out, and none of its payload                                            *)
Disclosure(evidence, ceiling, discloseEvidenceRefs) ==
  [privacyCeiling |-> ceiling,
   evidenceRefs |->
     {[event |-> e.event, privacy |-> e.privacy] :
        e \in {e \in evidence :
                 /\ discloseEvidenceRefs
                 /\ PrivacyOrder[e.privacy] <= PrivacyOrder[ceiling]}}]

(* assertWithinCeiling                                                     *)
WithinCeiling(d) ==
  \A r \in d.evidenceRefs :
    PrivacyOrder[r.privacy] <= PrivacyOrder[d.privacyCeiling]
=============================================================================
