------------------------- MODULE LineageIndependence -------------------------
(***************************************************************************)
(* How much a set of supporters counts, given which models they run:       *)
(* src/packages/radio-moe/src/lineage-independence.ts.                     *)
(*                                                                         *)
(* A supporter is a record with agentId (a number, in the order of the     *)
(* ids), lineage (provider, arch, sizeClass, modelId, accuracyBand) and    *)
(* sourceIds.  Independence is in 1/1200ths, so that the default weights   *)
(* (0.4, 0.35, 0.1, 0.2, and 0.15 times a Jaccard index of sets of up to   *)
(* six sources) are whole numbers.                                         *)
(***************************************************************************)
EXTENDS Integers, SequencesExt

Whole == 1200
SameProvider == 480
SameArch == 420
SameSize == 120
SameAccuracyBand == 240
SourceJaccard == 180

NoBand == "none"

ModelLineage ==
  [provider : STRING, arch : STRING, sizeClass : {"S", "M", "L", "XL"}, modelId : Nat,
   accuracyBand : {"frontier", "strong", "baseline", NoBand}]
-----------------------------------------------------------------------------
(* jaccard, times its weight *)
SharedSources(a, b) ==
  LET either == a.sourceIds \cup b.sourceIds IN
  IF either = {} THEN 0
  ELSE (SourceJaccard * Cardinality(a.sourceIds \cap b.sourceIds)) \div Cardinality(either)

(* pairIndependence *)
PairIndependence(a, b) ==
  LET same(field, weight) == IF a.lineage[field] = b.lineage[field] THEN weight ELSE 0
      penalty == same("provider", SameProvider) + same("arch", SameArch)
                 + same("sizeClass", SameSize)
                 + (IF a.lineage.accuracyBand = NoBand THEN 0
                    ELSE same("accuracyBand", SameAccuracyBand))
                 + SharedSources(a, b)
  IN IF a.lineage.modelId = b.lineage.modelId THEN 0
     ELSE Max({0, Whole - penalty})

(* What supporter i adds to those chosen: the first counts whole.          *)
Gain(supports, chosen, i) ==
  IF chosen = {} THEN Whole
  ELSE Min({PairIndependence(supports[i], supports[j]) : j \in chosen})

(* The order of agent ids; ties keep the order they came in.               *)
Precedes(supports, i, j) ==
  \/ supports[i].agentId < supports[j].agentId
  \/ supports[i].agentId = supports[j].agentId /\ i < j

(* The supporter that adds the most to those chosen, the first of several. *)
NextSupporter(supports, chosen) ==
  LET rest == DOMAIN supports \ chosen
      gain(i) == Gain(supports, chosen, i)
  IN CHOOSE i \in rest : \A j \in rest \ {i} :
       gain(i) > gain(j) \/ (gain(i) = gain(j) /\ Precedes(supports, i, j))

(* effectiveSupport: after[k] is who is chosen, and the total, when k      *)
(* supporters have been.  The list may have gaps: it is a function of      *)
(* numbers that stand for its order.                                       *)
EffectiveSupport(supports) ==
  LET n == Cardinality(DOMAIN supports)
      after[k \in 0 .. n] ==
        IF k = 0 THEN [chosen |-> {}, total |-> 0]
        ELSE LET prior == after[k - 1]
                 next == NextSupporter(supports, prior.chosen)
             IN [chosen |-> prior.chosen \cup {next},
                 total |-> prior.total + Gain(supports, prior.chosen, next)]
  IN after[n].total

(* The bucket of a supporter whose lineage nobody states.                  *)
UnknownLineage(modelId) ==
  [provider |-> "unknown", arch |-> "unknown", sizeClass |-> "M", modelId |-> modelId,
   accuracyBand |-> NoBand]
=============================================================================
