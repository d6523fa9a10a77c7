---------------------------- MODULE MeshReceipts ----------------------------
(***************************************************************************)
(* How a set of mesh parameters is judged, recorded and exported:          *)
(* evaluate and promoteAuthorized of src/packages/radio-moe/src/           *)
(* mesh-evolve.ts, the hash chain of rvf-trajectory.ts and the signed      *)
(* receipts of receipt-export.ts.                                          *)
(*                                                                         *)
(* Weights and thresholds are in 1/200, separations and scores in 1/800,   *)
(* so that the floors, the margin and the quarter in the separation are    *)
(* whole.  A hash is what it is the hash of, a signature names its key and *)
(* what it covers.                                                         *)
(***************************************************************************)
EXTENDS Integers, SequencesExt

CONSTANTS
  Identity,     \* the key that signs
  TtlMs         \* ttlMs

Unit == 200
Ceilings == [weightMin |-> 0, weightMax |-> 160, quorumMin |-> 300, quorumMax |-> 800]
Hard == [familyStackCeiling |-> 400, diversePairFloor |-> 340]
PromotionMargin == 16
Knobs == {"sameProvider", "sameArch", "sameSize", "sourceJaccard"}

EvolvableParams ==
  [weights : [Knobs -> Ceilings.weightMin .. Ceilings.weightMax],
   quorumThreshold : Ceilings.quorumMin .. Ceilings.quorumMax]

Start ==
  [weights |-> [k \in Knobs |-> CASE k = "sameProvider" -> 80 [] k = "sameArch" -> 70
                                  [] k = "sameSize" -> 20 [] k = "sourceJaccard" -> 30],
   quorumThreshold |-> 400]
-----------------------------------------------------------------------------
(* evaluate, on the corpus: three models of one provider and architecture, *)
(* two that share nothing, and one beside two of a provider and            *)
(* architecture.  The topic gate does not depend on the parameters.        *)
Independence(params, oneFamily) ==
  LET shared == params.weights["sameProvider"] + params.weights["sameArch"] IN
  IF oneFamily THEN Max({0, Unit - shared}) ELSE Unit

Evaluate(params) ==
  LET related == Independence(params, TRUE)
      unrelated == Independence(params, FALSE)
      familyStack == Unit + related + related
      diversePair == Unit + unrelated
      mixedTrio == diversePair + related
  IN [separation |-> 4 * (diversePair - familyStack) + mixedTrio - familyStack,
      familyStack |-> familyStack,
      diversePair |-> diversePair,
      hardGatesPass |-> /\ familyStack < Hard.familyStackCeiling
                        /\ diversePair >= Hard.diversePairFloor
                        /\ params.quorumThreshold > familyStack
                        /\ params.quorumThreshold <= diversePair]

(* promoteAuthorized.  Forms that carry a plausible defect come first.     *)
PromoteUnsafe(candidate, champion, authorized, reversible) ==
  LET better == candidate.separation >= champion.separation + PromotionMargin IN
  [better |-> better, safe |-> TRUE, authorized |-> authorized, reversible |-> reversible,
   promote |-> better /\ authorized /\ reversible]

PromoteAuthorized(candidate, champion, authorized, reversible) ==
  LET safe == candidate.hardGatesPass
      better == candidate.separation >= champion.separation + PromotionMargin
  IN [better |-> better, safe |-> safe, authorized |-> authorized, reversible |-> reversible,
      promote |-> better /\ safe /\ authorized /\ reversible]
-----------------------------------------------------------------------------
(* packageTrajectory: entry i holds the hash of a frame and the chain up   *)
(* to it.                                                                  *)
PackageUnchained(frames) ==
  [entries |-> [i \in DOMAIN frames |-> [frameHash |-> frames[i], chain |-> <<frames[i]>>]],
   root |-> IF frames = <<>> THEN <<>> ELSE <<Last(frames)>>]

PackageTrajectory(frames) ==
  [entries |-> [i \in DOMAIN frames |->
                  [frameHash |-> frames[i], chain |-> SubSeq(frames, 1, i)]],
   root |-> frames]

VerifyTrajectory(packaged, frames) ==
  /\ Len(packaged.entries) = Len(frames)
  /\ \A i \in DOMAIN frames :
       /\ packaged.entries[i].frameHash = frames[i]
       /\ packaged.entries[i].chain = SubSeq(frames, 1, i)
  /\ packaged.root = frames
-----------------------------------------------------------------------------
(* contentIdOf: jcsCanonicalize and a hash *)
ContentIdOf(value) == <<"sha256", value>>

(* recomputeStatistics, for 10 000 resamples.  A delta that is not         *)
(* positive fills more than 2.5 % of them, alone: the interval reaches     *)
(* zero.  Scores are kept as sums over the tasks; the lift is a ratio.     *)
RecomputeStatistics(deltas, baselineScore, candidateScore) ==
  LET significant == \A i \in DOMAIN deltas : deltas[i] > 0
      lift == candidateScore - baselineScore
  IN [relativeLift |-> <<lift, baselineScore>>,
      significant |-> significant,
      accepted |-> significant /\ 50 * lift >= Max({baselineScore, -baselineScore})]

(* benchScores: diverse-pair-margin, stack-margin, mixed-trio-margin       *)
BenchScores(params, fit) ==
  LET t1 == 4 * (fit.diversePair - params.quorumThreshold)
      t2 == 4 * (params.quorumThreshold - fit.familyStack)
  IN <<t1, t2, fit.separation - t1 - t2>>

BenchTaskIds == {"diverse-pair-margin", "stack-margin", "mixed-trio-margin"}
Total(scores) == scores[1] + scores[2] + scores[3]
GenesisHead == "genesis"

AllPass(gates) == \A g \in Range(gates) : g

(* exportPromotionReceipt states the decision of the contract; before it,  *)
(* a form that relabels the mesh's own.                                    *)
OwnDecision(accepted, gates) == IF AllPass(gates) THEN "accepted" ELSE "rejected"

Decision(accepted, gates) == IF accepted /\ AllPass(gates) THEN "accepted" ELSE "rejected"

ExportPromotionReceipt(champion, candidate, decision, issuedAt) ==
  LET base == BenchScores(champion, Evaluate(champion))
      cand == BenchScores(candidate, Evaluate(candidate))
      deltas == [i \in 1 .. 3 |-> cand[i] - base[i]]
      statistics == RecomputeStatistics(deltas, Total(base), Total(cand))
      gates == [better |-> decision.better, safe |-> decision.safe,
                authorized |-> decision.authorized, reversible |-> decision.reversible]
      body == [candidateId |-> ContentIdOf(candidate), baselineRef |-> ContentIdOf(champion),
               expectedLedgerHead |-> GenesisHead, candidatePolicy |-> candidate,
               baselineScore |-> Total(base), candidateScore |-> Total(cand),
               heldOutDeltas |-> deltas, statistics |-> statistics, gates |-> gates,
               selectionTaskIds |-> BenchTaskIds, promotionHoldoutTaskIds |-> {},
               decision |-> Decision(statistics.accepted, gates),
               issuedAt |-> issuedAt, expiresAt |-> issuedAt + TtlMs]
  IN [body |-> body, receiptId |-> ContentIdOf(body),
      signature |-> [key |-> Identity, over |-> <<body, ContentIdOf(body)>>]]

(* verifyExportedReceipt: what it throws, or "none".  A document that has  *)
(* another shape is refused before and not considered.                     *)
VerifyExportedReceipt(doc, trusted, now) ==
  LET p == doc.body
      recomputed == RecomputeStatistics(p.heldOutDeltas, p.baselineScore, p.candidateScore)
  IN CASE ContentIdOf(p.candidatePolicy) # p.candidateId -> "candidate content ID mismatch"
       [] ContentIdOf(p) # doc.receiptId -> "receipt content ID mismatch"
       [] doc.signature.key \notin trusted -> "signer not in trusted set"
       [] doc.signature.over # <<p, doc.receiptId>> -> "ed25519 signature does not verify"
       [] recomputed # p.statistics -> "statistical decision does not recompute"
       [] (recomputed.accepted /\ AllPass(p.gates)) # (p.decision = "accepted") ->
            "statistical decision does not recompute: decision"
       [] p.selectionTaskIds \cap p.promotionHoldoutTaskIds # {} ->
            "corpus roles are not disjoint"
       [] p.expiresAt <= now -> "receipt is expired"
       [] OTHER -> "none"

(* exportEvolutionReceipts: one receipt per promoted record, or an         *)
(* exception ("throws") when a promotion does not re-derive.  The baseline *)
(* of a promotion is the champion before it.                               *)
BaselineIsStart(history, start, i) == start

Baseline(history, start, i) ==
  LET before == {j \in 1 .. i - 1 : history[j].promoted} IN
  IF before = {} THEN start ELSE history[Max(before)].champion

(* The records of promotions, and the n-th: it has n of them up to it.     *)
PromotedIn(history) == {i \in DOMAIN history : history[i].promoted}

NthPromotion(history, n) ==
  CHOOSE i \in PromotedIn(history) :
    Cardinality({j \in PromotedIn(history) : j <= i}) = n

Rederived(history, start, i) ==
  PromoteAuthorized(Evaluate(history[i].champion), Evaluate(Baseline(history, start, i)),
                    TRUE, TRUE)

ExportEvolutionReceipts(history, start, issuedAt) ==
  LET receipt(i) == ExportPromotionReceipt(Baseline(history, start, i), history[i].champion,
                                           Rederived(history, start, i), issuedAt)
  IN IF \E i \in PromotedIn(history) : ~Rederived(history, start, i).promote
     THEN <<"throws">>
     ELSE [n \in 1 .. Cardinality(PromotedIn(history)) |-> receipt(NthPromotion(history, n))]
=============================================================================
