----------------------------- MODULE ActionGate -----------------------------
(***************************************************************************)
(* The action gate, src/packages/radio-moe/src/action-gate.ts: when signed *)
(* supports of agents release an action.                                   *)
(*                                                                         *)
(* A support is a record with the fields of UnsignedActionSupport, and     *)
(* signed for "its signature verifies under the key pinned for agentId".   *)
(* Agent ids are numbers, in the order of the ids; risk and calibration    *)
(* are in hundredths; an action is its actionIdentity.  The bounds on      *)
(* bytes and on the form of a JSON value are left out.                     *)
(***************************************************************************)
EXTENDS LineageIndependence

CONSTANTS
  TrustedSigners,       \* agent ids with a pinned key
  MinimumQuorum,        \* minimumQuorum
  RiskThreshold,        \* riskThreshold
  MinimumEffective,     \* gradedIndependence.minimumEffectiveSupport, 0: off
  MaxSupports,          \* maxSupports
  MaxProvenanceIds,     \* maxProvenanceIds
  MaxSupportTtl,        \* maxSupportTtlMs
  ClockSkew             \* clockSkewMs

(* what the constructor accepts *)
ASSUME PolicyAssumption ==
  /\ MaxSupports \in 2 .. 16 /\ MinimumQuorum \in 2 .. MaxSupports
  /\ RiskThreshold \in 1 .. 100
  /\ MinimumEffective = 0 \/ MinimumEffective \in Whole .. Whole * MaxSupports
  /\ Cardinality(TrustedSigners) \in 1 .. MaxSupports
  /\ MaxProvenanceIds \in 1 .. 64 /\ MaxSupportTtl \in Nat \ {0} /\ ClockSkew \in Nat
-----------------------------------------------------------------------------
(* Forms of the definitions below that carry a plausible defect.           *)

(* two agents of one operator count twice *)
DistinctReporters(a, b) == a.agentId # b.agentId /\ a.modelId # b.modelId

(* a branch that can only tie with the best so far is cut too *)
CutTies(chosen, left, best) == chosen + left <= best

(* the length of the list is not looked at *)
ThrowsOnSupportsOnly(proposed, now) == \E s \in ToSet(proposed) : ~s.signed \/ now >= s.expiresAt
-----------------------------------------------------------------------------
(* UnsignedActionSupport and its signature; <<>> is a lineage not stated.  *)
ActionSupport ==
  [agentId : Nat, principalId : STRING, modelId : Nat, sourceIds : SUBSET STRING,
   evidenceHashes : SUBSET STRING, calibration : Nat, risk : Nat, action : STRING,
   lineage : ModelLineage \cup {<<>>}, issuedAt : Int, expiresAt : Int, signed : BOOLEAN]

(* validateSupport and authenticateSupport *)
ValidIdSet(ids) == ids # {} /\ Cardinality(ids) <= MaxProvenanceIds

Authentic(s, now) ==
  /\ s.calibration \in 0 .. 100 /\ s.risk \in 0 .. 100
  /\ ValidIdSet(s.sourceIds) /\ ValidIdSet(s.evidenceHashes)
  /\ s.expiresAt - s.issuedAt \in 1 .. MaxSupportTtl
  /\ s.issuedAt <= now + ClockSkew /\ now < s.expiresAt
  /\ s.agentId \in TrustedSigners /\ s.signed

(* supportsAreIndependent *)
SupportsAreIndependent(a, b) ==
  /\ a.agentId # b.agentId /\ a.principalId # b.principalId /\ a.modelId # b.modelId
  /\ a.sourceIds \cap b.sourceIds = {}
  /\ a.evidenceHashes \cap b.evidenceHashes = {}

(* better: more supports, then more calibration in sum, counted out in     *)
(* hundredths, then the list of agent ids that comes first                 *)
Score(set) == Cardinality({p \in set \X (1 .. 100) : p[2] <= p[1].calibration})

AgentsOf(set) == {s.agentId : s \in set}

Better(candidate, incumbent) ==
  LET only == SymDiff(AgentsOf(candidate), AgentsOf(incumbent)) IN
  \/ Cardinality(candidate) > Cardinality(incumbent)
  \/ /\ Cardinality(candidate) = Cardinality(incumbent)
     /\ \/ Score(candidate) > Score(incumbent)
        \/ /\ Score(candidate) = Score(incumbent)
           /\ only # {} /\ Min(only) \in AgentsOf(candidate)

(* a branch that cannot reach the size of the best so far *)
Cut(chosen, left, best) == chosen + left < best

(* the index-th of the supports in the order of agent ids                  *)
Candidate(supports, index) ==
  LET i == CHOOSE i \in DOMAIN supports :
             Cardinality({j \in DOMAIN supports : Precedes(supports, j, i)}) = index - 1
  IN supports[i]

(* independentSupportSet: branch and bound over the supports in that       *)
(* order, of which the last `left` have not been looked at.  What visit    *)
(* returns is `best` when it has returned.                                 *)
IndependentSupportSet(supports) ==
  LET n == Cardinality(DOMAIN supports)
      all == Range(supports)
      visit[left \in 0 .. n] ==
        [chosen \in SUBSET all |-> [best \in SUBSET all |->
           IF Cut(Cardinality(chosen), left, Cardinality(best)) THEN best
           ELSE IF left = 0 THEN IF Better(chosen, best) THEN chosen ELSE best
           ELSE LET candidate == Candidate(supports, n + 1 - left)
                    taken == IF \A other \in chosen : SupportsAreIndependent(candidate, other)
                             THEN visit[left - 1][chosen \cup {candidate}][best]
                             ELSE best
                IN visit[left - 1][chosen][taken]]]
  IN visit[n][{}][{}]

(* toLineageSupport *)
LineageSupport(s) ==
  [agentId |-> s.agentId, sourceIds |-> s.sourceIds,
   lineage |-> IF s.lineage = <<>> THEN UnknownLineage(s.modelId) ELSE s.lineage]

NoEffective == -1

(* ActionGate.evaluate up to its await: it throws, or knows all that the   *)
(* decision needs but the answer of the admissibility callback.            *)
Throws(proposed, now) ==
  Len(proposed) > MaxSupports \/ \E s \in ToSet(proposed) : ~Authentic(s, now)

Assess(action, proposed) ==
  LET matching == {i \in DOMAIN proposed : proposed[i].action = action}
      supports == Restrict(proposed, matching)
  IN [independent |-> IndependentSupportSet(supports),
      risk |-> IF matching = {} THEN 100 ELSE Max({s.risk : s \in Range(supports)}),
      matching |-> Cardinality(matching),
      mismatched |-> Len(proposed) - Cardinality(matching),
      effective |-> IF MinimumEffective = 0 THEN NoEffective
                    ELSE EffectiveSupport([i \in matching |-> LineageSupport(supports[i])])]

ActionMismatch(base) == base.matching = 0 /\ base.mismatched > 0

(* ActionGate.evaluate after its await *)
Rejection(base, admissible) ==
  IF ~admissible THEN "inadmissible"
  ELSE IF Cardinality(base.independent) < MinimumQuorum THEN "insufficient-independent-quorum"
  ELSE IF base.risk >= RiskThreshold THEN "risk-threshold"
  ELSE IF MinimumEffective # 0 /\ base.effective < MinimumEffective
       THEN "insufficient-effective-support"
  ELSE "none"
=============================================================================
