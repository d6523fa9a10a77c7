----------------------------- MODULE Governance -----------------------------
(***************************************************************************)
(* The way of one action through the gates of                              *)
(* src/packages/radio-moe/src: supports are collected until the action     *)
(* gate releases it, its completion is counter-signed until the            *)
(* certificate verifies, and verdicts on its outcomes come in while its    *)
(* contributors mint performance records.  The gates keep nothing between  *)
(* two calls; what they are given is what a caller collects, in any order  *)
(* and with repetitions.  The order of the three stages is a caller's, no  *)
(* stage reads what another left.                                          *)
(***************************************************************************)
EXTENDS ActionGate, OutcomeGate

CONSTANTS
  Actions,
  Supports,        \* names of the signed supports in circulation
  Support,         \* and their records
  Attestations, Attestation,
  Verdicts, Verdict,
  Outcomes,        \* outcome hashes
  MaxTime,         \* bounds of the instance
  MaxAttestations,
  MaxVerdicts,
  MaxRecords

ASSUME RecordAssumption ==
  /\ Support \in [Supports -> ActionSupport]
  /\ \A n \in Supports : IsFiniteSet(Support[n].sourceIds)
  /\ Attestation \in [Attestations -> CompletionAttestation]
  /\ Verdict \in [Verdicts -> OutcomeVerdict]
  /\ IsFiniteSet(Outcomes) /\ MaxTime \in Nat /\ MaxRecords \in Nat

VARIABLES
  now,             \* the clock
  stage,           \* "action", "completion" or "outcome"
  proposed,        \* the supports collected
  call,            \* the call of ActionGate.evaluate
  attestations,    \* the attestations collected
  inbox,           \* the verdicts collected
  records          \* performance records, as they are passed on

vars == <<now, stage, proposed, call, attestations, inbox, records>>
gathered == <<stage, attestations, inbox, records>>

NoCall == [state |-> "none"]

Init ==
  /\ now = 0 /\ stage = "action" /\ proposed = <<>> /\ call = NoCall
  /\ attestations = <<>> /\ inbox = <<>> /\ records = <<>>

SupportsOf(names) == [i \in DOMAIN names |-> Support[names[i]]]
-----------------------------------------------------------------------------
(* signActionSupport: an agent supports an action, or repeats itself       *)
Propose ==
  /\ stage = "action" /\ call.state = "none" /\ Len(proposed) <= MaxSupports
  /\ \E s \in Supports : proposed' = Append(proposed, s)
  /\ UNCHANGED <<now, call, gathered>>

Tick ==
  /\ stage = "action" /\ now < MaxTime
  /\ now' = now + 1
  /\ UNCHANGED <<proposed, call, gathered>>

(* ActionGate.evaluate, up to the await of the admissibility callback.     *)
(* What it needs later it has copied (deepFreeze(cloneCanonical(...))).    *)
Evaluate ==
  /\ stage = "action" /\ call.state = "none"
  /\ \E action \in Actions :
       LET supports == SupportsOf(proposed)
           base == Assess(action, supports)
       IN call' = IF Throws(supports, now)
                  THEN [state |-> "thrown", at |-> now]
                  ELSE [state |-> IF ActionMismatch(base) THEN "decided" ELSE "awaiting",
                        action |-> action, at |-> now, base |-> base,
                        rejection |-> IF ActionMismatch(base) THEN "action-mismatch" ELSE "none"]
  /\ UNCHANGED <<now, proposed, gathered>>

(* the callback answers *)
Answer ==
  /\ call.state = "awaiting"
  /\ \E admissible \in BOOLEAN :
       call' = [call EXCEPT !.state = "decided", !.rejection = Rejection(call.base, admissible)]
  /\ UNCHANGED <<now, proposed, gathered>>

Executes == call.state = "decided" /\ call.rejection = "none"

(* the caller goes on to collect, or lets go of an action that is released *)
Retry ==
  /\ call.state \in {"decided", "thrown"} /\ ~Executes
  /\ call' = NoCall
  /\ UNCHANGED <<now, proposed, gathered>>

Release ==
  /\ stage = "action" /\ Executes
  /\ stage' = "completion" /\ now' = 0 /\ proposed' = <<>> /\ call' = NoCall
  /\ UNCHANGED <<attestations, inbox, records>>
-----------------------------------------------------------------------------
(* counterSign *)
Attest ==
  /\ stage = "completion" /\ Len(attestations) < MaxAttestations
  /\ \E a \in Attestations : attestations' = Append(attestations, a)
  /\ UNCHANGED <<now, stage, proposed, call, inbox, records>>

CertHolds(names) == VerifyCert([i \in DOMAIN names |-> Attestation[names[i]]])

Complete ==
  /\ stage = "completion" /\ CertHolds(attestations)
  /\ stage' = "outcome" /\ attestations' = <<>>
  /\ UNCHANGED <<now, proposed, call, inbox, records>>
-----------------------------------------------------------------------------
(* signOutcomeVerdict *)
GiveVerdict ==
  /\ stage = "outcome" /\ Len(inbox) < MaxVerdicts
  /\ \E v \in Verdicts : inbox' = Append(inbox, v)
  /\ UNCHANGED <<now, stage, proposed, call, attestations, records>>

VerdictsOf(names) == [i \in DOMAIN names |-> Verdict[names[i]]]

(* mintPerformanceRecord, with all verdicts or without some of them *)
Mint ==
  /\ stage = "outcome" /\ Len(records) < MaxRecords
  /\ \E agent \in Contributors, hash \in Outcomes, told \in SUBSET DOMAIN inbox :
       LET verdicts == VerdictsOf(Restrict(inbox, told)) IN
       /\ MayMint(agent, hash, verdicts)
       /\ records' = Append(records, PerformanceRecord(agent, hash, verdicts))
  /\ UNCHANGED <<now, stage, proposed, call, attestations, inbox>>

(* a record is passed on again *)
Replay ==
  /\ Len(records) \in 1 .. MaxRecords - 1
  /\ records' = Append(records, Last(records))
  /\ UNCHANGED <<now, stage, proposed, call, attestations, inbox>>

Next ==
  \/ Propose \/ Tick \/ Evaluate \/ Answer \/ Retry \/ Release
  \/ Attest \/ Complete
  \/ GiveVerdict \/ Mint \/ Replay

Spec == Init /\ [][Next]_vars
-----------------------------------------------------------------------------
TypeOK ==
  /\ now \in 0 .. MaxTime
  /\ stage \in {"action", "completion", "outcome"}
  /\ proposed \in Seq(Supports) /\ Len(proposed) <= MaxSupports + 1
  /\ call.state \in {"none", "awaiting", "decided", "thrown"}
  /\ call.state \in {"awaiting", "decided"} =>
       /\ call.action \in Actions /\ call.at \in 0 .. now
       /\ call.base.matching \in 0 .. MaxSupports
       /\ call.base.effective \in {NoEffective} \cup 0 .. Whole * MaxSupports
  /\ attestations \in Seq(Attestations) /\ inbox \in Seq(Verdicts)
  /\ Len(records) <= MaxRecords

Matching == {s \in {Support[n] : n \in ToSet(proposed)} : s.action = call.action}

PairwiseIndependent(supports) ==
  \A s, t \in supports : s = t \/ (/\ s.agentId # t.agentId
                                   /\ s.principalId # t.principalId
                                   /\ s.modelId # t.modelId
                                   /\ s.sourceIds \cap t.sourceIds = {}
                                   /\ s.evidenceHashes \cap t.evidenceHashes = {})

(* An action is executed only on a quorum for exactly that action that     *)
(* shares no agent, operator, model, source or evidence, signed by pinned  *)
(* agents and in force when the call began, none of its supporters sees a  *)
(* risk at the threshold, and in graded mode at least as many different    *)
(* models stand behind it as the effective support asks for, however often *)
(* agents repeat themselves (action-gate.ts:237-288).                      *)
ExecutesOnQuorum ==
  Executes =>
    /\ \A n \in ToSet(proposed) :
         LET s == Support[n] IN
         /\ s.signed /\ s.agentId \in TrustedSigners
         /\ s.issuedAt - ClockSkew <= call.at /\ call.at < s.expiresAt
    /\ \E quorum \in SUBSET Matching :
         Cardinality(quorum) >= MinimumQuorum /\ PairwiseIndependent(quorum)
    /\ \A s \in Matching : s.risk < RiskThreshold
    /\ Whole * Cardinality({LineageSupport(s).lineage.modelId : s \in Matching})
         >= MinimumEffective

(* The supports a decision rests on are a largest pairwise independent set *)
(* of those that match, none as large is better calibrated, and of equals  *)
(* the first by agent ids is taken, so that the order of the list does not *)
(* choose between agents (action-gate.ts:169-196, 367-373).                *)
SelectionIsBest ==
  call.state \in {"awaiting", "decided"} =>
    LET chosen == call.base.independent
        rivals == {set \in SUBSET Matching : PairwiseIndependent(set)}
    IN /\ chosen \in rivals
       /\ \A set \in rivals :
            /\ Cardinality(set) <= Cardinality(chosen)
            /\ Cardinality(set) = Cardinality(chosen) =>
                 /\ Score(set) <= Score(chosen)
                 /\ Score(set) = Score(chosen) /\ AgentsOf(set) # AgentsOf(chosen) =>
                      Min(SymDiff(AgentsOf(set), AgentsOf(chosen))) \in AgentsOf(chosen)

(* A completion certificate that verifies goes on to verify when more      *)
(* verifiers counter-sign, correlated ones, repeated and forged signatures *)
(* included, as long as it holds no more than MAX_CERT_SIGNERS, and it     *)
(* rests on CertK different signers (lineage-independence.ts:178-183).     *)
CertGrowsSafely ==
  [][stage' = "completion" /\ CertHolds(attestations) /\ Len(attestations') <= MaxCertSigners =>
       /\ CertHolds(attestations')
       /\ Cardinality({Attestation[a].signer : a \in ToSet(attestations)}) >= CertK]_vars

(* Neither the order nor the repetition of verdicts decides about a write  *)
(* (outcome-verifier.ts:117-120).                                          *)
VerdictOrderIrrelevant ==
  \A hash \in Outcomes, order \in SetToSeqs(ToSet(inbox)) :
    Admission(hash, VerdictsOf(order)) = Admission(hash, VerdictsOf(inbox))

(* Repeating records earns nothing: a contributor is credited with no more *)
(* outcomes than were affirmed by MinAffirmations verifiers who did not    *)
(* contribute (reputation.ts:113-124).                                     *)
ReputationIsEarned ==
  \A agent \in Contributors :
    VerifiedContributions(records, ValidRecords(agent, records))
      <= Cardinality({hash \in Outcomes :
           Cardinality({v.verifierId : v \in {w \in {Verdict[n] : n \in ToSet(inbox)} :
                          w.outcomeHash = hash /\ w.stance = "affirm"}} \ Contributors)
             >= MinAffirmations})
=============================================================================
