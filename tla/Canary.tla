------------------------------- MODULE Canary -------------------------------
(***************************************************************************)
(* The canary controller of crates/promotion as a value and the functions  *)
(* that take one controller to the next.  The controller is a plain        *)
(* serializable struct, so the modules that use it (the guarded rollout,   *)
(* its durable checkpoint) hold it in variables of their own.              *)
(*                                                                         *)
(* Abstracted: a FitnessVector is the Boolean passes_hard_gates; the audit *)
(* strings are left out; at the final stage healthy_observations keeps     *)
(* growing in the code, and here stops at ObservationsPerStage, because it *)
(* is only ever compared with that number by < and >=.                     *)
(***************************************************************************)
EXTENDS Integers, Sequences

CONSTANT ObservationsPerStage   \* healthy observations a stage needs

\* The constructor takes observations_per_stage.max(1).
ASSUME ObservationsPerStageAssumption == ObservationsPerStage \in Nat \ {0}

\* Traffic shares, in percent, of the staged rollout.
STAGES == <<1, 10, 50, 100>>

FinalStage == 4                 \* STAGES.len(), stages counted from 1

Stage == 1 .. FinalStage

CanaryState == {"Serving", "Promoted", "RolledBack"}

Decision == {"Hold", "Advance", "ReadyForPromotion", "RollBack"}

\* Every value a controller for one of these candidates can take.
Controller(Candidates, Targets, Nonces) ==
  [candidate : Candidates,
   rollbackTarget : Targets,
   state : CanaryState,
   stage : Stage,
   healthy : 0 .. ObservationsPerStage,
   consumed : SUBSET Nonces]

NewController(candidate, rollbackTarget) ==
  [candidate |-> candidate,
   rollbackTarget |-> rollbackTarget,
   state |-> "Serving",
   stage |-> 1,
   healthy |-> 0,
   consumed |-> {}]

-----------------------------------------------------------------------------
(* Mutated forms: plausible bugs, each of which some property must catch.  *)

StageCompleteOffByOne(c) == c.healthy + 2 >= ObservationsPerStage

AdvancesPastTheEnd(c, passes) ==
  IF c.state # "Serving" THEN "Hold"
  ELSE IF ~ passes THEN "RollBack"
  ELSE IF c.healthy + 1 < ObservationsPerStage THEN "Hold"
  ELSE "Advance"

-----------------------------------------------------------------------------
(* observe: one fitness measurement, which passes the hard gates or not.   *)

\* With the observation being made counted, the stage has what it needs.
StageComplete(c) == c.healthy + 1 >= ObservationsPerStage

\* A terminal controller ignores the measurement; a serving one rolls back
\* on the first that fails.
ObserveDecision(c, passes) ==
  IF c.state # "Serving" THEN "Hold"
  ELSE IF ~ passes THEN "RollBack"
  ELSE IF ~ StageComplete(c) THEN "Hold"
  ELSE IF c.stage < FinalStage THEN "Advance"
  ELSE "ReadyForPromotion"

\* One more healthy observation at the stage being served.
CountHealthy(c) ==
  [c EXCEPT !.healthy = IF @ < ObservationsPerStage THEN @ + 1 ELSE @]

Observed(c, passes) ==
  LET decision == ObserveDecision(c, passes) IN
  IF c.state # "Serving" THEN c
  ELSE IF decision = "RollBack" THEN [c EXCEPT !.state = "RolledBack"]
  ELSE IF decision = "Advance" THEN [c EXCEPT !.stage = @ + 1, !.healthy = 0]
  ELSE CountHealthy(c)

-----------------------------------------------------------------------------
(* promote: consume a verified promotion artifact.                         *)

\* (1) the artifact is for this controller's candidate and rollback target.
Bound(c, promotion) ==
  /\ promotion.candidate = c.candidate
  /\ promotion.rollbackTarget = c.rollbackTarget

\* (4) the last stage completed healthy.
CanaryComplete(c) ==
  /\ c.state = "Serving"
  /\ c.stage = FinalStage
  /\ c.healthy >= ObservationsPerStage

\* The conditions under which promote returns Ok; (2) is the expiry and
\* (3) the nonces this very controller has consumed.
MayPromote(c, promotion, now) ==
  /\ Bound(c, promotion)
  /\ now < promotion.expiresAt
  /\ promotion.nonce \notin c.consumed
  /\ CanaryComplete(c)

AfterPromote(c, promotion) ==
  [c EXCEPT !.state = "Promoted", !.consumed = @ \cup {promotion.nonce}]

=============================================================================
