------------------------ MODULE GuardedRollout_proofs ------------------------
(***************************************************************************)
(* Proofs about the guarded rollout, for every number of callers,          *)
(* artifacts, candidates, targets, checkpoints and ledger handles.  Every  *)
(* fault is allowed but for three theorems: that a rollback is not taken   *)
(* back needs checkpoints that can be read, and the two about the ledger   *)
(* are for callers that share a handle and records that do not fail.       *)
(***************************************************************************)
EXTENDS GuardedRollout, TLAPS

-----------------------------------------------------------------------------
(* The canary controller.                                                  *)

\* A fresh controller is one, whatever it is for.
LEMMA NewControllerType ==
  ASSUME NEW C, NEW T, NEW N, NEW candidate \in C, NEW target \in T
  PROVE  NewController(candidate, target) \in Controller(C, T, N)
BY ObservationsPerStageAssumption
   DEF NewController, Controller, CanaryState, Stage, FinalStage

\* An observation takes a controller to a controller for the same candidate,
\* never past the last stage.
LEMMA ObservedType ==
  ASSUME NEW C, NEW T, NEW N, NEW c \in Controller(C, T, N), NEW passes \in BOOLEAN
  PROVE  /\ Observed(c, passes) \in Controller(C, T, N)
         /\ ObserveDecision(c, passes) \in Decision
         /\ Observed(c, passes).candidate = c.candidate
<1>1. /\ c.stage \in Stage /\ c.healthy \in 0 .. ObservationsPerStage
      /\ CountHealthy(c) \in Controller(C, T, N) /\ CountHealthy(c).candidate = c.candidate
  BY ObservationsPerStageAssumption DEF Controller, CountHealthy
<1>2. ASSUME c.stage < FinalStage
      PROVE  LET d == [c EXCEPT !.stage = @ + 1, !.healthy = 0]
             IN  d \in Controller(C, T, N) /\ d.candidate = c.candidate
  <2>1. c.stage + 1 \in Stage /\ 0 \in 0 .. ObservationsPerStage
    BY <1>1, <1>2, ObservationsPerStageAssumption DEF Stage, FinalStage
  <2> QED
    BY <2>1 DEF Controller
<1>3. LET d == [c EXCEPT !.state = "RolledBack"]
      IN  d \in Controller(C, T, N) /\ d.candidate = c.candidate
  BY DEF Controller, CanaryState
<1>4. ObserveDecision(c, passes) \in Decision
  BY DEF ObserveDecision, Decision
<1>5. ObserveDecision(c, passes) = "Advance" => c.stage < FinalStage
  BY DEF ObserveDecision
<1> QED
  BY <1>1, <1>2, <1>3, <1>4, <1>5 DEF Observed

\* So does the consumption of an artifact.
LEMMA AfterPromoteType ==
  ASSUME NEW C, NEW T, NEW N, NEW c \in Controller(C, T, N), NEW a, a.nonce \in N
  PROVE  /\ AfterPromote(c, a) \in Controller(C, T, N)
         /\ AfterPromote(c, a).candidate = c.candidate
BY DEF AfterPromote, Controller, CanaryState

-----------------------------------------------------------------------------
(* The ledger.                                                             *)

\* The nonces of well-typed lines are a sequence of nonces.
LEMMA NoncesType ==
  ASSUME NEW N, NEW lines \in Seq(Lines(N))
  PROVE  Nonces(lines) \in Seq(N)
<1>1. \A i \in 1 .. Len(lines) : lines[i] \in Lines(N)
  OBVIOUS
<1>2. Len(lines) \in Nat
  OBVIOUS
<1>3. \A line \in Lines(N) : line.nonce \in N
  BY DEF Lines
<1> QED
  BY <1>1, <1>2, <1>3 DEF Nonces, History

-----------------------------------------------------------------------------
(* Type correctness.                                                       *)

\* What a call has while it is in flight.
CallOK ==
  \A r \in Rollouts : InFlight(r) =>
    /\ prom[r] \in Promotions
    /\ entries[HandleOf[r]] \in Seq(Promotions)
    /\ Target(prom[r]) \in held
    /\ pc[r] # "load" => ctrl[r] \in Controllers

\* A ledger handle is lent to one call at a time.
HandleAlone ==
  \A r, q \in Rollouts :
    InFlight(r) /\ InFlight(q) /\ HandleOf[r] = HandleOf[q] => r = q

IInv == TypeOK /\ CallOK /\ HandleAlone /\ OneRolloutPerTarget

\* The candidate and the target of an artifact are of the right kind.
LEMMA TargetType ==
  ASSUME NEW p \in Promotions
  PROVE  CandidateOf[p] \in Candidates /\ Target(p) \in Targets
BY RolloutAssumption DEF Target

\* The controller a call begins with when it finds no checkpoint is one.
LEMMA FreshType ==
  ASSUME NEW p \in Promotions
  PROVE  NewController(CandidateOf[p], Target(p)) \in Controllers
BY TargetType, NewControllerType DEF Controllers

\* A walk one observation longer, at a stage that is not full yet.
LEMMA WalkType ==
  ASSUME NEW w \in [Candidates -> [Stage -> 0 .. ObservationsPerStage]],
         NEW c \in Candidates, NEW s \in Stage, w[c][s] < ObservationsPerStage
  PROVE  [w EXCEPT ![c][s] = @ + 1] \in [Candidates -> [Stage -> 0 .. ObservationsPerStage]]
<1>1. w[c][s] + 1 \in 0 .. ObservationsPerStage
  BY ObservationsPerStageAssumption
<1>2. [w[c] EXCEPT ![s] = @ + 1] \in [Stage -> 0 .. ObservationsPerStage]
  BY <1>1
<1> QED
  BY <1>2

\* Every step leaves every variable in its range.
LEMMA TypeStep == ASSUME IInv, [Next]_vars PROVE TypeOK'
<1> USE DEF IInv
<1>0. 0 \in 0 .. MaxSamples /\ "Hold" \in Decision /\ "idle" \in Where
  BY RolloutAssumption DEF Decision, Where
<1>1. ASSUME NEW h \in Handles, Open(h) PROVE TypeOK'
  <2>1. Nonces(log) \in Seq(Promotions)
    BY NoncesType DEF TypeOK
  <2> QED
    BY <1>1, <2>1 DEF Open, TypeOK, local
<1>2. ASSUME NEW p \in Promotions, Deploy(p) PROVE TypeOK'
  BY <1>2, TargetType DEF Deploy, TypeOK, process
<1>3. ASSUME NEW r \in Rollouts, NEW p \in Promotions, Acquire(r, p) PROVE TypeOK'
  BY <1>3, TargetType DEF Acquire, TypeOK, Where
<1>4. ASSUME NEW r \in Rollouts, Load(r) PROVE TypeOK'
  <2>1. prom[r] \in Promotions /\ PathOf[prom[r]] \in Paths
    BY <1>4, RolloutAssumption DEF Load, CallOK, InFlight
  <2>2. ctrl' \in [Rollouts -> Controllers \cup {None}]
    BY <1>4, <2>1, FreshType DEF Load, TypeOK
  <2> QED
    BY <1>4, <2>2 DEF Load, TypeOK, Where
<1>5. ASSUME NEW r \in Rollouts, Observe(r) PROVE TypeOK'
  <2>1. ctrl[r] \in Controllers /\ CandidateOf[prom[r]] \in Candidates
    BY <1>5, TargetType DEF Observe, CallOK, InFlight
  <2>2. PICK passes \in BOOLEAN :
          /\ decision' = [decision EXCEPT ![r] = ObserveDecision(ctrl[r], passes)]
          /\ ctrl' = [ctrl EXCEPT ![r] = Observed(ctrl[r], passes)]
    BY <1>5 DEF Observe
  <2>3. /\ Observed(ctrl[r], passes) \in Controllers
        /\ ObserveDecision(ctrl[r], passes) \in Decision
    BY <2>1, ObservedType DEF Controllers
  <2>4. samples' \in [Rollouts -> 0 .. MaxSamples]
    BY <1>5, RolloutAssumption DEF Observe, TypeOK
  <2>5. walk' \in [Candidates -> [Stage -> 0 .. ObservationsPerStage]]
    <3> DEFINE cand == CandidateOf[prom[r]]
               stage == ctrl[r].stage
               W == [Candidates -> [Stage -> 0 .. ObservationsPerStage]]
    <3>1. walk \in W /\ stage \in Stage /\ cand \in Candidates
      BY <2>1 DEF TypeOK, Controllers, Controller
    <3>2. \/ walk' = walk
          \/ /\ walk[cand][stage] < ObservationsPerStage
             /\ walk' = [walk EXCEPT ![cand][stage] = @ + 1]
      BY <1>5 DEF Observe
    <3> QED
      BY <3>1, <3>2, WalkType
  <2> QED
    BY <1>5, <2>2, <2>3, <2>4, <2>5 DEF Observe, TypeOK, Where
<1>6. ASSUME NEW r \in Rollouts, Exhausted(r) PROVE TypeOK'
  BY <1>6 DEF Exhausted, TypeOK, Where
<1>7. ASSUME NEW r \in Rollouts, Save(r) PROVE TypeOK'
  <2>1. ctrl[r] \in Controllers /\ prom[r] \in Promotions
    BY <1>7 DEF Save, CallOK, InFlight
  <2>2. AfterSave(r) \in Where
    BY DEF AfterSave, Where
  <2> QED
    BY <1>7, <2>1, <2>2 DEF Save, TypeOK, Decision
<1>8. ASSUME NEW r \in Rollouts, Restore(r) PROVE TypeOK'
  <2>1. Target(prom[r]) \in Targets
    BY <1>8, TargetType DEF Restore, CallOK, InFlight
  <2> QED
    BY <1>8, <2>1 DEF Restore, TypeOK, Where
<1>9. ASSUME NEW r \in Rollouts, Confirm(r) PROVE TypeOK'
  BY <1>9 DEF Confirm, TypeOK, Where
<1>10. ASSUME NEW r \in Rollouts, Promote(r) PROVE TypeOK'
  <2>1. ctrl[r] \in Controllers /\ Artifact(prom[r]).nonce \in Promotions
    BY <1>10 DEF Promote, CallOK, InFlight, Artifact
  <2>2. AfterPromote(ctrl[r], Artifact(prom[r])) \in Controllers
    BY <2>1, AfterPromoteType DEF Controllers
  <2> QED
    BY <1>10, <2>2 DEF Promote, TypeOK, Where
<1>11. ASSUME NEW r \in Rollouts, Record(r) PROVE TypeOK'
  <2>1. prom[r] \in Promotions /\ entries[HandleOf[r]] \in Seq(Promotions)
    BY <1>11 DEF Record, CallOK, InFlight
  <2>2. Line(prom[r], entries[HandleOf[r]]) \in Lines(Promotions)
    BY <2>1 DEF Line, Lines
  <2>3. log' \in Seq(Lines(Promotions))
    <3>1. log \in Seq(Lines(Promotions))
      BY DEF TypeOK
    <3>2. Append(log, Line(prom[r], entries[HandleOf[r]])) \in Seq(Lines(Promotions))
      BY <2>2, <3>1
    <3> QED
      BY <1>11, <3>1, <3>2 DEF Record
  <2>4. entries' \in [Handles -> Seq(Promotions) \cup {None}]
    <3>1. Append(entries[HandleOf[r]], prom[r]) \in Seq(Promotions)
      BY <2>1
    <3> QED
      BY <1>11, <3>1 DEF Record, TypeOK
  <2> QED
    BY <1>11, <2>3, <2>4 DEF Record, TypeOK, Where
<1>12. ASSUME NEW r \in Rollouts, Return(r) PROVE TypeOK'
  <2>1. CandidateOf[prom[r]] \in Candidates /\ prom[r] \in Promotions
    BY <1>12, TargetType DEF Return, CallOK, InFlight
  <2>2. EmptyWalk \in [Stage -> 0 .. ObservationsPerStage]
    BY ObservationsPerStageAssumption DEF EmptyWalk
  <2>3. /\ ckpt' \in [Paths -> Controllers \cup {None}]
        /\ walk' \in [Candidates -> [Stage -> 0 .. ObservationsPerStage]]
    <3>1. ckpt' = ckpt \/ ckpt' = [ckpt EXCEPT ![PathOf[prom[r]]] = None]
      BY <1>12 DEF Return
    <3>2. walk' = walk \/ walk' = [walk EXCEPT ![CandidateOf[prom[r]]] = EmptyWalk]
      BY <1>12 DEF Return
    <3>3. /\ ckpt \in [Paths -> Controllers \cup {None}]
          /\ walk \in [Candidates -> [Stage -> 0 .. ObservationsPerStage]]
      BY DEF TypeOK
    <3>4. ckpt' \in [Paths -> Controllers \cup {None}]
      BY <3>1, <3>3
    <3>5. walk' \in [Candidates -> [Stage -> 0 .. ObservationsPerStage]]
      BY <2>2, <3>2, <3>3
    <3> QED
      BY <3>4, <3>5
  <2>4. wins' \in [Promotions -> 0 .. 2]
    <3>1. wins[prom[r]] \in 0 .. 2 /\ wins \in [Promotions -> 0 .. 2]
      BY <2>1 DEF TypeOK
    <3>2. \/ wins' = wins
          \/ wins[prom[r]] < 2 /\ wins' = [wins EXCEPT ![prom[r]] = wins[prom[r]] + 1]
      BY <1>12 DEF Return
    <3> QED
      BY <2>1, <3>1, <3>2
  <2> QED
    BY <1>0, <1>12, <2>3, <2>4 DEF Return, Leave, TypeOK
<1>13. ASSUME NEW r \in Rollouts, Panic(r) PROVE TypeOK'
  BY <1>0, <1>13 DEF Panic, Leave, TypeOK
<1>14. CASE Crash
  BY <1>0, <1>14 DEF Crash, TypeOK
<1>15. CASE UNCHANGED vars
  BY <1>15 DEF vars, process, TypeOK
<1> QED
  BY <1>1, <1>2, <1>3, <1>4, <1>5, <1>6, <1>7, <1>8, <1>9, <1>10, <1>11, <1>12,
     <1>13, <1>14, <1>15 DEF Next, Step

-----------------------------------------------------------------------------
(* One rollout per target.                                                 *)

\* A call that neither begins nor ends keeps its artifact, its lock and its
\* handle; the others keep theirs.
LEMMA CallStep ==
  ASSUME IInv, [Next]_vars
  PROVE  CallOK' /\ HandleAlone' /\ OneRolloutPerTarget'
<1> USE DEF IInv, InFlight
<1> DEFINE Goal == CallOK /\ HandleAlone /\ OneRolloutPerTarget
<1>1. ASSUME NEW h \in Handles, Open(h) PROVE Goal'
  <2>1. Nonces(log) \in Seq(Promotions)
    BY NoncesType DEF TypeOK
  <2>2. CallOK'
    BY <1>1, <2>1 DEF Open, HandleFree, local, CallOK, TypeOK, Target
  <2> QED
    BY <1>1, <2>2 DEF Open, local, HandleAlone, OneRolloutPerTarget, Target
<1>2. ASSUME NEW p \in Promotions, Deploy(p) PROVE Goal'
  BY <1>2 DEF Deploy, process, CallOK, HandleAlone, OneRolloutPerTarget, Target
<1>3. ASSUME NEW r \in Rollouts, NEW p \in Promotions, Acquire(r, p) PROVE Goal'
  <2>1. CallOK'
    BY <1>3, RolloutAssumption DEF Acquire, CallOK, TypeOK, Target
  <2>2. HandleAlone'
    BY <1>3 DEF Acquire, HandleFree, HandleAlone, TypeOK
  <2>3. OneRolloutPerTarget'
    BY <1>3 DEF Acquire, CallOK, OneRolloutPerTarget, TypeOK, Target
  <2> QED
    BY <2>1, <2>2, <2>3
<1>4. ASSUME NEW r \in Rollouts, Leave(r), UNCHANGED entries, pc[r] # "idle" PROVE Goal'
  <2>1. CallOK'
    BY <1>4 DEF Leave, CallOK, OneRolloutPerTarget, TypeOK, Target
  <2> QED
    BY <1>4, <2>1 DEF Leave, HandleAlone, OneRolloutPerTarget, TypeOK, Target
<1>5. ASSUME NEW r \in Rollouts, pc[r] # "idle",
             UNCHANGED <<prom, held>>,
             \E w \in Where \ {"idle", "load"} : pc' = [pc EXCEPT ![r] = w],
             \/ UNCHANGED ctrl
             \/ \E c \in Controllers : ctrl' = [ctrl EXCEPT ![r] = c],
             pc[r] = "load" => ctrl'[r] \in Controllers,
             \/ UNCHANGED entries
             \/ entries' = [entries EXCEPT ![HandleOf[r]] = Append(@, prom[r])]
      PROVE  Goal'
  <2>1. PICK w \in Where \ {"idle", "load"} : pc' = [pc EXCEPT ![r] = w]
    BY <1>5
  <2>2. \A q \in Rollouts : InFlight(q)' <=> InFlight(q)
    BY <1>5, <2>1 DEF TypeOK
  <2>3. \A q \in Rollouts : InFlight(q) => entries'[HandleOf[q]] \in Seq(Promotions)
    <3>1. Append(entries[HandleOf[r]], prom[r]) \in Seq(Promotions)
      BY <1>5 DEF CallOK
    <3>2. entries \in [Handles -> Seq(Promotions) \cup {None}]
      BY DEF TypeOK
    <3>3. \A q \in Rollouts : InFlight(q) => entries[HandleOf[q]] \in Seq(Promotions)
      BY DEF CallOK
    <3>4. CASE UNCHANGED entries
      BY <3>3, <3>4
    <3>5. CASE entries' = [entries EXCEPT ![HandleOf[r]] = Append(@, prom[r])]
      BY <3>1, <3>2, <3>3, <3>5
    <3> QED
      BY <1>5, <3>4, <3>5
  <2>4. \A q \in Rollouts : InFlight(q) /\ pc'[q] # "load" => ctrl'[q] \in Controllers
    BY <1>5, <2>1 DEF CallOK, TypeOK
  <2>5. CallOK'
    BY <1>5, <2>2, <2>3, <2>4 DEF CallOK, Target
  <2> QED
    BY <1>5, <2>2, <2>5 DEF HandleAlone, OneRolloutPerTarget, Target
<1>6. ASSUME NEW r \in Rollouts, Step(r) PROVE Goal'
  <2>1. CASE Load(r)
    <3>1. ctrl'[r] \in Controllers /\ \E c \in Controllers : ctrl' = [ctrl EXCEPT ![r] = c]
      <4>1. prom[r] \in Promotions /\ PathOf[prom[r]] \in Paths
        BY <2>1, RolloutAssumption DEF Load, CallOK
      <4>2. PICK c \in Controllers : ctrl' = [ctrl EXCEPT ![r] = c]
        BY <2>1, <4>1, FreshType DEF Load, TypeOK
      <4> QED
        BY <4>2 DEF TypeOK
    <3> QED
      BY <1>5, <2>1, <3>1 DEF Load, Where
  <2>2. CASE Observe(r)
    <3>1. ctrl[r] \in Controllers
      BY <2>2 DEF Observe, CallOK
    <3>2. \E c \in Controllers : ctrl' = [ctrl EXCEPT ![r] = c]
      BY <2>2, <3>1, ObservedType DEF Observe, Controllers
    <3> QED
      BY <1>5, <2>2, <3>2 DEF Observe, Where
  <2>3. CASE Exhausted(r)
    BY <1>5, <2>3 DEF Exhausted, Where
  <2>4. CASE Save(r)
    <3>1. AfterSave(r) \in Where \ {"idle", "load"}
      BY DEF AfterSave, Where
    <3> QED
      BY <1>5, <2>4, <3>1 DEF Save
  <2>5. CASE Restore(r)
    BY <1>5, <2>5 DEF Restore, Where
  <2>6. CASE Confirm(r)
    BY <1>5, <2>6 DEF Confirm, Where
  <2>7. CASE Promote(r)
    <3>1. ctrl[r] \in Controllers /\ Artifact(prom[r]).nonce \in Promotions
      BY <2>7 DEF Promote, CallOK, Artifact
    <3>2. AfterPromote(ctrl[r], Artifact(prom[r])) \in Controllers
      BY <3>1, AfterPromoteType DEF Controllers
    <3>3. UNCHANGED ctrl \/ \E c \in Controllers : ctrl' = [ctrl EXCEPT ![r] = c]
      BY <2>7, <3>2 DEF Promote
    <3> QED
      BY <1>5, <2>7, <3>3 DEF Promote, Where
  <2>8. CASE Record(r)
    BY <1>5, <2>8 DEF Record, Where
  <2>9. CASE Return(r)
    BY <1>4, <2>9 DEF Return
  <2> QED
    BY <1>6, <2>1, <2>2, <2>3, <2>4, <2>5, <2>6, <2>7, <2>8, <2>9 DEF Step
<1>7. CASE Crash
  BY <1>7 DEF Crash, CallOK, HandleAlone, OneRolloutPerTarget
<1>8. CASE UNCHANGED vars
  BY <1>8 DEF vars, process, CallOK, HandleAlone, OneRolloutPerTarget, Target
<1>9. ASSUME NEW r \in Rollouts, Panic(r) PROVE Goal'
  BY <1>4, <1>9 DEF Panic
<1> QED
  BY <1>1, <1>2, <1>3, <1>6, <1>7, <1>8, <1>9 DEF Next

-----------------------------------------------------------------------------
(* The theorems.                                                           *)

\* The inductive invariant holds before anything is opened or called...
LEMMA IInvInit == Init => IInv
<1> SUFFICES ASSUME Init PROVE IInv
  OBVIOUS
<1>1. TypeOK
  <2>1. EmptyWalk \in [Stage -> 0 .. ObservationsPerStage]
    BY ObservationsPerStageAssumption DEF EmptyWalk
  <2> QED
    BY <2>1, RolloutAssumption DEF Init, TypeOK, Where, Decision
<1>2. CallOK /\ HandleAlone /\ OneRolloutPerTarget
  BY DEF Init, InFlight, CallOK, HandleAlone, OneRolloutPerTarget
<1> QED
  BY <1>1, <1>2 DEF IInv

\* ... and every step of every call, caller, panic and crash keeps it.
LEMMA IInvStep == IInv /\ [Next]_vars => IInv'
BY TypeStep, CallStep DEF IInv

\* What holds of every reachable state of every instance.
THEOREM Invariance == Spec => []IInv
BY IInvInit, IInvStep, PTL DEF Spec

\* Every variable of the guarded rollout stays in its range; no controller is
\* ever past the last stage, whatever checkpoint it was resumed from.
THEOREM TypeCorrectness == Spec => []TypeOK
BY Invariance, PTL DEF IInv

\* Two calls in flight never supersede the same target, for any number of
\* callers and whatever panics, crashes and file errors happen.
THEOREM Fencing == Spec => []OneRolloutPerTarget
BY Invariance, PTL DEF IInv

-----------------------------------------------------------------------------
(* Promotion after the candidate's own whole walk.                         *)

\* The caller's discipline: a checkpoint file for each candidate.
OwnCheckpoints ==
  \A p, q \in Promotions : PathOf[p] = PathOf[q] <=> CandidateOf[p] = CandidateOf[q]

Walks == [Stage -> 0 .. ObservationsPerStage]

\* A walk bears a controller out: the stages before the one it is at have
\* all their observations, and that one as many as the controller counts.
Backed(c, w) ==
  /\ \A s \in Stage : s < c.stage => w[s] = ObservationsPerStage
  /\ c.healthy <= w[c.stage]

CtrlBacked ==
  \A r \in Rollouts : InFlight(r) /\ pc[r] # "load" =>
    ctrl[r].candidate = CandidateOf[prom[r]] /\ Backed(ctrl[r], walk[ctrl[r].candidate])

CkptBacked ==
  \A p \in Promotions : ckpt[PathOf[p]] # None =>
    /\ ckpt[PathOf[p]] \in Controllers
    /\ ckpt[PathOf[p]].candidate = CandidateOf[p]
    /\ Backed(ckpt[PathOf[p]], walk[CandidateOf[p]])

WalkInv == IInv /\ CtrlBacked /\ CkptBacked

\* A fresh controller claims nothing, so any walk bears it out.
LEMMA NewControllerBacked ==
  ASSUME NEW w \in Walks, NEW candidate, NEW target
  PROVE  Backed(NewController(candidate, target), w)
BY ObservationsPerStageAssumption DEF Backed, NewController, Walks, Stage, FinalStage

\* More observations bear out what fewer did.
LEMMA BackedGrows ==
  ASSUME NEW c \in Controllers, NEW v \in Walks, NEW w \in Walks, Backed(c, v),
         \A s \in Stage : v[s] <= w[s]
  PROVE  Backed(c, w)
<1>1. c.stage \in Stage /\ c.healthy \in 0 .. ObservationsPerStage
  BY DEF Controllers, Controller
<1>2. \A s \in Stage : v[s] \in 0 .. ObservationsPerStage /\ w[s] \in 0 .. ObservationsPerStage
  BY DEF Walks
<1> QED
  BY <1>1, <1>2, ObservationsPerStageAssumption DEF Backed

\* The walk after a measurement of a controller.
Walked(c, passes, w) ==
  IF c.state = "Serving" /\ passes /\ w[c.stage] < ObservationsPerStage
  THEN [w EXCEPT ![c.stage] = @ + 1]
  ELSE w

\* A measurement keeps the controller borne out by the walk it makes longer.
LEMMA ObservedBacked ==
  ASSUME NEW c \in Controllers, NEW w \in Walks, NEW passes \in BOOLEAN, Backed(c, w)
  PROVE  /\ Walked(c, passes, w) \in Walks
         /\ \A s \in Stage : w[s] <= Walked(c, passes, w)[s]
         /\ Backed(Observed(c, passes), Walked(c, passes, w))
<1> SUFFICES ASSUME NEW v, v = Walked(c, passes, w)
             PROVE  /\ v \in Walks
                    /\ \A s \in Stage : w[s] <= v[s]
                    /\ Backed(Observed(c, passes), v)
  OBVIOUS
<1>1. c.stage \in Stage /\ c.healthy \in 0 .. ObservationsPerStage
  BY DEF Controllers, Controller
<1>2. \A s \in Stage : w[s] \in 0 .. ObservationsPerStage
  BY DEF Walks
<1>3. v \in Walks
  <2>1. CASE c.state = "Serving" /\ passes /\ w[c.stage] < ObservationsPerStage
    <3>1. w[c.stage] + 1 \in 0 .. ObservationsPerStage
      BY <1>1, <1>2, <2>1, ObservationsPerStageAssumption
    <3> QED
      BY <1>1, <2>1, <3>1 DEF Walked, Walks
  <2> QED
    BY <2>1 DEF Walked
<1>4. \A s \in Stage : w[s] <= v[s]
  BY <1>1, <1>2, ObservationsPerStageAssumption DEF Walked, Walks
<1>5. Backed(c, v)
  BY <1>3, <1>4, BackedGrows
<1>6. CASE c.state # "Serving"
  BY <1>3, <1>4, <1>5, <1>6 DEF Observed
<1>7. CASE c.state = "Serving" /\ ~ passes
  <2>1. Observed(c, passes) = [c EXCEPT !.state = "RolledBack"]
    BY <1>7 DEF Observed, ObserveDecision
  <2>2. /\ Observed(c, passes).stage = c.stage
        /\ Observed(c, passes).healthy = c.healthy
    BY <2>1 DEF Controllers, Controller
  <2> QED
    BY <1>3, <1>4, <1>5, <2>2 DEF Backed
<1>8. CASE c.state = "Serving" /\ passes
  <2>1. v[c.stage] = IF w[c.stage] < ObservationsPerStage THEN w[c.stage] + 1 ELSE w[c.stage]
    BY <1>1, <1>8 DEF Walked, Walks
  <2>2. c.healthy <= w[c.stage]
    BY DEF Backed
  <2>3. CASE StageComplete(c) /\ c.stage < FinalStage
    <3>1. Observed(c, passes) = [c EXCEPT !.stage = @ + 1, !.healthy = 0]
      BY <1>8, <2>3 DEF Observed, ObserveDecision
    <3>2. /\ Observed(c, passes).stage = c.stage + 1
          /\ Observed(c, passes).healthy = 0
      BY <3>1 DEF Controllers, Controller
    <3>3. v[c.stage] = ObservationsPerStage
      BY <1>1, <1>2, <2>1, <2>2, <2>3, ObservationsPerStageAssumption DEF StageComplete
    <3>4. c.stage + 1 \in Stage /\ 0 <= v[c.stage + 1]
      BY <1>1, <1>3, <2>3, ObservationsPerStageAssumption DEF Stage, FinalStage, Walks
    <3>5. \A s \in Stage : s < c.stage + 1 => v[s] = ObservationsPerStage
      BY <1>1, <1>5, <3>3 DEF Backed, Stage, FinalStage
    <3> QED
      BY <1>3, <1>4, <3>2, <3>4, <3>5 DEF Backed
  <2>4. CASE ~ (StageComplete(c) /\ c.stage < FinalStage)
    <3>1. Observed(c, passes) = CountHealthy(c)
      BY <1>8, <2>4 DEF Observed, ObserveDecision
    <3>2. /\ Observed(c, passes).stage = c.stage
          /\ Observed(c, passes).healthy =
               IF c.healthy < ObservationsPerStage THEN c.healthy + 1 ELSE c.healthy
      BY <3>1 DEF CountHealthy, Controllers, Controller
    <3>3. Observed(c, passes).healthy <= v[c.stage]
      BY <1>1, <1>2, <2>1, <2>2, <3>2, ObservationsPerStageAssumption
    <3> QED
      BY <1>3, <1>4, <1>5, <3>2, <3>3 DEF Backed
  <2> QED
    BY <2>3, <2>4
<1>9. Backed(Observed(c, passes), v)
  BY <1>6, <1>7, <1>8
<1> QED
  BY <1>3, <1>4, <1>9

\* A step that leaves walks, checkpoints and in-flight controllers alone.
LEMMA WalkFrame ==
  ASSUME WalkInv, IInv', UNCHANGED <<walk, ckpt>>,
         \A q \in Rollouts : InFlight(q)' /\ pc'[q] # "load" =>
           /\ InFlight(q) /\ pc[q] # "load"
           /\ prom'[q] = prom[q] /\ ctrl'[q] = ctrl[q]
  PROVE  WalkInv'
BY DEF WalkInv, CtrlBacked, CkptBacked

\* Every step keeps the controllers, in memory and on disk, borne out.
LEMMA WalkStep == ASSUME OwnCheckpoints, WalkInv, [Next]_vars PROVE WalkInv'
<1> USE DEF InFlight
<1>0. IInv /\ IInv'
  BY IInvStep DEF WalkInv
<1>a. walk \in [Candidates -> Walks] /\ walk' \in [Candidates -> Walks]
  BY <1>0 DEF IInv, TypeOK, Walks
<1>1. ASSUME NEW r \in Rollouts, Observe(r) PROVE WalkInv'
  <2> DEFINE c == ctrl[r]
             cand == CandidateOf[prom[r]]
  <2>1. /\ c \in Controllers /\ prom[r] \in Promotions /\ cand \in Candidates
        /\ c.candidate = cand /\ Backed(c, walk[cand])
    BY <1>0, <1>1, TargetType DEF Observe, WalkInv, IInv, CallOK, CtrlBacked
  <2>2. PICK passes \in BOOLEAN :
          /\ ctrl' = [ctrl EXCEPT ![r] = Observed(c, passes)]
          /\ walk' = [walk EXCEPT ![cand] = Walked(c, passes, walk[cand])]
    <3>1. walk = [walk EXCEPT ![cand] = walk[cand]]
      BY <1>a
    <3> QED
      BY <1>1, <1>a, <2>1, <3>1 DEF Observe, Walked
  <2>3. /\ Observed(c, passes) \in Controllers
        /\ Observed(c, passes).candidate = cand
    BY <2>1, ObservedType DEF Controllers
  <2>4. /\ walk'[cand] \in Walks
        /\ \A s \in Stage : walk[cand][s] <= walk'[cand][s]
        /\ Backed(Observed(c, passes), walk'[cand])
    BY <1>a, <2>1, <2>2, ObservedBacked
  <2>5. \A d \in Candidates : d # cand => walk'[d] = walk[d]
    BY <1>a, <2>1, <2>2
  <2>6. CtrlBacked'
    <3> SUFFICES ASSUME NEW q \in Rollouts, (InFlight(q) /\ pc[q] # "load")'
                 PROVE  /\ ctrl'[q].candidate = CandidateOf[prom'[q]]
                        /\ Backed(ctrl'[q], walk'[ctrl'[q].candidate])
      BY DEF CtrlBacked
    <3>1. CASE q = r
      BY <1>0, <1>1, <2>2, <2>3, <2>4, <3>1 DEF Observe, IInv, TypeOK
    <3>2. CASE q # r
      <4>1. InFlight(q) /\ pc[q] # "load" /\ prom'[q] = prom[q] /\ ctrl'[q] = ctrl[q]
        BY <1>0, <1>1, <2>2, <3>2 DEF Observe, IInv, TypeOK
      <4>2. prom[q] \in Promotions /\ ctrl[q] \in Controllers /\ Target(prom[q]) # Target(prom[r])
        BY <1>0, <1>1, <3>2, <4>1 DEF Observe, IInv, CallOK, OneRolloutPerTarget
      <4>3. CandidateOf[prom[q]] # cand /\ CandidateOf[prom[q]] \in Candidates
        BY <4>2, TargetType DEF Target
      <4> QED
        BY <2>5, <4>1, <4>3 DEF WalkInv, CtrlBacked
    <3> QED
      BY <3>1, <3>2
  <2>7. CkptBacked'
    <3> SUFFICES ASSUME NEW p \in Promotions, ckpt[PathOf[p]] # None
                 PROVE  Backed(ckpt[PathOf[p]], walk'[CandidateOf[p]])
      BY <1>1 DEF Observe, WalkInv, CkptBacked
    <3>1. ckpt[PathOf[p]] \in Controllers /\ Backed(ckpt[PathOf[p]], walk[CandidateOf[p]])
      BY DEF WalkInv, CkptBacked
    <3>2. CASE CandidateOf[p] = cand
      BY <1>a, <2>1, <2>4, <3>1, <3>2, BackedGrows
    <3>3. CASE CandidateOf[p] # cand
      BY <2>5, <3>1, <3>3, TargetType
    <3> QED
      BY <3>2, <3>3
  <2> QED
    BY <1>0, <2>6, <2>7 DEF WalkInv
<1>2. ASSUME NEW r \in Rollouts, Load(r) PROVE WalkInv'
  <2>1. prom[r] \in Promotions /\ CandidateOf[prom[r]] \in Candidates
    BY <1>0, <1>2, TargetType DEF Load, IInv, CallOK
  <2>2. /\ ctrl'[r].candidate = CandidateOf[prom[r]]
        /\ Backed(ctrl'[r], walk[CandidateOf[prom[r]]])
    <3>1. \/ /\ ckpt[PathOf[prom[r]]] # None
             /\ ctrl'[r] = ckpt[PathOf[prom[r]]]
          \/ ctrl'[r] = NewController(CandidateOf[prom[r]], Target(prom[r]))
      BY <1>0, <1>2 DEF Load, IInv, TypeOK
    <3>2. NewController(CandidateOf[prom[r]], Target(prom[r])).candidate = CandidateOf[prom[r]]
      BY DEF NewController
    <3> QED
      BY <1>a, <2>1, <3>1, <3>2, NewControllerBacked DEF WalkInv, CkptBacked
  <2>3. CtrlBacked'
    BY <1>0, <1>2, <2>2 DEF Load, WalkInv, CtrlBacked, IInv, TypeOK
  <2>4. CkptBacked'
    BY <1>2 DEF Load, WalkInv, CkptBacked
  <2> QED
    BY <1>0, <2>3, <2>4 DEF WalkInv
<1>3. ASSUME NEW r \in Rollouts, Save(r) PROVE WalkInv'
  <2>1. /\ prom[r] \in Promotions /\ ctrl[r] \in Controllers
        /\ ctrl[r].candidate = CandidateOf[prom[r]]
        /\ Backed(ctrl[r], walk[CandidateOf[prom[r]]])
    BY <1>0, <1>3 DEF Save, WalkInv, CtrlBacked, IInv, CallOK
  <2>2. CtrlBacked'
    BY <1>0, <1>3 DEF Save, WalkInv, CtrlBacked, IInv, TypeOK
  <2>3. CkptBacked'
    <3> SUFFICES ASSUME NEW p \in Promotions, ckpt'[PathOf[p]] # None
                 PROVE  /\ ckpt'[PathOf[p]] \in Controllers
                        /\ ckpt'[PathOf[p]].candidate = CandidateOf[p]
                        /\ Backed(ckpt'[PathOf[p]], walk[CandidateOf[p]])
      BY <1>3 DEF Save, CkptBacked
    <3>1. CASE ckpt'[PathOf[p]] = ckpt[PathOf[p]]
      BY <3>1 DEF WalkInv, CkptBacked
    <3>2. CASE ckpt'[PathOf[p]] # ckpt[PathOf[p]]
      <4>1. PathOf[p] = PathOf[prom[r]] /\ ckpt'[PathOf[p]] = ctrl[r]
        BY <1>0, <1>3, <2>1, <3>2, RolloutAssumption DEF Save, IInv, TypeOK
      <4>2. CandidateOf[p] = CandidateOf[prom[r]]
        BY <2>1, <4>1 DEF OwnCheckpoints
      <4> QED
        BY <2>1, <4>1, <4>2
    <3> QED
      BY <3>1, <3>2
  <2> QED
    BY <1>0, <2>2, <2>3 DEF WalkInv
<1>4. ASSUME NEW r \in Rollouts, Promote(r) PROVE WalkInv'
  <2>1. ctrl[r] \in Controllers /\ ctrl[r].candidate = CandidateOf[prom[r]]
        /\ Backed(ctrl[r], walk[CandidateOf[prom[r]]])
    BY <1>0, <1>4 DEF Promote, WalkInv, CtrlBacked, IInv, CallOK
  <2> DEFINE after == AfterPromote(ctrl[r], Artifact(prom[r]))
  <2>2. after.candidate = ctrl[r].candidate /\ Backed(after, walk[CandidateOf[prom[r]]])
    BY <2>1 DEF AfterPromote, Backed, Controllers, Controller
  <2>3. ctrl' = ctrl \/ ctrl' = [ctrl EXCEPT ![r] = after]
    BY <1>4 DEF Promote
  <2>4. CtrlBacked'
    BY <1>0, <1>4, <2>1, <2>2, <2>3 DEF Promote, WalkInv, CtrlBacked, IInv, TypeOK
  <2>5. CkptBacked'
    BY <1>4 DEF Promote, WalkInv, CkptBacked
  <2> QED
    BY <1>0, <2>4, <2>5 DEF WalkInv
<1>5. ASSUME NEW r \in Rollouts, Return(r) PROVE WalkInv'
  <2> DEFINE cand == CandidateOf[prom[r]]
  <2>1. prom[r] \in Promotions /\ cand \in Candidates
    BY <1>0, <1>5, TargetType DEF Return, IInv, CallOK
  <2>2. ASSUME NEW q \in Rollouts, (InFlight(q) /\ pc[q] # "load")'
        PROVE  /\ InFlight(q) /\ pc[q] # "load" /\ q # r
               /\ prom'[q] = prom[q] /\ ctrl'[q] = ctrl[q]
    BY <1>0, <1>5, <2>2 DEF Return, Leave, IInv, TypeOK
  <2>3. CASE UNCHANGED <<ckpt, walk>>
    BY <1>0, <2>2, <2>3, WalkFrame
  <2>4. CASE /\ ckpt' = [ckpt EXCEPT ![PathOf[prom[r]]] = None]
             /\ walk' = [walk EXCEPT ![cand] = EmptyWalk]
    <3>1. \A d \in Candidates : d # cand => walk'[d] = walk[d]
      BY <1>a, <2>1, <2>4
    <3>2. CtrlBacked'
      <4> SUFFICES ASSUME NEW q \in Rollouts, (InFlight(q) /\ pc[q] # "load")'
                   PROVE  /\ ctrl'[q].candidate = CandidateOf[prom'[q]]
                          /\ Backed(ctrl'[q], walk'[ctrl'[q].candidate])
        BY DEF CtrlBacked
      <4>1. prom[q] \in Promotions /\ Target(prom[q]) # Target(prom[r])
        BY <1>0, <1>5, <2>2 DEF Return, IInv, CallOK, OneRolloutPerTarget
      <4>2. CandidateOf[prom[q]] # cand /\ CandidateOf[prom[q]] \in Candidates
        BY <4>1, TargetType DEF Target
      <4> QED
        BY <2>2, <3>1, <4>2 DEF WalkInv, CtrlBacked
    <3>3. CkptBacked'
      <4> SUFFICES ASSUME NEW p \in Promotions, ckpt'[PathOf[p]] # None
                   PROVE  /\ ckpt'[PathOf[p]] \in Controllers
                          /\ ckpt'[PathOf[p]].candidate = CandidateOf[p]
                          /\ Backed(ckpt'[PathOf[p]], walk'[CandidateOf[p]])
        BY DEF CkptBacked
      <4>1. PathOf[p] # PathOf[prom[r]] /\ ckpt'[PathOf[p]] = ckpt[PathOf[p]]
        BY <1>0, <2>1, <2>4, RolloutAssumption DEF IInv, TypeOK
      <4>2. CandidateOf[p] # cand /\ CandidateOf[p] \in Candidates
        BY <2>1, <4>1, TargetType DEF OwnCheckpoints
      <4> QED
        BY <3>1, <4>1, <4>2 DEF WalkInv, CkptBacked
    <3> QED
      BY <1>0, <3>2, <3>3 DEF WalkInv
  <2> QED
    BY <1>5, <2>3, <2>4 DEF Return
<1>6. ASSUME NEW r \in Rollouts,
             Exhausted(r) \/ Restore(r) \/ Confirm(r) \/ Record(r) \/ Panic(r)
      PROVE  WalkInv'
  BY <1>0, <1>6, WalkFrame
     DEF Exhausted, Restore, Confirm, Record, Panic, Leave, IInv, TypeOK
<1>7. ASSUME NEW h \in Handles, Open(h) PROVE WalkInv'
  BY <1>0, <1>7, WalkFrame DEF Open, local
<1>8. ASSUME NEW p \in Promotions, Deploy(p) PROVE WalkInv'
  BY <1>0, <1>8, WalkFrame DEF Deploy, process
<1>9. ASSUME NEW r \in Rollouts, NEW p \in Promotions, Acquire(r, p) PROVE WalkInv'
  BY <1>0, <1>9, WalkFrame DEF Acquire, IInv, TypeOK
<1>10. CASE Crash
  BY <1>0, <1>10, WalkFrame DEF Crash
<1>11. CASE UNCHANGED vars
  BY <1>0, <1>11, WalkFrame DEF vars, process
<1> QED
  BY <1>1, <1>2, <1>3, <1>4, <1>5, <1>6, <1>7, <1>8, <1>9, <1>10, <1>11 DEF Next, Step

\* A controller that may be promoted has the whole walk behind it.
LEMMA PromoteWhole ==
  ASSUME WalkInv, NEW r \in Rollouts, Promote(r), outcome'[r] = "promoted", outcome[r] # "promoted"
  PROVE  WholeWalk(CandidateOf[prom[r]])
<1>1. /\ ctrl[r] \in Controllers /\ prom[r] \in Promotions
      /\ Backed(ctrl[r], walk[CandidateOf[prom[r]]])
      /\ walk[CandidateOf[prom[r]]] \in Walks
  BY TargetType DEF Promote, WalkInv, CtrlBacked, IInv, CallOK, InFlight, TypeOK, Walks
<1>2. CanaryComplete(ctrl[r])
  BY DEF Promote, MayPromote
<1> DEFINE w == walk[CandidateOf[prom[r]]]
<1>3. ctrl[r].stage = 4 /\ ctrl[r].healthy >= ObservationsPerStage
  BY <1>2 DEF CanaryComplete, FinalStage
<1>4. \A s \in Stage : w[s] \in 0 .. ObservationsPerStage
  BY <1>1 DEF Walks
<1>5. \A s \in Stage : s < 4 => w[s] = ObservationsPerStage
  BY <1>1, <1>3 DEF Backed
<1>6. ctrl[r].healthy <= w[4] /\ ctrl[r].healthy \in 0 .. ObservationsPerStage
  BY <1>1, <1>3 DEF Backed, Controllers, Controller
<1>7. w[4] = ObservationsPerStage
  BY <1>3, <1>4, <1>6, ObservationsPerStageAssumption DEF Stage, FinalStage
<1>8. \A s \in Stage : s < 4 \/ s = 4
  BY DEF Stage, FinalStage
<1> QED
  BY <1>5, <1>7, <1>8 DEF WholeWalk

\* The step PromotedAfterWholeWalk allows.
PromotionStep ==
  \A r \in Rollouts :
    outcome[r] # "promoted" /\ outcome'[r] = "promoted" => WholeWalk(CandidateOf[prom[r]])

\* If every candidate has a checkpoint file of its own, an artifact is only
\* ever promoted after its candidate's own measurements filled every stage,
\* whatever crashed, panicked, failed to be written or could not be read.
THEOREM WholeWalkBeforePromotion ==
  ASSUME OwnCheckpoints
  PROVE  Spec => PromotedAfterWholeWalk
<1>1. Init => WalkInv
  <2> SUFFICES ASSUME Init PROVE WalkInv
    OBVIOUS
  <2>1. CtrlBacked
    BY DEF Init, InFlight, CtrlBacked
  <2>2. CkptBacked
    BY RolloutAssumption DEF Init, CkptBacked
  <2> QED
    BY <2>1, <2>2, IInvInit DEF WalkInv
<1>2. WalkInv /\ [Next]_vars => WalkInv'
  BY WalkStep
<1>3. WalkInv /\ [Next]_vars => PromotionStep
  <2> SUFFICES ASSUME WalkInv, [Next]_vars, NEW r \in Rollouts,
                      outcome[r] # "promoted", outcome'[r] = "promoted"
               PROVE  WholeWalk(CandidateOf[prom[r]])
    BY DEF PromotionStep
  <2>1. outcome \in [Rollouts -> {"none", "promoted", "rolledBack"}]
    BY DEF WalkInv, IInv, TypeOK
  <2>2. ASSUME NEW q \in Rollouts, Promote(q) PROVE q = r
    BY <2>1, <2>2 DEF Promote
  <2>3. ASSUME NEW q \in Rollouts, Step(q), ~ Promote(q) PROVE FALSE
    BY <2>1, <2>3
       DEF Step, Load, Observe, Exhausted, Save, Restore, Confirm, Record, Return, Leave
  <2>4. ASSUME NEW q \in Rollouts, Panic(q) PROVE FALSE
    BY <2>1, <2>4 DEF Panic, Leave
  <2>5. ASSUME NEW h \in Handles, Open(h) PROVE FALSE
    BY <2>5 DEF Open, local
  <2>6. ASSUME NEW p \in Promotions, Deploy(p) PROVE FALSE
    BY <2>6 DEF Deploy, process
  <2>7. ASSUME NEW q \in Rollouts, NEW p \in Promotions, Acquire(q, p) PROVE FALSE
    BY <2>7 DEF Acquire
  <2>8. ~ Crash
    BY DEF Crash
  <2>9. ~ UNCHANGED vars
    BY DEF vars, process
  <2>10. CASE \E q \in Rollouts : Step(q)
    BY <2>2, <2>3, <2>10, PromoteWhole
  <2>11. CASE ~ \E q \in Rollouts : Step(q)
    BY <2>4, <2>5, <2>6, <2>7, <2>8, <2>9, <2>11 DEF Next
  <2> QED
    BY <2>10, <2>11
<1>4. WalkInv /\ [Next]_vars => [PromotionStep]_vars
  BY <1>3
<1> QED
  BY <1>1, <1>2, <1>4, PTL DEF Spec, PromotedAfterWholeWalk, PromotionStep

-----------------------------------------------------------------------------
(* Promotion once.                                                         *)

\* The discipline of one ledger: the calls are lent the one handle, and what
\* they record in it is recorded.  The run SharedLedger is an instance.
SharedHandle == \A r, q \in Rollouts : HandleOf[r] = HandleOf[q]
RecordsSucceed == "recordFails" \notin Faults

\* The nonces of a longer log.
LEMMA NoncesAppend ==
  ASSUME NEW N, NEW lines \in Seq(Lines(N)), NEW line \in Lines(N)
  PROVE  /\ Nonces(Append(lines, line)) = Append(Nonces(lines), line.nonce)
         /\ Known(Nonces(Append(lines, line))) = Known(Nonces(lines)) \cup {line.nonce}
<1> DEFINE n == Len(lines)
           longer == Append(lines, line)
<1>1. /\ n \in Nat /\ Len(longer) = n + 1
      /\ \A i \in 1 .. n : longer[i] = lines[i]
      /\ longer[n + 1] = line
  OBVIOUS
<1>2. Nonces(lines) \in Seq(N) /\ Len(Nonces(lines)) = n
  <2>1. Nonces(lines) = [i \in 1 .. n |-> lines[i].nonce]
    BY DEF Nonces, History
  <2> QED
    BY <2>1, NoncesType
<1>3. Nonces(longer) = [i \in 1 .. n + 1 |-> longer[i].nonce]
  BY <1>1 DEF Nonces, History
<1>4. line.nonce \in N
  BY DEF Lines
<1>5. DOMAIN Nonces(lines) = 1 .. n /\ \A i \in 1 .. n : Nonces(lines)[i] = lines[i].nonce
  BY DEF Nonces, History
<1> HIDE DEF n, longer
<1>6. Append(Nonces(lines), line.nonce)
        = [i \in 1 .. n + 1 |-> IF i = n + 1 THEN line.nonce ELSE Nonces(lines)[i]]
  BY <1>1, <1>2, <1>4
<1>7. Nonces(longer) = Append(Nonces(lines), line.nonce)
  BY <1>1, <1>3, <1>5, <1>6
<1>8. Known(Nonces(longer)) = Known(Nonces(lines)) \cup {line.nonce}
  <2>1. /\ DOMAIN Nonces(longer) = 1 .. n + 1
        /\ \A i \in 1 .. n : Nonces(longer)[i] = Nonces(lines)[i]
        /\ Nonces(longer)[n + 1] = line.nonce
    BY <1>1, <1>3, <1>5
  <2> QED
    BY <1>1, <1>5, <2>1 DEF Known
<1> QED
  BY <1>7, <1>8 DEF longer

\* What is durable, what the handle remembers and what was reported agree.
LedgerInv ==
  /\ \A r \in Rollouts :
       entries[HandleOf[r]] # None => entries[HandleOf[r]] = Nonces(log)
  /\ \A p \in Promotions :
       wins[p] # 0 => wins[p] = 1 /\ p \in Known(Nonces(log))
  /\ \A r \in Rollouts :
       outcome[r] = "promoted" => pc[r] \in {"record", "return"}
  /\ \A r \in Rollouts : pc[r] = "record" =>
       outcome[r] = "promoted" /\ prom[r] \notin Known(Nonces(log))
  /\ \A r \in Rollouts : pc[r] = "return" /\ outcome[r] = "promoted" =>
       prom[r] \in Known(Nonces(log)) /\ wins[prom[r]] = 0

OnceInv == IInv /\ LedgerInv

\* With one handle there is one call at a time.
LEMMA OneCall ==
  ASSUME SharedHandle, IInv, NEW r \in Rollouts, InFlight(r),
         NEW q \in Rollouts, InFlight(q)
  PROVE  q = r
BY DEF SharedHandle, IInv, HandleAlone

\* A step that records nothing, reports nothing and promotes nothing.
LEMMA LedgerFrame ==
  ASSUME OnceInv, UNCHANGED <<log, wins>>,
         \A r \in Rollouts : entries'[HandleOf[r]] \in {None, entries[HandleOf[r]]},
         \A r \in Rollouts :
           \/ /\ outcome'[r] = outcome[r] /\ pc'[r] = pc[r] /\ prom'[r] = prom[r]
           \/ outcome'[r] # "promoted" /\ pc'[r] # "record"
  PROVE  LedgerInv'
BY DEF OnceInv, LedgerInv

\* The line a call records is a line, after which the handle has its nonce too.
LEMMA Recorded ==
  ASSUME IInv, NEW r \in Rollouts, Record(r), RecordsSucceed
  PROVE  /\ prom[r] \in Promotions /\ entries[HandleOf[r]] # None
         /\ entries' = [entries EXCEPT ![HandleOf[r]] = Append(@, prom[r])]
         /\ Nonces(log') = Append(Nonces(log), prom[r])
         /\ Known(Nonces(log')) = Known(Nonces(log)) \cup {prom[r]}
<1> DEFINE line == Line(prom[r], entries[HandleOf[r]])
<1>1. prom[r] \in Promotions /\ entries[HandleOf[r]] \in Seq(Promotions)
  BY DEF Record, IInv, CallOK, InFlight
<1>2. line \in Lines(Promotions) /\ line.nonce = prom[r]
  BY <1>1 DEF Line, Lines
<1>3. /\ log' = Append(log, line)
      /\ entries' = [entries EXCEPT ![HandleOf[r]] = Append(@, prom[r])]
  BY DEF Record, RecordsSucceed
<1>4. log \in Seq(Lines(Promotions))
  BY DEF IInv, TypeOK
<1>5. entries[HandleOf[r]] # None
  BY <1>1, RolloutAssumption
<1> HIDE DEF line
<1> QED
  BY <1>1, <1>2, <1>3, <1>4, <1>5, NoncesAppend

\* Every step keeps them in agreement.
LEMMA OnceStep ==
  ASSUME SharedHandle, RecordsSucceed, OnceInv, [Next]_vars
  PROVE  OnceInv'
<1>0. IInv /\ IInv' /\ LedgerInv
  BY IInvStep DEF OnceInv
<1>a. /\ pc \in [Rollouts -> Where] /\ prom \in [Rollouts -> Promotions \cup {None}]
      /\ outcome \in [Rollouts -> {"none", "promoted", "rolledBack"}]
      /\ entries \in [Handles -> Seq(Promotions) \cup {None}]
      /\ wins \in [Promotions -> 0 .. 2]
      /\ HandleOf \in [Rollouts -> Handles]
  BY <1>0, RolloutAssumption DEF IInv, TypeOK
<1>1. ASSUME NEW h \in Handles, Open(h) PROVE LedgerInv'
  BY <1>0, <1>1, <1>a DEF Open, local, LedgerInv
<1>2. ASSUME NEW r \in Rollouts, NEW p \in Promotions, Acquire(r, p) PROVE LedgerInv'
  <2>1. \A q \in Rollouts :
          \/ outcome'[q] = outcome[q] /\ pc'[q] = pc[q] /\ prom'[q] = prom[q]
          \/ outcome'[q] # "promoted" /\ pc'[q] # "record"
    BY <1>0, <1>2, <1>a DEF Acquire, LedgerInv
  <2> QED
    BY <1>2, <2>1, LedgerFrame DEF Acquire
<1>3. ASSUME NEW r \in Rollouts,
             Load(r) \/ Observe(r) \/ Exhausted(r) \/ Save(r) \/ Restore(r) \/ Confirm(r)
      PROVE  LedgerInv'
  <2>1. /\ pc[r] \in {"load", "observe", "save", "restore", "confirm"}
        /\ \E w \in Where : pc' = [pc EXCEPT ![r] = w] /\ w # "record"
        /\ UNCHANGED <<prom, entries, log, wins>>
        /\ \/ UNCHANGED outcome
           \/ \E o \in {outcome[r], "rolledBack"} : outcome' = [outcome EXCEPT ![r] = o]
    BY <1>3 DEF Load, Observe, Exhausted, Save, AfterSave, Restore, Confirm, Where
  <2>2. outcome[r] # "promoted"
    BY <1>0, <2>1 DEF LedgerInv
  <2>3. \A q \in Rollouts :
          \/ outcome'[q] = outcome[q] /\ pc'[q] = pc[q] /\ prom'[q] = prom[q]
          \/ outcome'[q] # "promoted" /\ pc'[q] # "record"
    BY <1>a, <2>1, <2>2
  <2> QED
    BY <2>1, <2>3, LedgerFrame
<1>4. ASSUME NEW r \in Rollouts, Promote(r) PROVE LedgerInv'
  <2>1. /\ pc[r] = "promote" /\ UNCHANGED <<prom, entries, log, wins>>
        /\ \/ /\ outcome' = [outcome EXCEPT ![r] = "promoted"]
              /\ pc' = [pc EXCEPT ![r] = "record"]
              /\ ~ Already(r)
           \/ outcome' = outcome /\ pc' = [pc EXCEPT ![r] = "return"]
    BY <1>4 DEF Promote
  <2>2. entries[HandleOf[r]] = Nonces(log) /\ prom[r] \in Promotions
    <3>1. entries[HandleOf[r]] \in Seq(Promotions) /\ prom[r] \in Promotions
      BY <1>0, <2>1 DEF IInv, CallOK, InFlight
    <3> QED
      BY <1>0, <3>1, RolloutAssumption DEF LedgerInv
  <2>3. CASE outcome' = outcome /\ pc' = [pc EXCEPT ![r] = "return"]
    <3>1. outcome[r] # "promoted"
      BY <1>0, <2>1 DEF LedgerInv
    <3> QED
      BY <1>a, <2>1, <2>3, <3>1, LedgerFrame
  <2>4. CASE /\ outcome' = [outcome EXCEPT ![r] = "promoted"]
             /\ pc' = [pc EXCEPT ![r] = "record"]
             /\ ~ Already(r)
    BY <1>0, <1>a, <2>1, <2>2, <2>4 DEF LedgerInv, Already
  <2> QED
    BY <2>1, <2>3, <2>4
<1>5. ASSUME NEW r \in Rollouts, Record(r) PROVE LedgerInv'
  <2>1. /\ prom[r] \in Promotions /\ entries[HandleOf[r]] # None
        /\ entries' = [entries EXCEPT ![HandleOf[r]] = Append(@, prom[r])]
        /\ Nonces(log') = Append(Nonces(log), prom[r])
        /\ Known(Nonces(log')) = Known(Nonces(log)) \cup {prom[r]}
    BY <1>0, <1>5, Recorded
  <2>2. /\ pc[r] = "record" /\ pc' = [pc EXCEPT ![r] = "return"]
        /\ UNCHANGED <<prom, outcome, wins>>
    BY <1>5 DEF Record
  <2>3. \A q \in Rollouts : q # r => pc[q] = "idle"
    BY <1>0, <2>2, OneCall DEF InFlight
  <2>4. \A q \in Rollouts :
          entries'[HandleOf[q]] # None => entries'[HandleOf[q]] = Nonces(log')
    <3>1. entries[HandleOf[r]] = Nonces(log)
      BY <1>0, <2>1 DEF LedgerInv
    <3> QED
      BY <1>a, <2>1, <3>1 DEF SharedHandle
  <2>5. wins[prom[r]] = 0
    BY <1>0, <2>1, <2>2 DEF LedgerInv
  <2>6. \A q \in Rollouts : q # r => pc'[q] = "idle" /\ outcome'[q] # "promoted"
    BY <1>0, <1>a, <2>2, <2>3 DEF LedgerInv
  <2>7. pc'[r] = "return" /\ prom'[r] = prom[r]
    BY <1>a, <2>2
  <2> QED
    BY <1>0, <2>1, <2>2, <2>4, <2>5, <2>6, <2>7 DEF LedgerInv
<1>6. ASSUME NEW r \in Rollouts, Return(r) PROVE LedgerInv'
  <2>1. /\ pc[r] = "return" /\ UNCHANGED <<entries, log>>
        /\ pc' = [pc EXCEPT ![r] = "idle"] /\ prom' = [prom EXCEPT ![r] = None]
        /\ outcome' = [outcome EXCEPT ![r] = "none"]
    BY <1>6 DEF Return, Leave
  <2>2. \A q \in Rollouts : q # r => pc[q] = "idle" /\ outcome[q] # "promoted"
    BY <1>0, <2>1, OneCall DEF InFlight, LedgerInv
  <2>3. \A p \in Promotions :
          wins'[p] # 0 => wins'[p] = 1 /\ p \in Known(Nonces(log))
    <3>1. \/ wins' = wins
          \/ /\ outcome[r] = "promoted"
             /\ wins' = [wins EXCEPT ![prom[r]] = @ + 1]
      BY <1>6 DEF Return
    <3>2. prom[r] \in Promotions
      BY <1>0, <2>1 DEF IInv, CallOK, InFlight
    <3>3. outcome[r] = "promoted" =>
            prom[r] \in Known(Nonces(log)) /\ wins[prom[r]] = 0
      BY <1>0, <2>1 DEF LedgerInv
    <3> QED
      BY <1>0, <1>a, <3>1, <3>2, <3>3 DEF LedgerInv
  <2>4. \A q \in Rollouts : pc'[q] = "idle" /\ outcome'[q] # "promoted"
    BY <1>a, <2>1, <2>2
  <2> QED
    BY <1>0, <2>1, <2>3, <2>4 DEF LedgerInv
<1>7. ASSUME NEW r \in Rollouts, Panic(r) PROVE LedgerInv'
  BY <1>7, <1>a, LedgerFrame DEF Panic, Leave
<1>8. ASSUME NEW p \in Promotions, Deploy(p) PROVE LedgerInv'
  BY <1>8, LedgerFrame DEF Deploy, process
<1>9. ASSUME Crash PROVE LedgerInv'
  <2>1. /\ log' = log /\ wins' = wins
        /\ \A r \in Rollouts : outcome'[r] = "none" /\ pc'[r] = "idle"
        /\ \A r \in Rollouts : entries'[HandleOf[r]] = None
    BY <1>9, <1>a DEF Crash
  <2> QED
    BY <2>1, LedgerFrame
<1>10. ASSUME UNCHANGED vars PROVE LedgerInv'
  <2>1. /\ log' = log /\ wins' = wins /\ outcome' = outcome /\ pc' = pc
        /\ prom' = prom /\ entries' = entries
    BY <1>10 DEF vars, process
  <2> QED
    BY <2>1, LedgerFrame
<1> QED
  BY <1>0, <1>1, <1>2, <1>3, <1>4, <1>5, <1>6, <1>7, <1>8, <1>9, <1>10
     DEF Next, Step, OnceInv

\* The ledger and what was reported agree before anything is opened.
LEMMA OnceInit == Init => OnceInv
<1> SUFFICES ASSUME Init PROVE LedgerInv
  BY IInvInit DEF OnceInv
<1> QED
  BY RolloutAssumption DEF Init, LedgerInv

\* Callers that share one ledger handle, whose records are written, never
\* report an artifact promoted twice, wherever a crash, a panic or a failed
\* checkpoint cuts them.
THEOREM NoSecondPromotion ==
  ASSUME SharedHandle, RecordsSucceed
  PROVE  Spec => []PromotedOnce
<1>1. OnceInv /\ [Next]_vars => OnceInv'
  BY OnceStep
<1>2. OnceInv => PromotedOnce
  BY DEF OnceInv, LedgerInv, PromotedOnce
<1> QED
  BY OnceInit, <1>1, <1>2, PTL DEF Spec

-----------------------------------------------------------------------------
(* A remembered rollback.                                                  *)

\* A call that read a rolled back checkpoint keeps it as it is, and only a call
\* whose restore was confirmed reports a rollback.
RollbackInv ==
  \A r \in Rollouts :
    /\ outcome[r] # "none" => pc[r] \in {"record", "return"}
    /\ outcome[r] = "promoted" => ~ RolledBackIn(PathOf[prom[r]])
    /\ outcome[r] = "rolledBack" => active[Target(prom[r])] = Target(prom[r])
    /\ InFlight(r) /\ pc[r] # "load" /\ RolledBackIn(PathOf[prom[r]]) =>
         ctrl[r] = ckpt[PathOf[prom[r]]]

KeptInv == IInv /\ RollbackInv

\* Two calls in flight have different checkpoint files.
LEMMA OwnFile ==
  ASSUME OwnCheckpoints, IInv, NEW r \in Rollouts, NEW q \in Rollouts,
         InFlight(r), InFlight(q), q # r
  PROVE  PathOf[prom[q]] # PathOf[prom[r]] /\ Target(prom[q]) # Target(prom[r])
BY DEF OwnCheckpoints, IInv, CallOK, OneRolloutPerTarget, Target

\* A step of one call that leaves the others, their files and their targets.
LEMMA KeptFrame ==
  ASSUME RollbackInv, NEW r \in Rollouts,
         \A q \in Rollouts : q # r =>
           /\ pc'[q] = pc[q] /\ prom'[q] = prom[q] /\ ctrl'[q] = ctrl[q]
           /\ outcome'[q] = outcome[q],
         \A q \in Rollouts : q # r /\ InFlight(q) =>
           /\ ckpt'[PathOf[prom[q]]] = ckpt[PathOf[prom[q]]]
           /\ active'[Target(prom[q])] = active[Target(prom[q])],
         /\ outcome'[r] # "none" => pc'[r] \in {"record", "return"}
         /\ outcome'[r] = "promoted" => ~ RolledBackIn(PathOf[prom[r]])'
         /\ outcome'[r] = "rolledBack" => active'[Target(prom'[r])] = Target(prom'[r])
         /\ (InFlight(r) /\ pc[r] # "load" /\ RolledBackIn(PathOf[prom[r]]))' =>
              ctrl'[r] = ckpt'[PathOf[prom'[r]]]
  PROVE  RollbackInv'
BY DEF RollbackInv, RolledBackIn, InFlight, Target

\* Every step keeps a remembered rollback as it was, or clears it confirmed.
LEMMA KeptStep ==
  ASSUME OwnCheckpoints, "unreadable" \notin Faults, KeptInv, [Next]_vars
  PROVE  RollbackInv'
<1> USE DEF InFlight
<1>0. IInv /\ IInv' /\ RollbackInv
  BY IInvStep DEF KeptInv
<1>a. /\ pc \in [Rollouts -> Where] /\ prom \in [Rollouts -> Promotions \cup {None}]
      /\ outcome \in [Rollouts -> {"none", "promoted", "rolledBack"}]
      /\ ctrl \in [Rollouts -> Controllers \cup {None}]
      /\ ckpt \in [Paths -> Controllers \cup {None}]
      /\ active \in [Targets -> Targets \cup Candidates]
  BY <1>0 DEF IInv, TypeOK
<1>b. \A q \in Rollouts : InFlight(q) =>
        /\ prom[q] \in Promotions /\ PathOf[prom[q]] \in Paths
        /\ Target(prom[q]) \in Targets /\ Target(prom[q]) \in held
  BY <1>0, TargetType, RolloutAssumption DEF IInv, CallOK
<1>c. \A r, q \in Rollouts : InFlight(r) /\ InFlight(q) /\ q # r =>
        PathOf[prom[q]] # PathOf[prom[r]] /\ Target(prom[q]) # Target(prom[r])
  BY <1>0, OwnFile
<1>1. ASSUME NEW p \in Promotions, Deploy(p) PROVE RollbackInv'
  <2>1. /\ UNCHANGED <<pc, prom, ctrl, outcome, ckpt>>
        /\ \A t \in held : active'[t] = active[t]
    BY <1>0, <1>1, <1>a DEF Deploy, process, IInv, TypeOK
  <2> QED
    BY <1>0, <1>b, <2>1 DEF RollbackInv, RolledBackIn, Target
<1>2. ASSUME NEW h \in Handles, Open(h) PROVE RollbackInv'
  BY <1>0, <1>2 DEF Open, local, RollbackInv, RolledBackIn, Target
<1>3. ASSUME NEW r \in Rollouts, NEW p \in Promotions, Acquire(r, p) PROVE RollbackInv'
  <2>1. outcome[r] = "none"
    BY <1>0, <1>3, <1>a DEF Acquire, RollbackInv
  <2> QED
    BY <1>0, <1>3, <1>a, <2>1, KeptFrame DEF Acquire
<1>4. ASSUME NEW r \in Rollouts, Load(r) PROVE RollbackInv'
  <2>1. outcome[r] = "none"
    BY <1>0, <1>4, <1>a DEF Load, RollbackInv
  <2>2. RolledBackIn(PathOf[prom[r]]) => ctrl'[r] = ckpt[PathOf[prom[r]]]
    BY <1>4, <1>a DEF Load, RolledBackIn
  <2> QED
    BY <1>0, <1>4, <1>a, <2>1, <2>2, KeptFrame DEF Load, RolledBackIn
<1>5. ASSUME NEW r \in Rollouts, Observe(r) PROVE RollbackInv'
  <2>1. outcome[r] = "none"
    BY <1>0, <1>5, <1>a DEF Observe, RollbackInv
  <2>2. PICK passes \in BOOLEAN : ctrl' = [ctrl EXCEPT ![r] = Observed(ctrl[r], passes)]
    BY <1>5 DEF Observe
  <2>3. RolledBackIn(PathOf[prom[r]]) => ctrl'[r] = ckpt[PathOf[prom[r]]]
    BY <1>0, <1>5, <1>a, <2>2 DEF Observe, Observed, RollbackInv, RolledBackIn
  <2> QED
    BY <1>0, <1>5, <1>a, <2>1, <2>3, KeptFrame DEF Observe, RolledBackIn
<1>6. ASSUME NEW r \in Rollouts, Save(r) PROVE RollbackInv'
  <2>1. outcome[r] = "none" /\ PathOf[prom[r]] \in Paths
    BY <1>0, <1>6, <1>a, <1>b DEF Save, RollbackInv
  <2>2. /\ ckpt'[PathOf[prom[r]]] \in {ctrl[r], ckpt[PathOf[prom[r]]]}
        /\ \A f \in Paths \ {PathOf[prom[r]]} : ckpt'[f] = ckpt[f]
    BY <1>6, <1>a, <2>1 DEF Save
  <2>3. RolledBackIn(PathOf[prom[r]])' => ctrl'[r] = ckpt'[PathOf[prom'[r]]]
    BY <1>0, <1>6, <2>2 DEF Save, RollbackInv, RolledBackIn
  <2> QED
    BY <1>0, <1>6, <1>a, <1>b, <1>c, <2>1, <2>2, <2>3, KeptFrame DEF Save
<1>7. ASSUME NEW r \in Rollouts, Exhausted(r) PROVE RollbackInv'
  BY <1>0, <1>7, <1>a DEF Exhausted, RollbackInv, RolledBackIn, Target
<1>8. ASSUME NEW r \in Rollouts, Restore(r) PROVE RollbackInv'
  <2>1. outcome[r] = "none"
    BY <1>0, <1>8, <1>a DEF Restore, RollbackInv
  <2>2. \A q \in Rollouts : q # r /\ InFlight(q) =>
          active'[Target(prom[q])] = active[Target(prom[q])]
    BY <1>8, <1>a, <1>b, <1>c DEF Restore
  <2> QED
    BY <1>0, <1>8, <1>a, <2>1, <2>2, KeptFrame DEF Restore, RolledBackIn, RollbackInv
<1>9. ASSUME NEW r \in Rollouts, Confirm(r) PROVE RollbackInv'
  <2>1. outcome[r] = "none"
    BY <1>0, <1>9, <1>a DEF Confirm, RollbackInv
  <2>2. outcome'[r] # "none" =>
          outcome'[r] = "rolledBack" /\ active[Target(prom[r])] = Target(prom[r])
    BY <1>9, <1>a, <2>1 DEF Confirm, Confirms
  <2> QED
    BY <1>0, <1>9, <1>a, <2>2, KeptFrame DEF Confirm, RolledBackIn, RollbackInv, Target
<1>10. ASSUME NEW r \in Rollouts, Promote(r) PROVE RollbackInv'
  <2>1. outcome[r] = "none"
    BY <1>0, <1>10, <1>a DEF Promote, RollbackInv
  <2>2. CASE outcome' = outcome /\ ctrl' = ctrl
    BY <1>0, <1>10, <1>a, <2>1, <2>2 DEF Promote, RollbackInv, RolledBackIn, Target
  <2>3. CASE /\ outcome' = [outcome EXCEPT ![r] = "promoted"]
             /\ \E now \in Times : MayPromote(ctrl[r], Artifact(prom[r]), now)
    <3>1. ctrl[r].state = "Serving"
      BY <2>3 DEF MayPromote, CanaryComplete
    <3>2. ~ RolledBackIn(PathOf[prom[r]])
      BY <1>0, <1>10, <3>1 DEF Promote, RollbackInv, RolledBackIn
    <3> QED
      BY <1>0, <1>10, <1>a, <2>3, <3>2, KeptFrame DEF Promote, RolledBackIn
  <2> QED
    BY <1>10, <2>2, <2>3 DEF Promote
<1>11. ASSUME NEW r \in Rollouts, Record(r) PROVE RollbackInv'
  BY <1>0, <1>11, <1>a DEF Record, RollbackInv, RolledBackIn, Target
<1>12. ASSUME NEW r \in Rollouts, Return(r) PROVE RollbackInv'
  <2>1. /\ PathOf[prom[r]] \in Paths
        /\ \A f \in Paths \ {PathOf[prom[r]]} : ckpt'[f] = ckpt[f]
    BY <1>12, <1>a, <1>b DEF Return
  <2> QED
    BY <1>0, <1>12, <1>a, <1>b, <1>c, <2>1, KeptFrame DEF Return, Leave
<1>13. ASSUME NEW r \in Rollouts, Panic(r) PROVE RollbackInv'
  BY <1>0, <1>13, <1>a, KeptFrame DEF Panic, Leave
<1>14. ASSUME Crash PROVE RollbackInv'
  BY <1>14 DEF Crash, RollbackInv
<1>15. ASSUME UNCHANGED vars PROVE RollbackInv'
  BY <1>0, <1>15 DEF vars, process, RollbackInv, RolledBackIn, Target
<1> QED
  BY <1>1, <1>2, <1>3, <1>4, <1>5, <1>6, <1>7, <1>8, <1>9, <1>10, <1>11, <1>12,
     <1>13, <1>14, <1>15 DEF Next, Step

\* What one step may do to a remembered rollback.
KeptByStep ==
  \A f \in Paths :
    RolledBackIn(f) /\ ckpt'[f] # ckpt[f]
      => \E r \in Rollouts :
           /\ InFlight(r) /\ PathOf[prom[r]] = f
           /\ outcome[r] = "rolledBack"
           /\ active[Target(prom[r])] = Target(prom[r])

\* Only a save and the end of a call touch a checkpoint: the save writes what
\* was read, and the end clears it for a promotion, which a rolled back
\* checkpoint excludes, or for a confirmed restore.
LEMMA KeptAction == ASSUME KeptInv, [Next]_vars PROVE KeptByStep
<1> USE DEF InFlight
<1>0. IInv /\ RollbackInv /\ ckpt \in [Paths -> Controllers \cup {None}]
  BY DEF KeptInv, IInv, TypeOK
<1>1. ASSUME NEW r \in Rollouts, Save(r) PROVE KeptByStep
  <2>1. \A f \in Paths : ckpt'[f] # ckpt[f] => f = PathOf[prom[r]] /\ ckpt'[f] = ctrl[r]
    BY <1>0, <1>1 DEF Save
  <2> QED
    BY <1>0, <1>1, <2>1 DEF Save, RollbackInv, KeptByStep
<1>2. ASSUME NEW r \in Rollouts, Return(r) PROVE KeptByStep
  <2>1. \A f \in Paths : ckpt'[f] # ckpt[f] =>
          f = PathOf[prom[r]] /\ outcome[r] \in {"promoted", "rolledBack"}
    BY <1>0, <1>2 DEF Return
  <2> QED
    BY <1>0, <1>2, <2>1 DEF Return, RollbackInv, KeptByStep
<1>3. CASE UNCHANGED ckpt
  BY <1>3 DEF KeptByStep
<1> QED
  BY <1>1, <1>2, <1>3
     DEF Next, Step, Open, Deploy, Acquire, Panic, Crash, Load, Observe, Exhausted,
         Restore, Confirm, Promote, Record, vars

\* If every candidate has a checkpoint file of its own, and the file can be
\* read, a snapshotted rollback is never taken back: only the call that saw the
\* parent in traffic clears it, whatever crashes, panics or fails to be saved.
THEOREM RollbackNeverTakenBack ==
  ASSUME OwnCheckpoints, "unreadable" \notin Faults
  PROVE  Spec => RollbackIsKept
<1>1. Init => KeptInv
  BY IInvInit DEF Init, KeptInv, RollbackInv, InFlight
<1>2. KeptInv /\ [Next]_vars => KeptInv'
  BY KeptStep, IInvStep DEF KeptInv
<1>3. KeptInv /\ [Next]_vars => [KeptByStep]_vars
  BY KeptAction
<1> QED
  BY <1>1, <1>2, <1>3, PTL DEF Spec, RollbackIsKept, KeptByStep

-----------------------------------------------------------------------------
(* Refinement.                                                             *)

\* What a call is about to record has its candidate's whole walk behind it.
RecordWhole ==
  \A r \in Rollouts : pc[r] = "record" => WholeWalk(CandidateOf[prom[r]])

RefineInv == OnceInv /\ WalkInv /\ RecordWhole

\* Only the call at hand moves a walk, and it is not recording then.
LEMMA RefineStep ==
  ASSUME OwnCheckpoints, SharedHandle, RecordsSucceed, RefineInv, [Next]_vars
  PROVE  RefineInv'
<1>0. OnceInv' /\ WalkInv' /\ IInv /\ RecordWhole /\ LedgerInv
  BY OnceStep, WalkStep DEF RefineInv, OnceInv
<1>a. pc \in [Rollouts -> Where] /\ outcome \in [Rollouts -> {"none", "promoted", "rolledBack"}]
  BY <1>0 DEF IInv, TypeOK
<1>1. ASSUME NEW r \in Rollouts, Promote(r) PROVE RecordWhole'
  <2>1. UNCHANGED <<prom, walk>> /\ pc[r] = "promote" /\ outcome[r] # "promoted"
    BY <1>0, <1>1 DEF Promote, LedgerInv
  <2>2. \A q \in Rollouts : q # r => pc'[q] = pc[q]
    BY <1>1, <1>a DEF Promote
  <2>3. pc'[r] = "record" => outcome'[r] = "promoted"
    BY <1>1, <1>a DEF Promote
  <2>4. pc'[r] = "record" => WholeWalk(CandidateOf[prom[r]])
    BY <1>1, <2>1, <2>3, PromoteWhole DEF RefineInv
  <2> QED
    BY <1>0, <2>1, <2>2, <2>4 DEF RecordWhole, WholeWalk
<1>2. ASSUME NEW r \in Rollouts, Observe(r) \/ Return(r) PROVE RecordWhole'
  <2>1. /\ pc[r] # "idle"
        /\ \E w \in {"save", "idle"} : pc' = [pc EXCEPT ![r] = w]
    BY <1>2 DEF Observe, Return, Leave
  <2>2. \A q \in Rollouts : q # r => pc[q] = "idle"
    BY <1>0, <2>1, OneCall DEF InFlight
  <2>3. \A q \in Rollouts : pc'[q] # "record"
    BY <1>a, <2>1, <2>2
  <2> QED
    BY <2>3 DEF RecordWhole
<1>3. ASSUME UNCHANGED walk,
             \A q \in Rollouts : pc'[q] = "record" => pc[q] = "record" /\ prom'[q] = prom[q]
      PROVE  RecordWhole'
  BY <1>0, <1>3 DEF RecordWhole, WholeWalk
<1>4. ASSUME NEW r \in Rollouts,
             \/ Load(r) \/ Exhausted(r) \/ Save(r) \/ Restore(r) \/ Confirm(r)
             \/ Record(r) \/ Panic(r)
      PROVE  RecordWhole'
  BY <1>3, <1>4, <1>a, <1>0
     DEF Load, Exhausted, Save, AfterSave, Restore, Confirm, Record, Panic, Leave, IInv, TypeOK
<1>5. ASSUME NEW h \in Handles, Open(h) PROVE RecordWhole'
  BY <1>3, <1>5 DEF Open, local
<1>6. ASSUME NEW p \in Promotions, Deploy(p) PROVE RecordWhole'
  BY <1>3, <1>6 DEF Deploy, process
<1>7. ASSUME NEW r \in Rollouts, NEW p \in Promotions, Acquire(r, p) PROVE RecordWhole'
  BY <1>0, <1>3, <1>7, <1>a DEF Acquire, IInv, TypeOK
<1>8. ASSUME Crash PROVE RecordWhole'
  <2>1. walk' = walk /\ \A r \in Rollouts : pc'[r] = "idle"
    BY <1>8 DEF Crash
  <2> QED
    BY <1>3, <2>1
<1>9. ASSUME UNCHANGED vars PROVE RecordWhole'
  <2>1. walk' = walk /\ pc' = pc /\ prom' = prom
    BY <1>9 DEF vars, process
  <2> QED
    BY <1>3, <2>1
<1>10. RecordWhole'
  BY <1>1, <1>2, <1>4, <1>5, <1>6, <1>7, <1>8, <1>9 DEF Next, Step
<1> QED
  BY <1>0, <1>10 DEF RefineInv

\* A step of the rollout is a measurement, a restart or a commit of the staged
\* promotion, or nothing to it.
LEMMA StagedStep ==
  ASSUME OwnCheckpoints, SharedHandle, RecordsSucceed, RefineInv, [Next]_vars
  PROVE  [Staged!Next]_<<walk, Nonces(log)>>
<1>0. IInv /\ LedgerInv /\ RecordWhole /\ WalkInv
  BY DEF RefineInv, OnceInv
<1>a. walk \in [Candidates -> Walks]
  BY <1>0 DEF IInv, TypeOK, Walks
<1>1. ASSUME NEW r \in Rollouts, Observe(r)
      PROVE  [Staged!Next]_<<walk, Nonces(log)>>
  <2> DEFINE c == ctrl[r]
             cand == CandidateOf[prom[r]]
  <2>1. /\ c \in Controllers /\ cand \in Candidates
        /\ Backed(c, walk[cand])
    BY <1>0, <1>1, TargetType DEF Observe, WalkInv, IInv, CallOK, CtrlBacked, InFlight
  <2>2. c.stage \in Stage
    BY <2>1 DEF Controllers, Controller
  <2>3. log' = log
    BY <1>1 DEF Observe
  <2>4. CASE walk' = walk
    BY <2>3, <2>4
  <2>5. CASE walk' # walk
    <3>1. /\ walk[cand][c.stage] < ObservationsPerStage
          /\ walk' = [walk EXCEPT ![cand][c.stage] = @ + 1]
      BY <1>1, <2>5 DEF Observe
    <3>2. ~ Staged!Done(cand, c.stage)
      BY <3>1, ObservationsPerStageAssumption DEF Staged!Done
    <3>3. \A k \in Stage : k < c.stage => Staged!Done(cand, k)
      BY <2>1 DEF Backed, Staged!Done
    <3>4. Staged!Measure(cand, c.stage)
      BY <2>3, <3>1, <3>2, <3>3 DEF Staged!Measure
    <3> QED
      BY <2>1, <2>2, <3>4 DEF Staged!Next
  <2> QED
    BY <2>4, <2>5
<1>2. ASSUME NEW r \in Rollouts, Return(r)
      PROVE  [Staged!Next]_<<walk, Nonces(log)>>
  <2>1. CandidateOf[prom[r]] \in Candidates /\ log' = log
    BY <1>0, <1>2, TargetType DEF Return, IInv, CallOK, InFlight
  <2>2. walk' = walk \/ walk' = [walk EXCEPT ![CandidateOf[prom[r]]] = EmptyWalk]
    BY <1>2 DEF Return
  <2>3. CASE walk' = [walk EXCEPT ![CandidateOf[prom[r]]] = EmptyWalk]
    <3>1. Staged!Restart(CandidateOf[prom[r]])
      BY <2>1, <2>3 DEF Staged!Restart, EmptyWalk
    <3> QED
      BY <2>1, <3>1 DEF Staged!Next
  <2> QED
    BY <2>1, <2>2, <2>3
<1>3. ASSUME NEW r \in Rollouts, Record(r)
      PROVE  [Staged!Next]_<<walk, Nonces(log)>>
  <2>1. /\ prom[r] \in Promotions /\ Nonces(log') = Append(Nonces(log), prom[r])
        /\ pc[r] = "record" /\ walk' = walk
    BY <1>0, <1>3, Recorded DEF Record
  <2>2. \A s \in Stage : Staged!Done(CandidateOf[prom[r]], s)
    BY <1>0, <2>1 DEF RecordWhole, WholeWalk, Staged!Done
  <2>3. ~ Staged!Committed(prom[r])
    BY <1>0, <2>1 DEF LedgerInv, Known, Staged!Committed
  <2>4. Staged!Commit(prom[r])
    BY <2>1, <2>2, <2>3 DEF Staged!Commit
  <2> QED
    BY <2>1, <2>4 DEF Staged!Next
<1>4. CASE UNCHANGED <<walk, log>>
  BY <1>4
<1>5. CASE \E r \in Rollouts : Step(r) \/ Panic(r)
  BY <1>1, <1>2, <1>3, <1>4, <1>5
     DEF Step, Load, Exhausted, Save, Restore, Confirm, Promote, Panic
<1>6. CASE ~ \E r \in Rollouts : Step(r) \/ Panic(r)
  BY <1>4, <1>6 DEF Next, Open, Deploy, Acquire, Crash, vars, process
<1> QED
  BY <1>5, <1>6

\* The guarded rollout implements the staged promotion: however calls, crashes,
\* panics and restarts cut it, what is durable is a history of artifacts
\* committed once, each after its candidate's own whole walk.
THEOREM Refinement ==
  ASSUME OwnCheckpoints, SharedHandle, RecordsSucceed
  PROVE  Spec => RefinesStagedPromotion
<1>1. Init => RefineInv
  <2> SUFFICES ASSUME Init PROVE RefineInv
    OBVIOUS
  <2>1. CtrlBacked /\ CkptBacked /\ RecordWhole
    BY RolloutAssumption DEF Init, InFlight, CtrlBacked, CkptBacked, RecordWhole
  <2> QED
    BY <2>1, OnceInit, IInvInit DEF RefineInv, WalkInv
<1>2. Init => Staged!Init
  <2> SUFFICES ASSUME Init PROVE Staged!Init
    OBVIOUS
  <2>1. Nonces(<<>>) = <<>>
    BY DEF Nonces, History
  <2> QED
    BY <2>1 DEF Init, Staged!Init, EmptyWalk
<1>3. RefineInv /\ [Next]_vars => RefineInv'
  BY RefineStep
<1>4. RefineInv /\ [Next]_vars => [Staged!Next]_<<walk, Nonces(log)>>
  BY StagedStep
<1> QED
  BY <1>1, <1>2, <1>3, <1>4, PTL DEF Spec, RefinesStagedPromotion, Staged!Spec
=============================================================================
