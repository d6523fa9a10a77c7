------------------------------- MODULE Mixture -------------------------------
(***************************************************************************)
(* The replicated claim mixture, MixtureState in                           *)
(* src/packages/radio-moe/src/mixture.ts.                                  *)
(*                                                                         *)
(* Replicas of one request consume the signed frames of its agents.  Each  *)
(* replica gets every frame any number of times and in its own order, and  *)
(* folds it into a state that should depend on the frames only.  A frame   *)
(* here is a frame with its signed contribution input: what bindingHash    *)
(* identifies.  Frames that fail the shape, signer or binding checks       *)
(* change nothing and are left out; so is #seen, which is never read.      *)
(*                                                                         *)
(* Scores are abstracted to their order: Rank is the order compareForTopK  *)
(* puts frames in (score, then agentId, then frameHash), which no two      *)
(* frames share.  Weights are a function of the selected frames and are    *)
(* not modelled.                                                           *)
(***************************************************************************)
EXTENDS Integers, SequencesExt

CONSTANTS
  Replicas,
  Agents,        \* trustedSigners
  Frames,        \* the frames signed for this request
  AgentOf,       \* agentId of a frame
  StepOf,        \* step of a frame
  Rank,          \* place of a frame in compareForTopK's order
  Topic,         \* claimId and relation of a frame
  Provenance,    \* sourceIds and evidenceHashes of a frame
  TopK,          \* topK
  MaxAccepted,   \* maxAcceptedFrames
  MaxBuffered    \* maxBufferedFramesPerAgent

ASSUME FrameAssumption ==
  /\ AgentOf \in [Frames -> Agents]
  /\ StepOf \in [Frames -> Nat]
  /\ Rank \in [Frames -> Nat]
  /\ \A f, g \in Frames : Rank[f] = Rank[g] => f = g
ASSUME BoundAssumption ==
  TopK \in Nat \ {0} /\ MaxAccepted \in Nat /\ TopK <= MaxAccepted /\ MaxBuffered \in Nat

VARIABLES
  accepted,      \* #accepted
  pending,       \* #pending
  nextStep,      \* #nextStep, 0 where the code has no entry
  remembered,    \* #stepHashes: the frame first taken at each step
  equivocating,  \* #equivocating
  saw,           \* the frames a replica was given
  refused        \* those it last refused for a bound, and has no memory of

vars == <<accepted, pending, nextStep, remembered, equivocating, saw, refused>>
state == <<accepted, pending, nextStep, remembered, equivocating>>

Init ==
  /\ accepted = [r \in Replicas |-> {}]
  /\ pending = [r \in Replicas |-> {}]
  /\ nextStep = [r \in Replicas |-> [a \in Agents |-> 0]]
  /\ remembered = [r \in Replicas |-> {}]
  /\ equivocating = [r \in Replicas |-> {}]
  /\ saw = [r \in Replicas |-> {}]
  /\ refused = [r \in Replicas |-> {}]
-----------------------------------------------------------------------------
By(a, frames) == {f \in frames : AgentOf[f] = a}

(* Forms of the definitions below that carry a plausible defect.           *)

(* the gap buffer takes one frame too many *)
BufferFullLate(r, a) == Cardinality(By(a, pending[r])) > MaxBuffered

(* a quarantine forgets the frames that wait behind a gap *)
QuarantineAcceptedOnly(r, a) ==
  /\ equivocating' = [equivocating EXCEPT ![r] = @ \cup {a}]
  /\ accepted' = [accepted EXCEPT ![r] = @ \ By(a, @)]
  /\ nextStep' = [nextStep EXCEPT ![r][a] = 0]
  /\ remembered' = [remembered EXCEPT ![r] = @ \ By(a, @)]
  /\ UNCHANGED pending
-----------------------------------------------------------------------------
SameStep(f, g) == AgentOf[f] = AgentOf[g] /\ StepOf[f] = StepOf[g]

Prior(r, f) == {g \in remembered[r] : SameStep(f, g)}

(* f and the buffered frames that follow it without a gap *)
Batch(r, f) ==
  {f} \cup
  {g \in By(AgentOf[f], pending[r]) :
     /\ StepOf[g] > StepOf[f]
     /\ \A k \in StepOf[f] + 1 .. StepOf[g] :
          \E h \in By(AgentOf[f], pending[r]) : StepOf[h] = k}

BufferFull(r, a) == Cardinality(By(a, pending[r])) >= MaxBuffered

CapacityReached(r, batch) ==
  Cardinality(accepted[r]) + Cardinality(batch) > MaxAccepted

(* MixtureState.#rememberStep *)
Remember(r, f) == remembered' = [remembered EXCEPT ![r] = @ \cup {f}]

(* MixtureState.#quarantine *)
Quarantine(r, a) ==
  /\ equivocating' = [equivocating EXCEPT ![r] = @ \cup {a}]
  /\ accepted' = [accepted EXCEPT ![r] = @ \ By(a, @)]
  /\ pending' = [pending EXCEPT ![r] = @ \ By(a, @)]
  /\ nextStep' = [nextStep EXCEPT ![r][a] = 0]
  /\ remembered' = [remembered EXCEPT ![r] = @ \ By(a, @)]

(* A frame that is neither of a quarantined agent nor at a step the        *)
(* replica has a frame of.                                                 *)
Fresh(r, f) == AgentOf[f] \notin equivocating[r] /\ Prior(r, f) = {}

(* The reasons to refuse a fresh frame and to keep no memory of it: it is  *)
(* below the expected step, or over a bound.                               *)
Refusal(r, f) ==
  LET expected == nextStep[r][AgentOf[f]] IN
  \/ StepOf[f] < expected
  \/ StepOf[f] > expected /\ BufferFull(r, AgentOf[f])
  \/ StepOf[f] = expected /\ CapacityReached(r, Batch(r, f))

(* The outcomes of MixtureState.consume.                                   *)
Ignore(r, f) ==
  /\ AgentOf[f] \in equivocating[r] \/ f \in Prior(r, f)
  /\ refused' = [refused EXCEPT ![r] = @ \ {f}]
  /\ UNCHANGED state

Equivocation(r, f) ==
  /\ AgentOf[f] \notin equivocating[r]
  /\ Prior(r, f) \notin {{}, {f}}
  /\ Quarantine(r, AgentOf[f])
  /\ refused' = [refused EXCEPT ![r] = @ \ {f}]

Refuse(r, f) ==
  /\ Fresh(r, f) /\ Refusal(r, f)
  /\ refused' = [refused EXCEPT ![r] = @ \cup {f}]
  /\ UNCHANGED state

Buffer(r, f) ==
  /\ Fresh(r, f) /\ ~Refusal(r, f)
  /\ StepOf[f] > nextStep[r][AgentOf[f]]
  /\ pending' = [pending EXCEPT ![r] = @ \cup {f}]
  /\ Remember(r, f)
  /\ refused' = [refused EXCEPT ![r] = @ \ {f}]
  /\ UNCHANGED <<accepted, nextStep, equivocating>>

Accept(r, f) ==
  LET batch == Batch(r, f) IN
  /\ Fresh(r, f) /\ ~Refusal(r, f)
  /\ StepOf[f] = nextStep[r][AgentOf[f]]
  /\ accepted' = [accepted EXCEPT ![r] = @ \cup batch]
  /\ pending' = [pending EXCEPT ![r] = @ \ batch]
  /\ nextStep' = [nextStep EXCEPT ![r][AgentOf[f]] = @ + Cardinality(batch)]
  /\ Remember(r, f)
  /\ refused' = [refused EXCEPT ![r] = @ \ {f}]
  /\ UNCHANGED equivocating

(* MixtureState.consume *)
Consume(r, f) ==
  /\ saw' = [saw EXCEPT ![r] = @ \cup {f}]
  /\ \/ Ignore(r, f)
     \/ Equivocation(r, f)
     \/ Refuse(r, f)
     \/ Buffer(r, f)
     \/ Accept(r, f)

Next == \E r \in Replicas, f \in Frames : Consume(r, f)

Spec == Init /\ [][Next]_vars
-----------------------------------------------------------------------------
(* MixtureState.snapshot: the contributions that count.                    *)

Correlated(f, g) == Topic[f] = Topic[g] /\ Provenance[f] \cap Provenance[g] # {}

(* a candidate is compared with the contribution selected last only *)
ToSelectByLast(selected, f) ==
  /\ Len(selected) < TopK
  /\ selected # <<>> => ~Correlated(f, Last(selected))

ToSelect(selected, f) ==
  /\ Len(selected) < TopK
  /\ \A g \in ToSet(selected) : ~Correlated(f, g)

(* compareForTopK: the k-th of the frames                                  *)
Best(frames, k) ==
  CHOOSE f \in frames : Cardinality({g \in frames : Rank[g] <= Rank[f]}) = k

(* selectIndependent: selected[k] is the list after k candidates           *)
Selected(frames) ==
  LET n == Cardinality(frames)
      selected[k \in 0 .. n] ==
        IF k = 0 THEN <<>>
        ELSE LET f == Best(frames, k) IN
             IF ToSelect(selected[k - 1], f) THEN Append(selected[k - 1], f)
             ELSE selected[k - 1]
  IN selected[n]

(* what stateHash covers of the state *)
Snapshot(r) ==
  [audit |-> accepted[r],
   contributions |-> Selected(accepted[r]),
   bufferedFrames |-> Cardinality(pending[r]),
   equivocatingAgents |-> equivocating[r]]
-----------------------------------------------------------------------------
TypeOK ==
  /\ accepted \in [Replicas -> SUBSET Frames]
  /\ \A r \in Replicas : Cardinality(accepted[r]) <= MaxAccepted
  /\ pending \in [Replicas -> SUBSET Frames]
  /\ \A r \in Replicas, a \in Agents : Cardinality(By(a, pending[r])) <= MaxBuffered
  /\ nextStep \in [Replicas -> [Agents -> Nat]]
  /\ remembered \in [Replicas -> SUBSET Frames]
  /\ equivocating \in [Replicas -> SUBSET Agents]
  /\ saw \in [Replicas -> SUBSET Frames]
  /\ refused \in [Replicas -> SUBSET Frames]

(* What a set of frames amounts to, whatever order they come in: agents    *)
(* with two frames at one step are out; of the others, the frames up to    *)
(* the first missing step count and the rest waits.                        *)
Equivocators(frames) ==
  {a \in Agents : \E f, g \in By(a, frames) : f # g /\ SameStep(f, g)}

Honest(frames) == {f \in frames : AgentOf[f] \notin Equivocators(frames)}

WithoutGap(frames) ==
  {f \in Honest(frames) :
     \A k \in 0 .. StepOf[f] : \E g \in By(AgentOf[f], frames) : StepOf[g] = k}

(* A replica's state is a function of the frames it took, not of their     *)
(* order, their repetition, or the frames it refused on the way: gaps are  *)
(* drained when they close, an equivocator is removed with everything it   *)
(* said (also what waits behind a gap) and never comes back, and the       *)
(* memory that tells two frames of one step apart is never lost            *)
(* (mixture.ts:238-293, 383-391).                                          *)
StateIsFold ==
  \A r \in Replicas :
    LET taken == saw[r] \ refused[r] IN
    /\ equivocating[r] = Equivocators(taken)
    /\ accepted[r] = WithoutGap(taken)
    /\ pending[r] = Honest(taken) \ WithoutGap(taken)
    /\ remembered[r] = Honest(taken)
    /\ \A a \in Agents : nextStep[r][a] = Cardinality(By(a, accepted[r]))

(* Correlated evidence does not count twice and does not push out others:  *)
(* no two contributions are correlated, and a frame that does not count    *)
(* is outranked by TopK contributions or by one it is correlated with      *)
(* (mixture.ts:483-496).                                                   *)
IndependentSelection ==
  \A r \in Replicas :
    LET chosen == ToSet(Selected(accepted[r])) IN
    /\ chosen \subseteq accepted[r] /\ Cardinality(chosen) <= TopK
    /\ \A f, g \in chosen : f # g => ~Correlated(f, g)
    /\ \A f \in accepted[r] \ chosen :
         LET better == {g \in chosen : Rank[g] < Rank[f]} IN
         Cardinality(better) = TopK \/ \E g \in better : Correlated(f, g)

(* docs/USER-GUIDE.md:100-101 of radio-moe: snapshot().stateHash "is       *)
(* identical on any replica that saw the same frames".                     *)
SameFramesSameState ==
  \A r, t \in Replicas : saw[r] = saw[t] => Snapshot(r) = Snapshot(t)
=============================================================================
