---------------------------- MODULE Mixture_proofs ----------------------------
(***************************************************************************)
(* Proofs about the replicated claim mixture, for any replicas, agents and *)
(* frames, any signing of frames by agents, steps and ranks, and any       *)
(* bounds on what is accepted and on what waits.                           *)
(***************************************************************************)
EXTENDS Mixture, FiniteSetTheorems, SequenceTheorems, TLAPS

-----------------------------------------------------------------------------
(* What one more frame does to a set of frames.                            *)

\* No two frames of an honest agent are at one step.
LEMMA HonestFramesDiffer ==
  ASSUME NEW T \in SUBSET Frames, NEW f \in Honest(T), NEW g \in Honest(T),
         SameStep(f, g)
  PROVE  f = g
BY FrameAssumption DEF Honest, Equivocators, By, SameStep

\* A frame of an agent that is out already changes nothing.
LEMMA FrameOfEquivocator ==
  ASSUME NEW T \in SUBSET Frames, NEW f \in Frames,
         AgentOf[f] \in Equivocators(T)
  PROVE  /\ Equivocators(T \cup {f}) = Equivocators(T)
         /\ Honest(T \cup {f}) = Honest(T)
<1>1. Equivocators(T \cup {f}) = Equivocators(T)
  BY DEF Equivocators, By
<1> QED
  BY <1>1 DEF Honest

\* A frame of an honest agent, at a step no frame of it has, makes nobody an
\* equivocator.
LEMMA FrameAtFreeStep ==
  ASSUME NEW T \in SUBSET Frames, NEW f \in Frames,
         AgentOf[f] \notin Equivocators(T),
         \A g \in Honest(T) : ~SameStep(f, g)
  PROVE  /\ f \notin T
         /\ Equivocators(T \cup {f}) = Equivocators(T)
         /\ Honest(T \cup {f}) = Honest(T) \cup {f}
<1>1. \A g \in T : ~SameStep(f, g)
  BY DEF Honest, SameStep
<1>2. f \notin T
  BY <1>1 DEF SameStep
<1>3. Equivocators(T \cup {f}) = Equivocators(T)
  BY <1>1 DEF Equivocators, By, SameStep
<1> QED
  BY <1>2, <1>3 DEF Honest

\* A second frame at a step of an honest agent puts the agent out, with every
\* frame it signed.
LEMMA FrameAtTakenStep ==
  ASSUME NEW T \in SUBSET Frames, NEW f \in Frames, NEW g \in Honest(T),
         SameStep(f, g), f # g
  PROVE  /\ Equivocators(T \cup {f}) = Equivocators(T) \cup {AgentOf[f]}
         /\ Honest(T \cup {f}) = Honest(T) \ By(AgentOf[f], Honest(T))
<1>1. AgentOf[f] \in Equivocators(T \cup {f})
  <2>1. f \in By(AgentOf[f], T \cup {f}) /\ g \in By(AgentOf[f], T \cup {f})
    BY DEF By, SameStep, Honest
  <2> QED
    BY <2>1, FrameAssumption DEF Equivocators
<1>2. ASSUME NEW a \in Agents, a # AgentOf[f]
      PROVE  By(a, T \cup {f}) = By(a, T)
  BY <1>2 DEF By
<1>3. ASSUME NEW a \in Agents, a # AgentOf[f]
      PROVE  a \in Equivocators(T \cup {f}) <=> a \in Equivocators(T)
  BY <1>2, <1>3 DEF Equivocators
<1>4. Equivocators(T \cup {f}) = Equivocators(T) \cup {AgentOf[f]}
  BY <1>1, <1>3, FrameAssumption DEF Equivocators
<1> QED
  BY <1>4 DEF Honest, By

-----------------------------------------------------------------------------
(* Counting frames by their steps.                                         *)

\* As many steps as frames, where no two frames share a step.
LEMMA StepsCount ==
  ASSUME NEW S \in SUBSET Frames, IsFiniteSet(S),
         \A f, g \in S : StepOf[f] = StepOf[g] => f = g
  PROVE  LET steps == {StepOf[f] : f \in S}
         IN  IsFiniteSet(steps) /\ Cardinality(steps) = Cardinality(S)
<1> DEFINE steps == {StepOf[f] : f \in S}
           stepIn == [f \in S |-> StepOf[f]]
<1>1. stepIn \in Bijection(S, steps)
  BY DEF Bijection, Injection, Surjection, IsInjective
<1>2. ExistsBijection(S, steps)
  BY <1>1 DEF ExistsBijection
<1> HIDE DEF steps
<1>3. IsFiniteSet(steps) /\ Cardinality(steps) = Cardinality(S)
  BY <1>2, FS_Bijection
<1> QED
  BY <1>3 DEF steps

\* A finite set of numbers from n on, with every number from n up to each of
\* its members, is an interval.
LEMMA WithoutGapIsInterval ==
  ASSUME NEW n \in Nat, NEW S \in SUBSET Nat, IsFiniteSet(S),
         \A s \in S : s >= n /\ n .. s \subseteq S
  PROVE  S = n .. n + Cardinality(S) - 1
<1> DEFINE c == Cardinality(S)
<1>1. c \in Nat
  BY FS_CardinalityType
<1> HIDE DEF c
<1>2. PICK k \in n .. n + c : k \notin S
  <2>1. Cardinality(n .. n + c) = c + 1
    BY <1>1, FS_Interval
  <2>2. n .. n + c \subseteq S => Cardinality(n .. n + c) <= c
    BY FS_Subset DEF c
  <2> QED
    BY <1>1, <2>1, <2>2
<1>3. ASSUME NEW s \in S
      PROVE  s \in n .. n + c - 1
  <2>1. s \in Nat /\ s >= n /\ (k <= s => k \in S)
    OBVIOUS
  <2> QED
    BY <1>1, <1>2, <2>1
<1>4. IsFiniteSet(n .. n + c - 1) /\ Cardinality(n .. n + c - 1) = c
  BY <1>1, FS_Interval
<1>5. S \in SUBSET (n .. n + c - 1)
  BY <1>3
<1> QED
  BY <1>4, <1>5, FS_Subset DEF c
-----------------------------------------------------------------------------
(* The inductive invariant.                                                *)

\* The frames a replica took: those it was given but for the refused.
Taken(r) == saw[r] \ refused[r]

\* Who is out and what is remembered depend on the frames taken only.
Memory(r) ==
  /\ IsFiniteSet(saw[r])
  /\ equivocating[r] = Equivocators(Taken(r))
  /\ remembered[r] = Honest(Taken(r))

\* What is remembered is accepted, below the next step and without a gap, or
\* waits above it.
Progress(r) ==
  /\ remembered[r] = accepted[r] \cup pending[r]
  /\ \A f \in accepted[r] : StepOf[f] < nextStep[r][AgentOf[f]]
  /\ \A f \in pending[r] : StepOf[f] > nextStep[r][AgentOf[f]]
  /\ \A a \in Agents : \A k \in 0 .. nextStep[r][a] - 1 :
       \E f \in By(a, accepted[r]) : StepOf[f] = k

IInv == TypeOK /\ \A r \in Replicas : Memory(r) /\ Progress(r)

\* What is held is finite, and one frame is held of a step of an agent.
LEMMA HeldFrames ==
  ASSUME IInv, NEW r \in Replicas
  PROVE  /\ Taken(r) \in SUBSET Frames
         /\ accepted[r] \in SUBSET Frames /\ IsFiniteSet(accepted[r])
         /\ pending[r] \in SUBSET Frames /\ IsFiniteSet(pending[r])
         /\ \A f, g \in remembered[r] : SameStep(f, g) => f = g
<1>1. /\ Taken(r) \in SUBSET Frames /\ Honest(Taken(r)) \in SUBSET saw[r]
      /\ accepted[r] \in SUBSET Honest(Taken(r)) /\ accepted[r] \in SUBSET Frames
      /\ pending[r] \in SUBSET Honest(Taken(r)) /\ pending[r] \in SUBSET Frames
  BY DEF IInv, TypeOK, Memory, Progress, Taken, Honest
<1>2. IsFiniteSet(Honest(Taken(r)))
  BY <1>1, FS_Subset DEF IInv, Memory
<1>3. IsFiniteSet(accepted[r]) /\ IsFiniteSet(pending[r])
  BY <1>1, <1>2, FS_Subset
<1>4. \A f, g \in Honest(Taken(r)) : SameStep(f, g) => f = g
  BY <1>1, HonestFramesDiffer
<1> QED
  BY <1>1, <1>3, <1>4 DEF IInv, Memory

\* A frame at the next step and what it drains: as many steps as frames, from
\* that step on, and nothing that waits is at one of them or at the next.
LEMMA BatchSteps ==
  ASSUME IInv, NEW r \in Replicas, NEW f \in Frames,
         StepOf[f] = nextStep[r][AgentOf[f]]
  PROVE  LET batch == Batch(r, f)
             n == StepOf[f]
             c == Cardinality(batch)
         IN  /\ batch \in SUBSET Frames /\ IsFiniteSet(batch)
             /\ c \in Nat
             /\ \A g \in batch : AgentOf[g] = AgentOf[f] /\ StepOf[g] < n + c
             /\ \A k \in n .. n + c - 1 : \E g \in batch : StepOf[g] = k
             /\ \A g \in By(AgentOf[f], pending[r]) \ batch : StepOf[g] > n + c
<1> DEFINE waiting == By(AgentOf[f], pending[r])
           batch == Batch(r, f)
           n == StepOf[f]
           c == Cardinality(batch)
           steps == {StepOf[g] : g \in batch}
<1>0. n \in Nat /\ \A g \in Frames : StepOf[g] \in Nat
  BY FrameAssumption
<1>1. /\ waiting \in SUBSET Frames /\ IsFiniteSet(waiting)
      /\ \A g \in waiting : AgentOf[g] = AgentOf[f] /\ StepOf[g] > n
      /\ \A g, h \in waiting : StepOf[g] = StepOf[h] => g = h
  <2>1. waiting \in SUBSET pending[r]
    BY DEF By
  <2>2. waiting \in SUBSET Frames /\ IsFiniteSet(waiting)
    BY <2>1, HeldFrames, FS_Subset
  <2>3. \A g \in waiting : AgentOf[g] = AgentOf[f] /\ StepOf[g] > n
    BY DEF IInv, Progress, By
  <2>4. \A g, h \in waiting : StepOf[g] = StepOf[h] => g = h
    BY <2>1, <2>3, HeldFrames DEF IInv, Progress, SameStep
  <2> QED
    BY <2>2, <2>3, <2>4
<1>2. batch = {f} \cup {g \in waiting :
                        /\ StepOf[g] > n
                        /\ \A k \in n + 1 .. StepOf[g] : \E h \in waiting : StepOf[h] = k}
  BY DEF Batch
<1> HIDE DEF waiting, batch, n, c, steps
<1>3. batch \in SUBSET Frames /\ IsFiniteSet(batch) /\ c \in Nat
  <2>1. IsFiniteSet(waiting \cup {f}) /\ batch \in SUBSET (waiting \cup {f})
    BY <1>1, <1>2, FS_AddElement
  <2> QED
    BY <1>1, <2>1, FS_Subset, FS_CardinalityType DEF c
<1>4. /\ \A g \in batch : AgentOf[g] = AgentOf[f] /\ StepOf[g] >= n
      /\ \A g, h \in batch : StepOf[g] = StepOf[h] => g = h
  BY <1>0, <1>1, <1>2 DEF n
<1>5. IsFiniteSet(steps) /\ Cardinality(steps) = c
  BY <1>3, <1>4, StepsCount DEF steps, c
<1>6. ASSUME NEW s \in steps
      PROVE  s \in Nat /\ s >= n /\ n .. s \subseteq steps
  <2>1. PICK g \in batch : s = StepOf[g]
    BY <1>6 DEF steps
  <2>2. s \in Nat /\ s >= n
    BY <1>0, <1>3, <1>4, <2>1
  <2>3. ASSUME NEW k \in n .. s
        PROVE  \E h \in batch : StepOf[h] = k
    <3>1. CASE k = n
      BY <1>2, <3>1 DEF n
    <3>2. CASE k # n
      <4>1. g \in waiting /\ g # f /\ k \in n + 1 .. StepOf[g]
        BY <1>0, <1>2, <2>1, <2>2, <3>2 DEF n
      <4>2. PICK h \in waiting : StepOf[h] = k
        BY <1>2, <2>1, <2>2, <4>1
      <4>3. \A j \in n + 1 .. k : \E i \in waiting : StepOf[i] = j
        BY <1>0, <1>2, <2>1, <2>2, <4>1
      <4> QED
        BY <1>0, <1>1, <1>2, <4>2, <4>3
    <3> QED
      BY <3>1, <3>2
  <2> QED
    BY <2>2, <2>3 DEF steps
<1>7. steps = n .. n + c - 1
  BY <1>0, <1>5, <1>6, WithoutGapIsInterval
<1>8. \A k \in n .. n + c - 1 : \E g \in batch : StepOf[g] = k
  BY <1>7 DEF steps
<1>9. \A g \in batch : StepOf[g] < n + c
  <2>1. \A g \in batch : StepOf[g] \in n .. n + c - 1
    BY <1>7 DEF steps
  <2> QED
    BY <1>0, <1>3, <2>1
<1>10. ASSUME NEW g \in waiting \ batch
       PROVE  StepOf[g] > n + c
  <2>1. StepOf[g] \in Nat /\ StepOf[g] > n
    BY <1>0, <1>1
  <2>2. CASE StepOf[g] < n + c
    <3>1. PICK h \in batch : StepOf[h] = StepOf[g]
      BY <1>0, <1>3, <1>8, <2>1, <2>2
    <3>2. h \in waiting
      BY <1>2, <2>1, <3>1 DEF n
    <3> QED
      BY <1>1, <3>1, <3>2
  <2>3. CASE StepOf[g] = n + c
    <3>1. ASSUME NEW k \in n + 1 .. StepOf[g]
          PROVE  \E h \in waiting : StepOf[h] = k
      <4>1. CASE k = n + c
        BY <2>3, <4>1
      <4>2. CASE k # n + c
        <5>1. PICK h \in batch : StepOf[h] = k
          BY <1>0, <1>3, <1>8, <2>3, <4>2
        <5>2. h # f
          BY <1>0, <5>1 DEF n
        <5> QED
          BY <1>2, <5>1, <5>2
      <4> QED
        BY <4>1, <4>2
    <3> QED
      BY <1>2, <2>1, <3>1
  <2> QED
    BY <1>0, <1>3, <2>1, <2>2, <2>3
<1> QED
  BY <1>3, <1>4, <1>8, <1>9, <1>10 DEF waiting, batch, n, c
-----------------------------------------------------------------------------
(* Each outcome of consume keeps the invariant.                            *)

\* A frame given to a replica changes that replica only.
LEMMA OtherReplicas ==
  ASSUME IInv, NEW r \in Replicas, NEW f \in Frames, Consume(r, f),
         NEW t \in Replicas, t # r
  PROVE  /\ Memory(t)' /\ Progress(t)'
         /\ Cardinality(accepted'[t]) <= MaxAccepted
         /\ \A a \in Agents : Cardinality(By(a, pending'[t])) <= MaxBuffered
<1>1. /\ saw'[t] = saw[t] /\ refused'[t] = refused[t]
      /\ accepted'[t] = accepted[t] /\ pending'[t] = pending[t]
      /\ nextStep'[t] = nextStep[t] /\ remembered'[t] = remembered[t]
      /\ equivocating'[t] = equivocating[t]
  <2> USE DEF IInv, TypeOK, Consume
  <2>1. CASE Ignore(r, f)
    BY <2>1 DEF Ignore, state
  <2>2. CASE Equivocation(r, f)
    BY <2>2 DEF Equivocation, Quarantine
  <2>3. CASE Refuse(r, f)
    BY <2>3 DEF Refuse, state
  <2>4. CASE Buffer(r, f)
    BY <2>4 DEF Buffer, Remember
  <2>5. CASE Accept(r, f)
    BY <2>5 DEF Accept, Remember
  <2> QED
    BY <2>1, <2>2, <2>3, <2>4, <2>5
<1>2. Memory(t) /\ Progress(t)
  BY DEF IInv
<1> QED
  BY <1>1, <1>2 DEF IInv, TypeOK, Memory, Progress, Taken

\* What a replica was given stays finite.
LEMMA GivenFinite ==
  ASSUME IInv, NEW r \in Replicas, NEW f \in Frames, Consume(r, f)
  PROVE  saw'[r] = saw[r] \cup {f} /\ IsFiniteSet(saw'[r])
<1>1. saw'[r] = saw[r] \cup {f}
  BY DEF IInv, TypeOK, Consume
<1> QED
  BY <1>1, FS_AddElement DEF IInv, Memory

\* A frame that is no news: of an agent that is out, or taken before.
LEMMA IgnoreKeeps ==
  ASSUME IInv, NEW r \in Replicas, NEW f \in Frames, Consume(r, f), Ignore(r, f)
  PROVE  TypeOK' /\ Memory(r)' /\ Progress(r)'
<1>1. TypeOK'
  BY DEF IInv, TypeOK, Consume, Ignore, state
<1>2. Taken(r)' = Taken(r) \cup {f}
  BY DEF IInv, TypeOK, Consume, Ignore, Taken
<1>3. /\ Equivocators(Taken(r) \cup {f}) = Equivocators(Taken(r))
      /\ Honest(Taken(r) \cup {f}) = Honest(Taken(r))
  <2>1. CASE AgentOf[f] \in equivocating[r]
    BY <2>1, HeldFrames, FrameOfEquivocator DEF IInv, Memory
  <2>2. CASE f \in Prior(r, f)
    <3>1. f \in Taken(r)
      BY <2>2 DEF IInv, Memory, Prior, Honest
    <3>2. Taken(r) \cup {f} = Taken(r)
      BY <3>1
    <3> QED
      BY <3>2
  <2> QED
    BY <2>1, <2>2 DEF Ignore
<1>4. Memory(r)'
  BY <1>2, <1>3, GivenFinite DEF IInv, Memory, Ignore, state
<1>5. Progress(r)'
  BY DEF IInv, Progress, Ignore, state
<1> QED
  BY <1>1, <1>4, <1>5

\* A frame refused is not among those taken, and was not.
LEMMA RefuseKeeps ==
  ASSUME IInv, NEW r \in Replicas, NEW f \in Frames, Consume(r, f), Refuse(r, f)
  PROVE  TypeOK' /\ Memory(r)' /\ Progress(r)'
<1>1. TypeOK'
  BY DEF IInv, TypeOK, Consume, Refuse, state
<1>2. f \notin Taken(r)
  BY DEF IInv, Memory, Refuse, Fresh, Prior, Honest, SameStep
<1>3. Taken(r)' = Taken(r)
  BY <1>2 DEF IInv, TypeOK, Consume, Refuse, Taken
<1>4. Memory(r)'
  BY <1>3, GivenFinite DEF IInv, Memory, Refuse, state
<1>5. Progress(r)'
  BY DEF IInv, Progress, Refuse, state
<1> QED
  BY <1>1, <1>4, <1>5

\* A second frame at a step: the agent goes, with all that was held of it.
LEMMA EquivocationKeeps ==
  ASSUME IInv, NEW r \in Replicas, NEW f \in Frames, Consume(r, f),
         Equivocation(r, f)
  PROVE  TypeOK' /\ Memory(r)' /\ Progress(r)'
<1> DEFINE a == AgentOf[f]
<1>0. a \in Agents
  BY FrameAssumption
<1> HIDE DEF a
<1>1. /\ accepted' = [accepted EXCEPT ![r] = @ \ By(a, @)]
      /\ pending' = [pending EXCEPT ![r] = @ \ By(a, @)]
      /\ nextStep' = [nextStep EXCEPT ![r][a] = 0]
      /\ remembered' = [remembered EXCEPT ![r] = @ \ By(a, @)]
      /\ equivocating' = [equivocating EXCEPT ![r] = @ \cup {a}]
      /\ refused' = [refused EXCEPT ![r] = @ \ {f}]
  BY DEF Equivocation, Quarantine, a
<1>2. /\ accepted'[r] = accepted[r] \ By(a, accepted[r])
      /\ pending'[r] = pending[r] \ By(a, pending[r])
      /\ nextStep'[r] = [nextStep[r] EXCEPT ![a] = 0]
      /\ remembered'[r] = remembered[r] \ By(a, remembered[r])
      /\ equivocating'[r] = equivocating[r] \cup {a}
      /\ refused'[r] = refused[r] \ {f}
  BY <1>1 DEF IInv, TypeOK
<1>3. TypeOK'
  <2>1. /\ Cardinality(accepted'[r]) <= Cardinality(accepted[r])
        /\ Cardinality(accepted'[r]) \in Nat /\ Cardinality(accepted[r]) \in Nat
    <3>1. accepted'[r] \in SUBSET accepted[r]
      BY <1>2
    <3> QED
      BY <3>1, HeldFrames, FS_Subset, FS_CardinalityType
  <2>2. ASSUME NEW b \in Agents
        PROVE  /\ Cardinality(By(b, pending'[r])) <= Cardinality(By(b, pending[r]))
               /\ Cardinality(By(b, pending'[r])) \in Nat
               /\ Cardinality(By(b, pending[r])) \in Nat
    <3>1. /\ By(b, pending'[r]) \in SUBSET By(b, pending[r])
          /\ By(b, pending[r]) \in SUBSET pending[r]
      BY <1>2 DEF By
    <3> QED
      BY <3>1, HeldFrames, FS_Subset, FS_CardinalityType
  <2>3. /\ accepted' \in [Replicas -> SUBSET Frames]
        /\ pending' \in [Replicas -> SUBSET Frames]
        /\ nextStep' \in [Replicas -> [Agents -> Nat]]
        /\ remembered' \in [Replicas -> SUBSET Frames]
        /\ equivocating' \in [Replicas -> SUBSET Agents]
        /\ refused' \in [Replicas -> SUBSET Frames]
        /\ saw' \in [Replicas -> SUBSET Frames]
    BY <1>0, <1>1 DEF IInv, TypeOK, Consume
  <2>4. /\ Cardinality(accepted'[r]) <= MaxAccepted
        /\ \A b \in Agents : Cardinality(By(b, pending'[r])) <= MaxBuffered
    <3>1. /\ Cardinality(accepted[r]) <= MaxAccepted
          /\ \A b \in Agents : Cardinality(By(b, pending[r])) <= MaxBuffered
      BY DEF IInv, TypeOK
    <3> QED
      BY <2>1, <2>2, <3>1, BoundAssumption
  <2> QED
    BY <2>3, <2>4, OtherReplicas DEF TypeOK
<1>4. PICK other \in Honest(Taken(r)) : SameStep(f, other) /\ f # other
  BY DEF Equivocation, Prior, IInv, Memory
<1>5. Taken(r)' = Taken(r) \cup {f}
  BY <1>2, GivenFinite DEF Taken
<1>6. Memory(r)'
  <2>1. /\ Equivocators(Taken(r) \cup {f}) = Equivocators(Taken(r)) \cup {a}
        /\ Honest(Taken(r) \cup {f}) = Honest(Taken(r)) \ By(a, Honest(Taken(r)))
    BY <1>4, HeldFrames, FrameAtTakenStep DEF a
  <2> QED
    BY <1>2, <1>5, <2>1, GivenFinite DEF IInv, Memory
<1>7. Progress(r)'
  <2>1. \A b \in Agents : nextStep'[r][b] = IF b = a THEN 0 ELSE nextStep[r][b]
    BY <1>2 DEF IInv, TypeOK
  <2>2. /\ \A g \in accepted'[r] : g \in accepted[r] /\ AgentOf[g] # a
        /\ \A g \in pending'[r] : g \in pending[r] /\ AgentOf[g] # a
        /\ \A b \in Agents : b # a => By(b, accepted'[r]) = By(b, accepted[r])
    BY <1>2 DEF By
  <2>3. \A g \in accepted[r] \cup pending[r] : AgentOf[g] \in Agents
    BY HeldFrames, FrameAssumption
  <2>4. Progress(r)
    BY DEF IInv
  <2>5. remembered'[r] = accepted'[r] \cup pending'[r]
    BY <1>2, <2>4 DEF Progress, By
  <2>6. /\ \A g \in accepted'[r] : StepOf[g] < nextStep'[r][AgentOf[g]]
        /\ \A g \in pending'[r] : StepOf[g] > nextStep'[r][AgentOf[g]]
    BY <2>1, <2>2, <2>3, <2>4 DEF Progress
  <2>7. \A b \in Agents : \A k \in 0 .. nextStep'[r][b] - 1 :
          \E g \in By(b, accepted'[r]) : StepOf[g] = k
    BY <2>1, <2>2, <2>4 DEF Progress
  <2> QED
    BY <2>5, <2>6, <2>7 DEF Progress
<1> QED
  BY <1>3, <1>6, <1>7

\* A fresh frame that is taken: nobody goes, and it is remembered.
LEMMA FreshIsRemembered ==
  ASSUME IInv, NEW r \in Replicas, NEW f \in Frames, Consume(r, f), Fresh(r, f),
         Remember(r, f), refused' = [refused EXCEPT ![r] = @ \ {f}],
         UNCHANGED equivocating
  PROVE  /\ remembered'[r] = remembered[r] \cup {f} /\ f \notin remembered[r]
         /\ Memory(r)'
<1>1. remembered'[r] = remembered[r] \cup {f} /\ f \notin remembered[r]
  BY DEF IInv, TypeOK, Remember, Fresh, Prior, SameStep
<1>2. Taken(r)' = Taken(r) \cup {f}
  BY GivenFinite DEF IInv, TypeOK, Taken
<1>3. /\ Equivocators(Taken(r) \cup {f}) = Equivocators(Taken(r))
      /\ Honest(Taken(r) \cup {f}) = Honest(Taken(r)) \cup {f}
  <2>1. /\ AgentOf[f] \notin Equivocators(Taken(r))
        /\ \A g \in Honest(Taken(r)) : ~SameStep(f, g)
    BY DEF IInv, Memory, Fresh, Prior
  <2> QED
    BY <2>1, HeldFrames, FrameAtFreeStep
<1> QED
  BY <1>1, <1>2, <1>3, GivenFinite DEF IInv, Memory

\* A frame ahead of its turn waits, where there is room.
LEMMA BufferKeeps ==
  ASSUME IInv, NEW r \in Replicas, NEW f \in Frames, Consume(r, f), Buffer(r, f)
  PROVE  TypeOK' /\ Memory(r)' /\ Progress(r)'
<1> DEFINE a == AgentOf[f]
<1>0. a \in Agents /\ StepOf[f] \in Nat
  BY FrameAssumption
<1> HIDE DEF a
<1>1. /\ pending'[r] = pending[r] \cup {f}
      /\ accepted' = accepted /\ nextStep' = nextStep
  BY DEF IInv, TypeOK, Buffer
<1>2. StepOf[f] > nextStep[r][a] /\ ~BufferFull(r, a)
  BY DEF Buffer, Refusal, a
<1>3. /\ remembered'[r] = remembered[r] \cup {f}
      /\ Memory(r)'
  BY FreshIsRemembered DEF Buffer
<1>4. TypeOK'
  <2>1. /\ pending' \in [Replicas -> SUBSET Frames]
        /\ remembered' \in [Replicas -> SUBSET Frames]
        /\ refused' \in [Replicas -> SUBSET Frames]
        /\ saw' \in [Replicas -> SUBSET Frames]
        /\ equivocating' = equivocating
    BY DEF IInv, TypeOK, Consume, Buffer, Remember
  <2>2. ASSUME NEW b \in Agents
        PROVE  Cardinality(By(b, pending'[r])) <= MaxBuffered
    <3>1. Cardinality(By(b, pending[r])) <= MaxBuffered
      BY DEF IInv, TypeOK
    <3>2. IsFiniteSet(By(b, pending[r])) /\ Cardinality(By(b, pending[r])) \in Nat
      <4>1. By(b, pending[r]) \in SUBSET pending[r]
        BY DEF By
      <4> QED
        BY <4>1, HeldFrames, FS_Subset, FS_CardinalityType
    <3>3. CASE b = a
      <4>1. By(b, pending'[r]) = By(b, pending[r]) \cup {f}
        BY <1>1, <3>3 DEF By, a
      <4>2. Cardinality(By(b, pending[r])) < MaxBuffered
        BY <1>2, <3>2, <3>3, BoundAssumption DEF BufferFull
      <4>3. Cardinality(By(b, pending[r]) \cup {f})
              \in {Cardinality(By(b, pending[r])), Cardinality(By(b, pending[r])) + 1}
        BY <3>2, FS_AddElement
      <4> QED
        BY <3>2, <4>1, <4>2, <4>3, BoundAssumption
    <3>4. CASE b # a
      <4>1. By(b, pending'[r]) = By(b, pending[r])
        BY <1>1, <3>4 DEF By, a
      <4> QED
        BY <3>1, <4>1
    <3> QED
      BY <3>3, <3>4
  <2> QED
    BY <1>1, <2>1, <2>2, OtherReplicas DEF IInv, TypeOK
<1>5. Progress(r)'
  <2>1. Progress(r)
    BY DEF IInv
  <2> QED
    BY <1>1, <1>2, <1>3, <2>1 DEF Progress, a
<1> QED
  BY <1>3, <1>4, <1>5

\* A frame whose turn it is is accepted with those it drains, within the bound.
LEMMA AcceptKeeps ==
  ASSUME IInv, NEW r \in Replicas, NEW f \in Frames, Consume(r, f), Accept(r, f)
  PROVE  TypeOK' /\ Memory(r)' /\ Progress(r)'
<1> DEFINE a == AgentOf[f]
           batch == Batch(r, f)
           n == StepOf[f]
           c == Cardinality(batch)
<1>0. a \in Agents /\ n \in Nat /\ \A g \in Frames : StepOf[g] \in Nat
  BY FrameAssumption
<1>1. n = nextStep[r][a] /\ ~CapacityReached(r, batch)
  BY DEF Accept, Refusal
<1>2. /\ batch \in SUBSET Frames /\ IsFiniteSet(batch) /\ c \in Nat
      /\ \A g \in batch : AgentOf[g] = a /\ StepOf[g] < n + c
      /\ \A k \in n .. n + c - 1 : \E g \in batch : StepOf[g] = k
      /\ \A g \in By(a, pending[r]) \ batch : StepOf[g] > n + c
  BY <1>1, BatchSteps
<1>3. f \in batch /\ batch \subseteq pending[r] \cup {f}
  BY DEF Batch, By
<1>4. /\ accepted' = [accepted EXCEPT ![r] = @ \cup batch]
      /\ pending' = [pending EXCEPT ![r] = @ \ batch]
      /\ nextStep' = [nextStep EXCEPT ![r][a] = @ + c]
      /\ equivocating' = equivocating
      /\ remembered' = [remembered EXCEPT ![r] = @ \cup {f}]
      /\ refused' = [refused EXCEPT ![r] = @ \ {f}]
  BY DEF Accept, Remember
<1> HIDE DEF a, batch, n, c
<1>5. /\ accepted'[r] = accepted[r] \cup batch
      /\ pending'[r] = pending[r] \ batch
      /\ \A b \in Agents :
           nextStep'[r][b] = IF b = a THEN n + c ELSE nextStep[r][b]
  BY <1>0, <1>1, <1>4 DEF IInv, TypeOK
<1>6. /\ remembered'[r] = remembered[r] \cup {f}
      /\ Memory(r)'
  BY FreshIsRemembered DEF Accept
<1>7. TypeOK'
  <2>1. /\ accepted' \in [Replicas -> SUBSET Frames]
        /\ pending' \in [Replicas -> SUBSET Frames]
        /\ remembered' \in [Replicas -> SUBSET Frames]
        /\ equivocating' \in [Replicas -> SUBSET Agents]
        /\ refused' \in [Replicas -> SUBSET Frames]
        /\ saw' \in [Replicas -> SUBSET Frames]
    BY <1>2, <1>4 DEF IInv, TypeOK, Consume
  <2>2. nextStep' \in [Replicas -> [Agents -> Nat]]
    BY <1>0, <1>1, <1>2, <1>4 DEF IInv, TypeOK
  <2>3. Cardinality(accepted'[r]) <= MaxAccepted
    <3>1. /\ Cardinality(accepted[r] \cup batch)
               = Cardinality(accepted[r]) + c - Cardinality(accepted[r] \cap batch)
          /\ Cardinality(accepted[r]) \in Nat
          /\ Cardinality(accepted[r] \cap batch) \in Nat
      BY <1>2, HeldFrames, FS_Union, FS_Intersection, FS_CardinalityType DEF c
    <3>2. Cardinality(accepted[r]) + c <= MaxAccepted
      BY <1>1, <1>2, <3>1, BoundAssumption DEF CapacityReached, c
    <3> QED
      BY <1>2, <1>5, <3>1, <3>2, BoundAssumption
  <2>4. ASSUME NEW b \in Agents
        PROVE  Cardinality(By(b, pending'[r])) <= MaxBuffered
    <3>1. /\ By(b, pending'[r]) \in SUBSET By(b, pending[r])
          /\ By(b, pending[r]) \in SUBSET pending[r]
      BY <1>5 DEF By
    <3>2. /\ Cardinality(By(b, pending'[r])) <= Cardinality(By(b, pending[r]))
          /\ Cardinality(By(b, pending'[r])) \in Nat
          /\ Cardinality(By(b, pending[r])) \in Nat
      BY <3>1, HeldFrames, FS_Subset, FS_CardinalityType
    <3>3. Cardinality(By(b, pending[r])) <= MaxBuffered
      BY DEF IInv, TypeOK
    <3> QED
      BY <3>2, <3>3, BoundAssumption
  <2> QED
    BY <2>1, <2>2, <2>3, <2>4, OtherReplicas DEF TypeOK
<1>8. Progress(r)'
  <2>1. Progress(r) /\ nextStep[r] \in [Agents -> Nat]
    BY DEF IInv, TypeOK
  <2>2. \A g \in accepted[r] \cup pending[r] : AgentOf[g] \in Agents /\ StepOf[g] \in Nat
    BY HeldFrames, FrameAssumption
  <2>3. remembered'[r] = accepted'[r] \cup pending'[r]
    BY <1>3, <1>5, <1>6, <2>1 DEF Progress
  <2>4. ASSUME NEW g \in accepted'[r]
        PROVE  StepOf[g] < nextStep'[r][AgentOf[g]]
    <3>1. CASE g \in batch
      BY <1>0, <1>2, <1>5, <3>1
    <3>2. CASE g \in accepted[r]
      <4>1. StepOf[g] < nextStep[r][AgentOf[g]]
        BY <2>1, <3>2 DEF Progress
      <4> QED
        BY <1>0, <1>1, <1>2, <1>5, <2>1, <2>2, <3>2, <4>1
    <3> QED
      BY <1>5, <3>1, <3>2
  <2>5. ASSUME NEW g \in pending'[r]
        PROVE  StepOf[g] > nextStep'[r][AgentOf[g]]
    <3>1. g \in pending[r] /\ g \notin batch
      BY <1>5
    <3>2. CASE AgentOf[g] = a
      BY <1>0, <1>2, <1>5, <3>1, <3>2 DEF By
    <3>3. CASE AgentOf[g] # a
      BY <1>5, <2>1, <2>2, <3>1, <3>3 DEF Progress
    <3> QED
      BY <3>2, <3>3
  <2>6. ASSUME NEW b \in Agents, NEW k \in 0 .. nextStep'[r][b] - 1
        PROVE  \E g \in By(b, accepted'[r]) : StepOf[g] = k
    <3>1. CASE k \in 0 .. nextStep[r][b] - 1
      <4>1. PICK g \in By(b, accepted[r]) : StepOf[g] = k
        BY <2>1, <3>1 DEF Progress
      <4> QED
        BY <1>5, <4>1 DEF By
    <3>2. CASE k \notin 0 .. nextStep[r][b] - 1
      <4>1. b = a /\ k \in n .. n + c - 1
        BY <1>0, <1>1, <1>2, <1>5, <2>1, <3>2
      <4>2. PICK g \in batch : StepOf[g] = k
        BY <1>2, <4>1
      <4> QED
        BY <1>2, <1>5, <4>1, <4>2 DEF By
    <3> QED
      BY <3>1, <3>2
  <2> QED
    BY <2>3, <2>4, <2>5, <2>6 DEF Progress
<1> QED
  BY <1>6, <1>7, <1>8

\* The invariant holds of every replica, whatever it is given.
LEMMA Invariance == Spec => []IInv
<1>1. Init => IInv
  <2> SUFFICES ASSUME Init PROVE IInv
    OBVIOUS
  <2>1. TypeOK
    <3>1. \A a \in Agents : By(a, {}) = {}
      BY DEF By
    <3> QED
      BY <3>1, FS_EmptySet, BoundAssumption DEF Init, TypeOK
  <2>2. ASSUME NEW r \in Replicas
        PROVE  Memory(r) /\ Progress(r)
    <3>1. Equivocators({}) = {} /\ Honest({}) = {}
      BY DEF Equivocators, Honest, By
    <3>2. Taken(r) = {}
      BY DEF Init, Taken
    <3> QED
      BY <3>1, <3>2, FS_EmptySet DEF Init, Memory, Progress
  <2> QED
    BY <2>1, <2>2 DEF IInv
<1>2. IInv /\ [Next]_vars => IInv'
  <2> SUFFICES ASSUME IInv, [Next]_vars
               PROVE  IInv'
    OBVIOUS
  <2>1. ASSUME NEW r \in Replicas, NEW f \in Frames, Consume(r, f)
        PROVE  IInv'
    <3>1. TypeOK' /\ Memory(r)' /\ Progress(r)'
      <4>1. CASE Ignore(r, f)
        BY <2>1, <4>1, IgnoreKeeps
      <4>2. CASE Equivocation(r, f)
        BY <2>1, <4>2, EquivocationKeeps
      <4>3. CASE Refuse(r, f)
        BY <2>1, <4>3, RefuseKeeps
      <4>4. CASE Buffer(r, f)
        BY <2>1, <4>4, BufferKeeps
      <4>5. CASE Accept(r, f)
        BY <2>1, <4>5, AcceptKeeps
      <4> QED
        BY <2>1, <4>1, <4>2, <4>3, <4>4, <4>5 DEF Consume
    <3>2. ASSUME NEW t \in Replicas, t # r
          PROVE  Memory(t)' /\ Progress(t)'
      BY <2>1, <3>2, OtherReplicas
    <3> QED
      BY <3>1, <3>2 DEF IInv
  <2>2. CASE UNCHANGED vars
    <3>1. TypeOK'
      BY <2>2 DEF IInv, TypeOK, vars
    <3>2. ASSUME NEW r \in Replicas
          PROVE  Memory(r)' /\ Progress(r)'
      BY <2>2 DEF IInv, Memory, Progress, Taken, vars
    <3> QED
      BY <3>1, <3>2 DEF IInv
  <2> QED
    BY <2>1, <2>2 DEF Next
<1> QED
  BY <1>1, <1>2, PTL DEF Spec

-----------------------------------------------------------------------------
(* Theorems.                                                               *)

\* What a replica holds stays in its range: it never accepts more frames than
\* its bound, nor keeps more of one agent behind a gap than its bound
\* (mixture.ts:261-284).
THEOREM TypeCorrectness == Spec => []TypeOK
BY Invariance, PTL DEF IInv

\* What the invariant says of accepted, waiting and next steps is what
\* StateIsFold says of them.
LEMMA FoldOfInvariant ==
  ASSUME IInv
  PROVE  StateIsFold
<1> SUFFICES ASSUME NEW r \in Replicas
             PROVE  /\ equivocating[r] = Equivocators(Taken(r))
                    /\ accepted[r] = WithoutGap(Taken(r))
                    /\ pending[r] = Honest(Taken(r)) \ WithoutGap(Taken(r))
                    /\ remembered[r] = Honest(Taken(r))
                    /\ \A a \in Agents :
                         nextStep[r][a] = Cardinality(By(a, accepted[r]))
  BY DEF StateIsFold, Taken
<1>1. Memory(r) /\ Progress(r)
  BY DEF IInv
<1>2. /\ accepted[r] \in SUBSET Frames /\ pending[r] \in SUBSET Frames
      /\ Taken(r) \in SUBSET Frames /\ IsFiniteSet(accepted[r])
      /\ \A f, g \in remembered[r] : SameStep(f, g) => f = g
  BY HeldFrames
<1>3. \A f \in Frames : AgentOf[f] \in Agents /\ StepOf[f] \in Nat
  BY FrameAssumption
<1>4. nextStep[r] \in [Agents -> Nat]
  BY DEF IInv, TypeOK
<1>5. ASSUME NEW f \in accepted[r]
      PROVE  f \in WithoutGap(Taken(r))
  <2>1. f \in Honest(Taken(r)) /\ StepOf[f] < nextStep[r][AgentOf[f]]
    BY <1>1 DEF Memory, Progress
  <2>2. ASSUME NEW k \in 0 .. StepOf[f]
        PROVE  \E g \in By(AgentOf[f], Taken(r)) : StepOf[g] = k
    <3>1. PICK g \in By(AgentOf[f], accepted[r]) : StepOf[g] = k
      BY <1>1, <1>2, <1>3, <1>4, <2>1 DEF Progress
    <3>2. g \in By(AgentOf[f], Taken(r))
      BY <1>1 DEF Memory, Progress, By, Honest
    <3> QED
      BY <3>1, <3>2
  <2> QED
    BY <2>1, <2>2 DEF WithoutGap
<1>6. ASSUME NEW f \in pending[r]
      PROVE  f \in Honest(Taken(r)) /\ f \notin WithoutGap(Taken(r))
  <2> DEFINE a == AgentOf[f]
             n == nextStep[r][a]
  <2>1. f \in Honest(Taken(r)) /\ a \notin Equivocators(Taken(r))
    BY <1>1 DEF Memory, Progress, Honest
  <2>2. n \in 0 .. StepOf[f]
    BY <1>1, <1>2, <1>3, <1>4 DEF Progress
  <2>3. ASSUME NEW g \in By(a, Taken(r)), StepOf[g] = n
        PROVE  FALSE
    <3>1. g \in remembered[r] /\ AgentOf[g] = a
      BY <1>1, <2>1 DEF Memory, By, Honest
    <3>2. g \in accepted[r] \/ g \in pending[r]
      BY <1>1, <3>1 DEF Progress
    <3> QED
      BY <1>1, <1>2, <1>3, <1>4, <2>3, <3>1, <3>2 DEF Progress
  <2> QED
    BY <2>1, <2>2, <2>3 DEF WithoutGap
<1>7. /\ accepted[r] = WithoutGap(Taken(r))
      /\ pending[r] = Honest(Taken(r)) \ WithoutGap(Taken(r))
  <2>1. Honest(Taken(r)) = accepted[r] \cup pending[r]
    BY <1>1 DEF Memory, Progress
  <2>2. WithoutGap(Taken(r)) \subseteq Honest(Taken(r))
    BY DEF WithoutGap
  <2> QED
    BY <1>5, <1>6, <2>1, <2>2
<1>8. ASSUME NEW a \in Agents
      PROVE  nextStep[r][a] = Cardinality(By(a, accepted[r]))
  <2> DEFINE mine == By(a, accepted[r])
             n == nextStep[r][a]
             steps == {StepOf[f] : f \in mine}
  <2>1. /\ n \in Nat /\ mine \in SUBSET accepted[r]
        /\ \A f \in mine : AgentOf[f] = a
    BY <1>4 DEF By
  <2>2. IsFiniteSet(mine) /\ mine \in SUBSET Frames
    BY <1>2, <2>1, FS_Subset
  <2>3. \A f \in mine : StepOf[f] \in 0 .. n - 1
    BY <1>1, <1>2, <1>3, <2>1 DEF Progress
  <2>4. \A k \in 0 .. n - 1 : \E f \in mine : StepOf[f] = k
    BY <1>1 DEF Progress
  <2>5. \A f, g \in mine : StepOf[f] = StepOf[g] => f = g
    BY <1>1, <1>2, <2>1 DEF Progress, SameStep
  <2> HIDE DEF mine, n
  <2>6. steps = 0 .. n - 1
    BY <2>3, <2>4
  <2>7. Cardinality(0 .. n - 1) = n
    BY <2>1, FS_Interval
  <2>8. Cardinality(steps) = Cardinality(mine)
    BY <2>2, <2>5, StepsCount
  <2> QED
    BY <2>6, <2>7, <2>8 DEF mine, n
<1> QED
  BY <1>1, <1>7, <1>8 DEF Memory

\* A replica's state is a function of the frames it took, whatever their order
\* and repetition and whatever it refused on the way (mixture.ts:238-293,
\* 383-391).
THEOREM FoldedFromFrames == Spec => []StateIsFold
BY Invariance, FoldOfInvariant, PTL

\* Replicas that took the same frames have the same snapshot, stateHash and
\* selection included: what remains of the promise SameFramesSameState once
\* the frames a bound refused are set apart (mixture.ts:302-338).
SameTakenSameState ==
  \A r, t \in Replicas : Taken(r) = Taken(t) => Snapshot(r) = Snapshot(t)

THEOREM ReplicasConverge == Spec => []SameTakenSameState
<1>1. ASSUME StateIsFold
      PROVE  SameTakenSameState
  <2> SUFFICES ASSUME NEW r \in Replicas, NEW t \in Replicas, Taken(r) = Taken(t)
               PROVE  Snapshot(r) = Snapshot(t)
    BY DEF SameTakenSameState
  <2>1. /\ accepted[r] = accepted[t] /\ pending[r] = pending[t]
        /\ equivocating[r] = equivocating[t]
    BY <1>1 DEF StateIsFold, Taken
  <2> QED
    BY <2>1 DEF Snapshot
<1> QED
  BY <1>1, FoldedFromFrames, PTL
-----------------------------------------------------------------------------
(* The selection.  What the loop of selectIndependent does is shown by     *)
(* induction over its candidates, in sets of numbers.                      *)

\* A set of numbers that holds 0 and goes on up to n holds all of 0 .. n.
LEMMA UpToN ==
  ASSUME NEW n \in Nat, NEW S, 0 \in S, \A k \in 0 .. n - 1 : k \in S => k + 1 \in S
  PROVE  \A k \in 0 .. n : k \in S
<1> DEFINE D == {k \in 0 .. n : 0 .. k \subseteq S}
           c == Cardinality(D)
<1>1. D \in SUBSET (0 .. n) /\ D \in SUBSET Nat /\ IsFiniteSet(D) /\ c \in Nat
  <2>1. IsFiniteSet(0 .. n) /\ D \in SUBSET (0 .. n)
    BY FS_Interval
  <2> HIDE DEF D
  <2>2. IsFiniteSet(D)
    BY <2>1, FS_Subset
  <2>3. c \in Nat
    BY <2>2, FS_CardinalityType
  <2> QED BY <2>1, <2>2, <2>3
<1>2. D = 0 .. 0 + c - 1
  <2>1. \A k \in D : k >= 0 /\ 0 .. k \subseteq D
    OBVIOUS
  <2> HIDE DEF D
  <2> QED BY <1>1, <2>1, WithoutGapIsInterval
<1>3. 0 \in D
  OBVIOUS
<1>4. c >= 1
  <2> HIDE DEF D, c
  <2> QED BY <1>1, <1>2, <1>3
<1>5. ASSUME c <= n PROVE FALSE
  <2>1. c - 1 \in D /\ c \notin D
    <3> HIDE DEF D, c
    <3> QED BY <1>1, <1>2, <1>4
  <2>2. c - 1 \in 0 .. n - 1 /\ 0 .. c - 1 \subseteq S
    <3>1. 0 .. c - 1 \subseteq S
      BY <2>1
    <3> HIDE DEF D, c
    <3> QED BY <1>1, <1>4, <1>5, <3>1
  <2> HIDE DEF c
  <2>3. c - 1 \in S
    BY <1>1, <1>4, <2>2
  <2>4. c \in S
    BY <1>1, <2>2, <2>3
  <2>5. 0 .. c \subseteq S
    BY <1>1, <2>2, <2>4
  <2> QED BY <1>1, <1>5, <2>1, <2>5
<1>6. n \in D
  <2> HIDE DEF D, c
  <2> QED BY <1>1, <1>2, <1>5
<1> QED BY <1>6

\* The frames of S that rank up to f.
RankedUpTo(S, f) == {g \in S : Rank[g] <= Rank[f]}

\* Best goes through a finite set of frames in the order of their ranks.
LEMMA InOrderOfRank ==
  ASSUME NEW S \in SUBSET Frames, IsFiniteSet(S)
  PROVE  LET n == Cardinality(S) IN
         /\ n \in Nat
         /\ \A k \in 1 .. n : Best(S, k) \in S
         /\ \A f \in S : \E k \in 1 .. n : Best(S, k) = f
         /\ \A k, l \in 1 .. n : k < l => Rank[Best(S, k)] < Rank[Best(S, l)]
<1> DEFINE n == Cardinality(S)
           place(f) == Cardinality(RankedUpTo(S, f))
<1>1. n \in Nat /\ \A f \in S : Rank[f] \in Nat
  BY FS_CardinalityType, FrameAssumption
<1>2. \A f \in S : /\ RankedUpTo(S, f) \in SUBSET S /\ IsFiniteSet(RankedUpTo(S, f))
                   /\ place(f) \in 1 .. n
  <2> SUFFICES ASSUME NEW f \in S
               PROVE  /\ RankedUpTo(S, f) \in SUBSET S /\ IsFiniteSet(RankedUpTo(S, f))
                      /\ place(f) \in 1 .. n
    OBVIOUS
  <2>1. RankedUpTo(S, f) \in SUBSET S /\ f \in RankedUpTo(S, f)
    BY <1>1 DEF RankedUpTo
  <2>2. IsFiniteSet(RankedUpTo(S, f)) /\ place(f) <= n /\ place(f) \in Nat
    BY <2>1, FS_Subset, FS_CardinalityType
  <2>3. place(f) # 0
    BY <2>1, <2>2, FS_EmptySet
  <2> HIDE DEF n, place
  <2> QED BY <1>1, <2>1, <2>2, <2>3
<1>3. ASSUME NEW f \in S, NEW g \in S, Rank[f] < Rank[g]
      PROVE  place(f) < place(g)
  <2>1. /\ RankedUpTo(S, f) \in SUBSET RankedUpTo(S, g)
        /\ g \in RankedUpTo(S, g) /\ g \notin RankedUpTo(S, f)
    <3>1. /\ Rank[g] <= Rank[g] /\ ~(Rank[g] <= Rank[f])
          /\ \A h \in S : Rank[h] <= Rank[f] => Rank[h] <= Rank[g]
      BY <1>1, <1>3
    <3> QED BY <3>1 DEF RankedUpTo
  <2>2. place(f) <= place(g) /\ place(f) # place(g)
    BY <1>2, <2>1, FS_Subset
  <2>3. place(f) \in 1 .. n /\ place(g) \in 1 .. n
    BY <1>2
  <2> HIDE DEF place, n
  <2> QED BY <1>1, <2>2, <2>3
<1>4. \A f, g \in S : place(f) = place(g) => f = g
  <2> SUFFICES ASSUME NEW f \in S, NEW g \in S, place(f) = place(g) PROVE f = g
    OBVIOUS
  <2>1. place(f) \in 1 .. n
    BY <1>2
  <2>2. ~(Rank[f] < Rank[g]) /\ ~(Rank[g] < Rank[f])
    <3>1. (Rank[f] < Rank[g] => place(f) < place(g)) /\ (Rank[g] < Rank[f] => place(g) < place(f))
      BY <1>3
    <3> HIDE DEF place, n
    <3> QED BY <1>1, <2>1, <3>1
  <2>3. Rank[f] = Rank[g]
    BY <1>1, <2>2
  <2> QED BY <2>3, FrameAssumption
<1>5. \A k \in 1 .. n : \E f \in S : place(f) = k
  <2> DEFINE places == [f \in S |-> place(f)]
  <2>1. \A f \in S : place(f) \in 1 .. n
    BY <1>2
  <2> HIDE DEF place, n
  <2>2. places \in Injection(S, 1 .. n)
    BY <1>4, <2>1 DEF Injection, IsInjective
  <2>3. IsFiniteSet(1 .. n) /\ Cardinality(1 .. n) = n
    BY <1>1, FS_Interval
  <2>4. places \in Surjection(S, 1 .. n)
    BY <2>2, <2>3, FS_Injection DEF n
  <2> QED BY <2>4 DEF Surjection
<1>6. \A k : Best(S, k) = CHOOSE f \in S : place(f) = k
  BY DEF Best, RankedUpTo
<1> HIDE DEF place, n
<1>7. \A k \in 1 .. n : Best(S, k) \in S /\ place(Best(S, k)) = k
  BY <1>5, <1>6
<1>8. \A f \in S : place(f) \in 1 .. n /\ Best(S, place(f)) = f
  BY <1>2, <1>4, <1>7
<1>9. ASSUME NEW k \in 1 .. n, NEW l \in 1 .. n, k < l
      PROVE  Rank[Best(S, k)] < Rank[Best(S, l)]
  <2> DEFINE f == Best(S, k)
             g == Best(S, l)
  <2>1. f \in S /\ g \in S /\ place(f) = k /\ place(g) = l
    BY <1>7
  <2> HIDE DEF f, g
  <2>2. ~(Rank[g] < Rank[f])
    BY <1>1, <1>3, <1>9, <2>1
  <2>3. Rank[f] # Rank[g]
    <3>1. f # g
      BY <1>1, <1>9, <2>1
    <3> QED BY <2>1, <3>1, FrameAssumption
  <2> QED BY <1>1, <2>1, <2>2, <2>3 DEF f, g
<1> QED BY <1>1, <1>7, <1>8, <1>9 DEF n

\* One candidate of the loop.
Offered(s, f) == IF ToSelect(s, f) THEN Append(s, f) ELSE s

\* The lists the loop goes through, candidate by candidate.
Loop(S, n, sel) ==
  /\ sel \in [0 .. n -> Seq(S)] /\ sel[0] = <<>>
  /\ \A k \in 1 .. n : sel[k] = Offered(sel[k - 1], Best(S, k))

LEMMA LoopRuns ==
  ASSUME NEW S \in SUBSET Frames, NEW n \in Nat, \A k \in 1 .. n : Best(S, k) \in S
  PROVE  \E sel : Loop(S, n, sel)
<1> DEFINE D == {k \in 0 .. n : \E sel : Loop(S, k, sel)}
<1>1. 0 \in D
  <2>1. Loop(S, 0, [k \in 0 .. 0 |-> <<>>])
    BY DEF Loop
  <2> QED BY <2>1
<1>2. ASSUME NEW k \in 0 .. n - 1, k \in D PROVE k + 1 \in D
  <2>1. PICK sel : Loop(S, k, sel)
    BY <1>2
  <2> DEFINE f == Best(S, k + 1)
             last == Offered(sel[k], f)
             more == [i \in 0 .. k + 1 |-> IF i = k + 1 THEN last ELSE sel[i]]
  <2>2. k \in Nat /\ k + 1 \in 1 .. n /\ k + 1 \in 0 .. n
    OBVIOUS
  <2>3. f \in S
    BY <2>2
  <2>4. sel[k] \in Seq(S)
    BY <2>1, <2>2 DEF Loop
  <2>5. last \in Seq(S)
    <3> HIDE DEF f
    <3> QED BY <2>3, <2>4, AppendProperties DEF Offered
  <2> HIDE DEF last
  <2>6. /\ \A i \in 0 .. k : sel[i] \in Seq(S)
        /\ sel[0] = <<>> /\ \A i \in 1 .. k : sel[i] = Offered(sel[i - 1], Best(S, i))
    BY <2>1 DEF Loop
  <2>7. more \in [0 .. k + 1 -> Seq(S)]
    BY <2>2, <2>5, <2>6
  <2>8. \A i \in 0 .. k : more[i] = sel[i]
    BY <2>2
  <2>9. more[k + 1] = last
    BY <2>2
  <2> HIDE DEF more
  <2>10. \A i \in 1 .. k + 1 : more[i] = Offered(more[i - 1], Best(S, i))
    <3> SUFFICES ASSUME NEW i \in 1 .. k + 1 PROVE more[i] = Offered(more[i - 1], Best(S, i))
      OBVIOUS
    <3>1. CASE i = k + 1
      <4>1. more[i - 1] = sel[k]
        BY <2>2, <2>8, <3>1
      <4> QED BY <2>9, <3>1, <4>1 DEF last
    <3>2. CASE i # k + 1
      <4>1. i \in 1 .. k /\ i \in 0 .. k /\ i - 1 \in 0 .. k
        BY <2>2, <3>2
      <4> QED BY <2>6, <2>8, <4>1
    <3> QED BY <3>1, <3>2
  <2>11. more[0] = <<>>
    BY <2>2, <2>6, <2>8
  <2>12. Loop(S, k + 1, more)
    BY <2>7, <2>10, <2>11 DEF Loop
  <2> QED BY <2>2, <2>12
<1> HIDE DEF D
<1>3. n \in D
  BY <1>1, <1>2, UpToN
<1> QED BY <1>3 DEF D

LEMMA SelectedByLoop ==
  ASSUME NEW S \in SUBSET Frames, IsFiniteSet(S)
  PROVE  \E sel : Loop(S, Cardinality(S), sel) /\ Selected(S) = sel[Cardinality(S)]
<1> DEFINE n == Cardinality(S)
           next(sel, k) == IF k = 0 THEN <<>>
                           ELSE LET f == Best(S, k) IN
                                IF ToSelect(sel[k - 1], f) THEN Append(sel[k - 1], f)
                                ELSE sel[k - 1]
           selected == CHOOSE sel : sel = [k \in 0 .. n |-> next(sel, k)]
<1>1. Selected(S) = selected[n]
  BY DEF Selected
<1>2. n \in Nat /\ \A k \in 1 .. n : Best(S, k) \in S
  BY InOrderOfRank
<1> HIDE DEF n
<1>3. PICK sel : Loop(S, n, sel)
  BY <1>2, LoopRuns
<1>4. sel = [k \in 0 .. n |-> next(sel, k)]
  <2>1. sel = [k \in 0 .. n |-> sel[k]]
    BY <1>3 DEF Loop
  <2>2. \A k \in 0 .. n : sel[k] = next(sel, k)
    <3>1. sel[0] = next(sel, 0)
      BY <1>3 DEF Loop
    <3>2. ASSUME NEW k \in 1 .. n PROVE sel[k] = next(sel, k)
      <4>1. sel[k] = Offered(sel[k - 1], Best(S, k)) /\ k # 0
        BY <1>3 DEF Loop
      <4> QED BY <4>1 DEF Offered
    <3>3. \A k \in 0 .. n : k = 0 \/ k \in 1 .. n
      BY <1>2
    <3> HIDE DEF next
    <3> QED BY <3>1, <3>2, <3>3
  <2> HIDE DEF next
  <2> QED BY <2>1, <2>2
<1>5. selected = [k \in 0 .. n |-> next(selected, k)]
  <2> HIDE DEF next
  <2> QED BY <1>4
<1> HIDE DEF selected
<1>6. \A k \in 0 .. n : selected[k] = next(selected, k)
  <2> HIDE DEF next
  <2> QED BY <1>5
<1> DEFINE D == {k \in 0 .. n : selected[k] = sel[k]}
<1>7. 0 \in D
  BY <1>2, <1>3, <1>6 DEF Loop
<1>8. ASSUME NEW k \in 0 .. n - 1, k \in D PROVE k + 1 \in D
  <2>1. k + 1 \in 1 .. n /\ k + 1 \in 0 .. n /\ k + 1 # 0 /\ (k + 1) - 1 = k
    BY <1>2
  <2>2. selected[k + 1] = Offered(selected[k], Best(S, k + 1))
    BY <1>6, <2>1 DEF Offered
  <2>3. sel[k + 1] = Offered(sel[k], Best(S, k + 1))
    BY <1>3, <2>1 DEF Loop
  <2> QED BY <1>8, <2>1, <2>2, <2>3
<1> HIDE DEF D
<1>9. n \in D
  BY <1>2, <1>7, <1>8, UpToN
<1> QED BY <1>1, <1>3, <1>9 DEF n, D

\* A frame that is not in C has TopK better ones in C or repeats one of them.
Outdone(C, f) ==
  LET better == {g \in C : Rank[g] < Rank[f]} IN
  Cardinality(better) = TopK \/ \E g \in better : Correlated(f, g)

\* What the list holds after k candidates.
Chosen(S, s, k) ==
  LET C == ToSet(s) IN
  /\ s \in Seq(S) /\ Len(s) <= TopK
  /\ IsFiniteSet(C) /\ Cardinality(C) = Len(s)
  /\ C \subseteq {Best(S, i) : i \in 1 .. k}
  /\ \A f, g \in C : f # g => ~Correlated(f, g)
  /\ \A i \in 1 .. k : Best(S, i) \in C \/ Outdone(C, Best(S, i))

LEMMA AnotherCandidate ==
  ASSUME NEW S \in SUBSET Frames, IsFiniteSet(S),
         NEW k \in 0 .. Cardinality(S) - 1, NEW s, Chosen(S, s, k)
  PROVE  Chosen(S, Offered(s, Best(S, k + 1)), k + 1)
<1> DEFINE n == Cardinality(S)
           b == Best(S, k + 1)
           C == ToSet(s)
<1>1. /\ n \in Nat /\ k \in Nat /\ k + 1 \in 1 .. n /\ b \in S
      /\ \A i \in 1 .. k + 1 : Best(S, i) \in S /\ Rank[Best(S, i)] \in Nat
      /\ \A i \in 1 .. k : Rank[Best(S, i)] < Rank[b]
  <2>1. /\ n \in Nat /\ \A i \in 1 .. n : Best(S, i) \in S
        /\ \A i, j \in 1 .. n : i < j => Rank[Best(S, i)] < Rank[Best(S, j)]
    BY InOrderOfRank
  <2> HIDE DEF n
  <2>2. /\ k \in Nat /\ k + 1 \in 1 .. n
        /\ \A i \in 1 .. k + 1 : i \in 1 .. n
        /\ \A i \in 1 .. k : i \in 1 .. n /\ i < k + 1
    BY <2>1 DEF n
  <2>3. \A i \in 1 .. k + 1 : Best(S, i) \in S
    BY <2>1, <2>2
  <2> QED BY <2>1, <2>2, <2>3, FrameAssumption
<1>2. /\ s \in Seq(S) /\ Len(s) <= TopK /\ Len(s) \in Nat /\ TopK \in Nat
      /\ IsFiniteSet(C) /\ Cardinality(C) = Len(s)
      /\ C \subseteq {Best(S, i) : i \in 1 .. k}
      /\ \A f, g \in C : f # g => ~Correlated(f, g)
      /\ \A i \in 1 .. k : Best(S, i) \in C \/ Outdone(C, Best(S, i))
  BY BoundAssumption DEF Chosen
<1> HIDE DEF n, b, C
<1>3. \A g \in C : Rank[g] < Rank[b] /\ g # b
  BY <1>1, <1>2
<1>4. \A i \in 1 .. k + 1 : i \in 1 .. k \/ Best(S, i) = b
  BY <1>1 DEF b
<1>5. C \subseteq {Best(S, i) : i \in 1 .. k + 1} /\ b \in {Best(S, i) : i \in 1 .. k + 1}
  BY <1>1, <1>2 DEF b
<1>6. CASE ToSelect(s, b)
  <2> DEFINE t == Append(s, b)
             B == ToSet(t)
  <2>1. /\ t \in Seq(S) /\ Len(t) = Len(s) + 1 /\ Len(t) <= TopK
        /\ B = C \cup {b}
    <3>1. /\ t \in Seq(S) /\ Len(t) = Len(s) + 1
          /\ \A i \in 1 .. Len(s) : t[i] = s[i]
          /\ t[Len(s) + 1] = b /\ DOMAIN s = 1 .. Len(s) /\ DOMAIN t = 1 .. Len(s) + 1
      BY <1>1, <1>2, AppendProperties
    <3>2. Len(s) < TopK
      BY <1>6 DEF ToSelect
    <3> DEFINE l == Len(s)
    <3>3. B = {t[i] : i \in 1 .. l + 1} /\ C = {s[i] : i \in 1 .. l}
      BY <3>1 DEF ToSet, C
    <3>4. \A i \in 1 .. l + 1 : i \in 1 .. l \/ i = l + 1
      BY <1>2
    <3>5. \A i \in 1 .. l : i \in 1 .. l + 1
      BY <1>2
    <3>6. l + 1 \in 1 .. l + 1
      BY <1>2
    <3>7. l + 1 <= TopK
      BY <1>2, <3>2
    <3> HIDE DEF t, l, B
    <3>8. B = C \cup {b}
      BY <3>1, <3>3, <3>4, <3>5, <3>6 DEF l
    <3> QED BY <3>1, <3>7, <3>8 DEF l
  <2> HIDE DEF t, B
  <2>2. IsFiniteSet(B) /\ Cardinality(B) = Len(t)
    BY <1>2, <1>3, <2>1, FS_AddElement
  <2>3. \A f, g \in B : f # g => ~Correlated(f, g)
    <3>1. \A g \in C : ~Correlated(b, g) /\ ~Correlated(g, b)
      BY <1>6 DEF ToSelect, Correlated, C
    <3> QED BY <1>2, <2>1, <3>1
  <2>4. ASSUME NEW i \in 1 .. k + 1 PROVE Best(S, i) \in B \/ Outdone(B, Best(S, i))
    <3>1. CASE Best(S, i) = b
      BY <2>1, <3>1
    <3>2. CASE i \in 1 .. k
      <4> DEFINE f == Best(S, i)
      <4>1. Rank[f] < Rank[b] /\ Rank[f] \in Nat /\ Rank[b] \in Nat
        BY <1>1, <3>2 DEF b
      <4> HIDE DEF f
      <4>2. {g \in B : Rank[g] < Rank[f]} = {g \in C : Rank[g] < Rank[f]}
        BY <2>1, <4>1
      <4>3. f \in C \/ Outdone(C, f)
        BY <1>2, <3>2 DEF f
      <4> QED BY <2>1, <4>2, <4>3 DEF Outdone, f
    <3> QED BY <1>4, <3>1, <3>2
  <2>5. B \subseteq {Best(S, i) : i \in 1 .. k + 1}
    BY <1>5, <2>1
  <2>6. Chosen(S, t, k + 1)
    BY <2>1, <2>2, <2>3, <2>4, <2>5 DEF Chosen, B
  <2> QED BY <1>6, <2>6 DEF Offered, t, b
<1>7. CASE ~ToSelect(s, b)
  <2>1. Outdone(C, b)
    <3>1. {g \in C : Rank[g] < Rank[b]} = C
      BY <1>3
    <3>2. CASE ~(Len(s) < TopK)
      <4>1. Cardinality(C) = TopK
        BY <1>2, <3>2
      <4> QED BY <3>1, <4>1 DEF Outdone
    <3>3. CASE \E g \in C : Correlated(b, g)
      BY <1>3, <3>3 DEF Outdone
    <3> QED BY <1>7, <3>2, <3>3 DEF ToSelect, C
  <2>2. \A i \in 1 .. k + 1 : Best(S, i) \in C \/ Outdone(C, Best(S, i))
    BY <1>2, <1>4, <2>1
  <2>3. Chosen(S, s, k + 1)
    BY <1>2, <1>5, <2>2 DEF Chosen, C
  <2> QED BY <1>7, <2>3 DEF Offered, b
<1> QED BY <1>6, <1>7

\* selectIndependent, for any finite set of frames.
LEMMA SelectionIsGreedy ==
  ASSUME NEW S \in SUBSET Frames, IsFiniteSet(S)
  PROVE  Chosen(S, Selected(S), Cardinality(S))
<1> DEFINE n == Cardinality(S)
<1>1. n \in Nat
  BY FS_CardinalityType
<1>2. PICK sel : Loop(S, n, sel) /\ Selected(S) = sel[n]
  BY SelectedByLoop
<1> DEFINE D == {k \in 0 .. n : Chosen(S, sel[k], k)}
<1>3. 0 \in D
  <2>1. ToSet(<<>>) = {}
    BY DEF ToSet
  <2>2. Len(<<>>) = 0 /\ <<>> \in Seq(S)
    OBVIOUS
  <2>3. Chosen(S, <<>>, 0)
    <3>1. IsFiniteSet({}) /\ Cardinality({}) = 0 /\ 0 <= TopK
      BY FS_EmptySet, BoundAssumption
    <3>2. \A i \in 1 .. 0 : FALSE
      OBVIOUS
    <3> QED BY <2>1, <2>2, <3>1, <3>2 DEF Chosen
  <2> HIDE DEF n
  <2> QED BY <1>1, <1>2, <2>3 DEF Loop
<1>4. ASSUME NEW k \in 0 .. n - 1, k \in D PROVE k + 1 \in D
  <2>1. Chosen(S, Offered(sel[k], Best(S, k + 1)), k + 1)
    BY <1>4, AnotherCandidate
  <2> HIDE DEF n
  <2>2. k + 1 \in 1 .. n /\ k + 1 \in 0 .. n /\ (k + 1) - 1 = k
    BY <1>1
  <2>3. sel[k + 1] = Offered(sel[k], Best(S, k + 1))
    BY <1>2, <2>2 DEF Loop
  <2> QED BY <2>1, <2>2, <2>3
<1> HIDE DEF D, n
<1>5. n \in D
  BY <1>1, <1>3, <1>4, UpToN
<1> QED BY <1>2, <1>5 DEF D, n

\* No two contributions are correlated, and a frame that does not count is
\* outranked by TopK contributions or by one it repeats (mixture.ts:483-496).
THEOREM SelectsIndependently == Spec => []IndependentSelection
<1>1. IInv => IndependentSelection
  <2> SUFFICES ASSUME IInv, NEW r \in Replicas
               PROVE  LET chosen == ToSet(Selected(accepted[r])) IN
                      /\ chosen \subseteq accepted[r] /\ Cardinality(chosen) <= TopK
                      /\ \A f, g \in chosen : f # g => ~Correlated(f, g)
                      /\ \A f \in accepted[r] \ chosen : Outdone(chosen, f)
    BY DEF IndependentSelection, Outdone
  <2> DEFINE S == accepted[r]
             chosen == ToSet(Selected(S))
  <2>1. S \in SUBSET Frames /\ IsFiniteSet(S)
    BY HeldFrames
  <2> HIDE DEF S
  <2>2. Chosen(S, Selected(S), Cardinality(S))
    BY <2>1, SelectionIsGreedy
  <2>3. \A f \in S : \E i \in 1 .. Cardinality(S) : Best(S, i) = f
    BY <2>1, InOrderOfRank
  <2>4. chosen \subseteq S
    BY <2>2 DEF Chosen, ToSet
  <2>5. \A f \in S \ chosen : Outdone(chosen, f)
    BY <2>2, <2>3 DEF Chosen
  <2>6. Cardinality(chosen) <= TopK /\ \A f, g \in chosen : f # g => ~Correlated(f, g)
    BY <2>2 DEF Chosen
  <2> QED BY <2>4, <2>5, <2>6 DEF S
<1> QED BY <1>1, Invariance, PTL
=============================================================================
