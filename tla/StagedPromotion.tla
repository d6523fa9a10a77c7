-------------------------- MODULE StagedPromotion --------------------------
(***************************************************************************)
(* What the guarded rollout promises, without calls, locks, checkpoints or *)
(* crashes: each candidate is measured stage after stage, and an artifact  *)
(* is committed at most once, only for a candidate with every stage done.  *)
(***************************************************************************)
EXTENDS Integers, Sequences

CONSTANTS
  Promotions,            \* artifacts, each named by its nonce
  Candidates,
  CandidateOf,           \* [Promotions -> Candidates]
  Stage,                 \* 1 .. n
  ObservationsPerStage

VARIABLES
  walk,        \* healthy observations of each candidate at each stage
  committed    \* the artifacts committed, oldest first

Committed(p) == \E i \in DOMAIN committed : committed[i] = p

Done(c, s) == walk[c][s] = ObservationsPerStage

Init ==
  /\ walk = [c \in Candidates |-> [s \in Stage |-> 0]]
  /\ committed = <<>>

\* A healthy measurement at a stage that all earlier stages lead to.
Measure(c, s) ==
  /\ \A k \in Stage : k < s => Done(c, k)
  /\ ~ Done(c, s)
  /\ walk' = [walk EXCEPT ![c][s] = @ + 1]
  /\ UNCHANGED committed

\* A finished candidate starts again from nothing.
Restart(c) ==
  /\ walk' = [walk EXCEPT ![c] = [s \in Stage |-> 0]]
  /\ UNCHANGED committed

Commit(p) ==
  /\ \A s \in Stage : Done(CandidateOf[p], s)
  /\ ~ Committed(p)
  /\ committed' = Append(committed, p)
  /\ UNCHANGED walk

Next ==
  \/ \E c \in Candidates, s \in Stage : Measure(c, s)
  \/ \E c \in Candidates : Restart(c)
  \/ \E p \in Promotions : Commit(p)

Spec == Init /\ [][Next]_<<walk, committed>>

=============================================================================
