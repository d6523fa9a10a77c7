-------------------------- MODULE MCGuardedRollout --------------------------
(***************************************************************************)
(* Instances of GuardedRollout for TLC: one or two callers, up to three     *)
(* artifacts for two candidates.                                           *)
(***************************************************************************)
EXTENDS GuardedRollout

CONSTANTS r1, r2, p1, p2, p3, c1, c2, t1, t2, f1, f2, h1, h2

\* Two candidates; the first has a second artifact.
Reissued == [p \in Promotions |-> IF p = p2 THEN c2 ELSE c1]

\* All candidates supersede one target.
Superseded == [c \in Candidates |-> t1]

\* The first artifact has expired at the later reading of the clock.
Expiries == [p \in Promotions |-> IF p = p1 THEN 1 ELSE 2]
Clock == {0, 1}

\* A checkpoint file for each candidate.
OwnPaths == [p \in Promotions |-> IF p = p2 THEN f2 ELSE f1]

\* One ledger handle lent from call to call, and a handle for each caller.
SharedHandle == [r \in Rollouts |-> h1]
OwnHandles == [r \in Rollouts |-> IF r = r1 THEN h1 ELSE h2]

=============================================================================
