--------------------------- MODULE GuardedRollout ---------------------------
(***************************************************************************)
(* The fully guarded promotion path, run_canary_full of crates/runtime:    *)
(* several callers of one process roll verified candidates out, each call  *)
(* under the promotion lock of the target it supersedes, with a durable    *)
(* checkpoint of its canary controller and the durable promotion ledger.   *)
(*                                                                         *)
(* The feed of measurements, the deployment adapter, the clock and the     *)
(* file system are given to the call.  They answer as their contracts      *)
(* allow, and fail in the ways the constant Faults lists.                  *)
(*                                                                         *)
(* Abstracted: a verified artifact is named by its nonce; latencies and    *)
(* the service levels computed from them are left out; a call always has a *)
(* ledger.  A call that finds its target locked returns `fenced` and       *)
(* changes nothing, so it is no step here.                                 *)
(***************************************************************************)
EXTENDS Canary, LedgerChain, FiniteSets

CONSTANTS
  Rollouts,       \* the callers, each a thread of the one process
  Promotions,     \* verified artifacts, each named by its nonce
  Candidates,
  Targets,        \* artifacts that candidates supersede and roll back to
  Paths,          \* checkpoint files
  Handles,        \* PromotionLedger values the callers hold
  CandidateOf,    \* [Promotions -> Candidates]
  TargetOf,       \* [Candidates -> Targets]: the hash covers the target
  ExpiryOf,       \* [Promotions -> Nat]
  PathOf,         \* [Promotions -> Paths]: the caller's choice of a file
  HandleOf,       \* [Rollouts -> Handles]: one for all, or one for each
  Times,          \* the values a reading of the clock can give
  Faults,         \* the faults of this instance, a subset of FaultKinds
  MaxSamples,     \* max_samples: observations one call makes at most
  MaxRecords,     \* bound: no call starts once the log has as many lines
  None

FaultKinds ==
  {"crash", "feedPanics", "adapterPanics", "unreadable", "saveFails", "clearFails",
   "recordFails", "restoreRefused", "restoreIgnored", "unhealthy"}

ASSUME RolloutAssumption ==
  /\ CandidateOf \in [Promotions -> Candidates]
  /\ TargetOf \in [Candidates -> Targets]
  /\ ExpiryOf \in [Promotions -> Nat]
  /\ PathOf \in [Promotions -> Paths]
  /\ HandleOf \in [Rollouts -> Handles]
  /\ Times \subseteq Nat
  /\ Faults \subseteq FaultKinds
  /\ MaxSamples \in Nat
  /\ None \notin Controller(Candidates, Targets, Promotions)
  /\ None \notin Promotions
  /\ None \notin Seq(Promotions)

VARIABLES
  pc,         \* where each caller is in the call
  prom,       \* the artifact it rolls out
  ctrl,       \* its canary controller
  decision,   \* what the last observation decided
  samples,    \* observations made in this call
  outcome,    \* what the call will report
  held,       \* PromotionLockRegistry: the locked targets
  entries,    \* the entries of each ledger handle, None while not open
  ckpt,       \* the checkpoint files
  log,        \* the ledger file
  active      \* the artifact that gets the traffic of each target

\* Auxiliary variables: nothing in the code reads them.
VARIABLES
  walk,       \* healthy observations of each candidate's own rollout
  wins        \* times each artifact was reported promoted, at most two

process == <<pc, prom, ctrl, decision, samples, outcome, held, entries>>
local == <<pc, prom, ctrl, decision, samples, outcome>>
vars == <<process, ckpt, log, active, walk, wins>>

Controllers == Controller(Candidates, Targets, Promotions)

Where == {"idle", "load", "observe", "save", "restore", "confirm", "promote",
          "record", "return"}

Target(p) == TargetOf[CandidateOf[p]]

Artifact(p) ==
  [candidate |-> CandidateOf[p],
   rollbackTarget |-> Target(p),
   nonce |-> p,
   expiresAt |-> ExpiryOf[p]]

InFlight(r) == pc[r] # "idle"

\* The handle is lent to a call as &mut, to one call at a time.
HandleFree(h) == \A r \in Rollouts : InFlight(r) => HandleOf[r] # h

EmptyWalk == [s \in Stage |-> 0]

Init ==
  /\ pc = [r \in Rollouts |-> "idle"]
  /\ prom = [r \in Rollouts |-> None]
  /\ ctrl = [r \in Rollouts |-> None]
  /\ decision = [r \in Rollouts |-> "Hold"]
  /\ samples = [r \in Rollouts |-> 0]
  /\ outcome = [r \in Rollouts |-> "none"]
  /\ held = {}
  /\ entries = [h \in Handles |-> None]
  /\ ckpt = [f \in Paths |-> None]
  /\ log = <<>>
  /\ active = [t \in Targets |-> t]
  /\ walk = [c \in Candidates |-> EmptyWalk]
  /\ wins = [p \in Promotions |-> 0]

-----------------------------------------------------------------------------
(* Mutated forms: plausible bugs, each of which some property must catch.  *)

AcquireUnfenced(r, p) ==
  /\ pc[r] = "idle"
  /\ HandleFree(HandleOf[r]) /\ entries[HandleOf[r]] # None
  /\ Len(log) < MaxRecords
  /\ held' = held \cup {Target(p)}
  /\ pc' = [pc EXCEPT ![r] = "load"]
  /\ prom' = [prom EXCEPT ![r] = p]
  /\ UNCHANGED <<ctrl, decision, samples, outcome, entries, ckpt, log, active,
                 walk, wins>>

LeaveLocked(r) ==
  /\ pc' = [pc EXCEPT ![r] = "idle"]
  /\ prom' = [prom EXCEPT ![r] = None]
  /\ ctrl' = [ctrl EXCEPT ![r] = None]
  /\ decision' = [decision EXCEPT ![r] = "Hold"]
  /\ samples' = [samples EXCEPT ![r] = 0]
  /\ outcome' = [outcome EXCEPT ![r] = "none"]
  /\ UNCHANGED held

ConfirmsAnything(r, healthy) == healthy

AlreadyInController(r) == prom[r] \in ctrl[r].consumed

-----------------------------------------------------------------------------
(* The callers and the world outside the call.                             *)

\* A caller opens (or opens again) its ledger; a log that does not verify
\* is refused.
Open(h) ==
  /\ HandleFree(h)
  /\ Openable(log)
  /\ entries' = [entries EXCEPT ![h] = Nonces(log)]
  /\ UNCHANGED <<local, held, ckpt, log, active, walk, wins>>

\* A caller gives the target's traffic to the candidate before it asks for
\* the rollout; the adapter is lent to the call as &mut too.
Deploy(p) ==
  /\ Target(p) \notin held
  /\ active' = [active EXCEPT ![Target(p)] = CandidateOf[p]]
  /\ UNCHANGED <<process, ckpt, log, walk, wins>>

\* The process dies: memory is lost, files and traffic stay as they are.
Crash ==
  /\ "crash" \in Faults
  /\ pc' = [r \in Rollouts |-> "idle"]
  /\ prom' = [r \in Rollouts |-> None]
  /\ ctrl' = [r \in Rollouts |-> None]
  /\ decision' = [r \in Rollouts |-> "Hold"]
  /\ samples' = [r \in Rollouts |-> 0]
  /\ outcome' = [r \in Rollouts |-> "none"]
  /\ held' = {}
  /\ entries' = [h \in Handles |-> None]
  /\ UNCHANGED <<ckpt, log, active, walk, wins>>

-----------------------------------------------------------------------------
(* Entering and leaving the call.                                          *)

\* The call gets the promotion lock of the target the artifact supersedes.
Acquire(r, p) ==
  /\ pc[r] = "idle"
  /\ HandleFree(HandleOf[r]) /\ entries[HandleOf[r]] # None
  /\ Len(log) < MaxRecords
  /\ Target(p) \notin held
  /\ held' = held \cup {Target(p)}
  /\ pc' = [pc EXCEPT ![r] = "load"]
  /\ prom' = [prom EXCEPT ![r] = p]
  /\ UNCHANGED <<ctrl, decision, samples, outcome, entries, ckpt, log, active,
                 walk, wins>>

\* The call's locals are gone and its guard, dropped, gives the lock back.
Leave(r) ==
  /\ pc' = [pc EXCEPT ![r] = "idle"]
  /\ prom' = [prom EXCEPT ![r] = None]
  /\ ctrl' = [ctrl EXCEPT ![r] = None]
  /\ decision' = [decision EXCEPT ![r] = "Hold"]
  /\ samples' = [samples EXCEPT ![r] = 0]
  /\ outcome' = [outcome EXCEPT ![r] = "none"]
  /\ held' = held \ {Target(prom[r])}

\* Code the caller supplied (its feed, its adapter) panics inside the call.
Panic(r) ==
  /\ \/ "feedPanics" \in Faults /\ pc[r] = "observe"
     \/ "adapterPanics" \in Faults /\ pc[r] \in {"restore", "confirm"}
  /\ Leave(r)
  /\ UNCHANGED <<entries, ckpt, log, active, walk, wins>>

\* The controller is the checkpoint's, whatever candidate that is for, or a
\* fresh one when there is none or it cannot be read.
Load(r) ==
  LET saved == ckpt[PathOf[prom[r]]]
      fresh == NewController(CandidateOf[prom[r]], Target(prom[r]))
  IN
  /\ pc[r] = "load"
  /\ \/ saved # None /\ ctrl' = [ctrl EXCEPT ![r] = saved]
     \/ saved = None /\ ctrl' = [ctrl EXCEPT ![r] = fresh]
     \/ "unreadable" \in Faults /\ ctrl' = [ctrl EXCEPT ![r] = fresh]
  /\ pc' = [pc EXCEPT ![r] = "observe"]
  /\ UNCHANGED <<prom, decision, samples, outcome, held, entries, ckpt, log,
                 active, walk, wins>>

\* The call reports its outcome; a terminal one clears the checkpoint first,
\* and an error in clearing it is ignored.
Return(r) ==
  LET terminal == outcome[r] \in {"promoted", "rolledBack"}
      path == PathOf[prom[r]]
      c == CandidateOf[prom[r]]
  IN
  /\ pc[r] = "return"
  /\ \/ /\ terminal
        /\ ckpt' = [ckpt EXCEPT ![path] = None]
        /\ walk' = [walk EXCEPT ![c] = EmptyWalk]
     \/ /\ terminal => "clearFails" \in Faults
        /\ UNCHANGED <<ckpt, walk>>
  /\ wins' = IF outcome[r] = "promoted" /\ wins[prom[r]] < 2
             THEN [wins EXCEPT ![prom[r]] = @ + 1]
             ELSE wins
  /\ Leave(r)
  /\ UNCHANGED <<entries, log, active>>

-----------------------------------------------------------------------------
(* The canary loop, drive_canary.                                          *)

\* One measurement is taken and given to the controller.
Observe(r) ==
  LET c == ctrl[r] IN
  /\ pc[r] = "observe"
  /\ samples[r] < MaxSamples
  /\ samples' = [samples EXCEPT ![r] = @ + 1]
  /\ \E passes \in BOOLEAN :
       /\ decision' = [decision EXCEPT ![r] = ObserveDecision(c, passes)]
       /\ ctrl' = [ctrl EXCEPT ![r] = Observed(c, passes)]
       /\ walk' = IF c.state = "Serving" /\ passes
                     /\ walk[CandidateOf[prom[r]]][c.stage] < ObservationsPerStage
                  THEN [walk EXCEPT ![CandidateOf[prom[r]]][c.stage] = @ + 1]
                  ELSE walk
  /\ pc' = [pc EXCEPT ![r] = "save"]
  /\ UNCHANGED <<prom, outcome, held, entries, ckpt, log, active, wins>>

\* max_samples observations were made: the loop ends undecided.
Exhausted(r) ==
  /\ pc[r] = "observe"
  /\ samples[r] >= MaxSamples
  /\ pc' = [pc EXCEPT ![r] = "return"]
  /\ UNCHANGED <<prom, ctrl, decision, samples, outcome, held, entries, ckpt, log,
                 active, walk, wins>>

\* Where the loop goes with the decision of the observation just saved.
AfterSave(r) ==
  CASE decision[r] = "RollBack"          -> "restore"
    [] decision[r] = "ReadyForPromotion" -> "promote"
    [] OTHER                             -> "observe"

\* The controller is snapshotted, atomically; an error is ignored.
Save(r) ==
  /\ pc[r] = "save"
  /\ \/ ckpt' = [ckpt EXCEPT ![PathOf[prom[r]]] = ctrl[r]]
     \/ "saveFails" \in Faults /\ UNCHANGED ckpt
  /\ pc' = [pc EXCEPT ![r] = AfterSave(r)]
  /\ decision' = [decision EXCEPT ![r] = "Hold"]
  /\ UNCHANGED <<prom, ctrl, samples, outcome, held, entries, log, active, walk,
                 wins>>

\* verified_rollback, phase 1: the adapter restores the target, refuses to,
\* or accepts without the traffic having moved.
Restore(r) ==
  LET t == Target(prom[r]) IN
  /\ pc[r] = "restore"
  /\ \/ active' = [active EXCEPT ![t] = t] /\ pc' = [pc EXCEPT ![r] = "confirm"]
     \/ /\ "restoreIgnored" \in Faults
        /\ UNCHANGED active
        /\ pc' = [pc EXCEPT ![r] = "confirm"]
     \/ /\ "restoreRefused" \in Faults
        /\ UNCHANGED active
        /\ pc' = [pc EXCEPT ![r] = "return"]
  /\ UNCHANGED <<prom, ctrl, decision, samples, outcome, held, entries, ckpt, log,
                 walk, wins>>

\* A restore counts when the target is active and reports itself healthy.
Confirms(r, healthy) == active[Target(prom[r])] = Target(prom[r]) /\ healthy

\* verified_rollback, phases 2 and 3: the confirmation and the receipt.
Confirm(r) ==
  /\ pc[r] = "confirm"
  /\ \E healthy \in (IF "unhealthy" \in Faults THEN BOOLEAN ELSE {TRUE}) :
       outcome' = [outcome EXCEPT ![r] = IF Confirms(r, healthy) THEN "rolledBack" ELSE @]
  /\ pc' = [pc EXCEPT ![r] = "return"]
  /\ UNCHANGED <<prom, ctrl, decision, samples, held, entries, ckpt, log, active,
                 walk, wins>>

\* The nonce is in the ledger, as far as the handle's memory goes.
Already(r) == prom[r] \in Known(entries[HandleOf[r]])

\* The controller consumes the artifact, or refuses it and the loop ends.
Promote(r) ==
  /\ pc[r] = "promote"
  /\ \E now \in Times :
       IF ~ Already(r) /\ MayPromote(ctrl[r], Artifact(prom[r]), now)
       THEN /\ ctrl' = [ctrl EXCEPT ![r] = AfterPromote(@, Artifact(prom[r]))]
            /\ outcome' = [outcome EXCEPT ![r] = "promoted"]
            /\ pc' = [pc EXCEPT ![r] = "record"]
       ELSE /\ pc' = [pc EXCEPT ![r] = "return"]
            /\ UNCHANGED <<ctrl, outcome>>
  /\ UNCHANGED <<prom, decision, samples, held, entries, ckpt, log, active, walk,
                 wins>>

\* record_promotion: the line is written and synced before memory advances.
\* An error, before or after the line reached the file, is ignored.
Record(r) ==
  LET h == HandleOf[r]
      written == Append(log, Line(prom[r], entries[h]))
  IN
  /\ pc[r] = "record"
  /\ \/ log' = written /\ entries' = [entries EXCEPT ![h] = Append(@, prom[r])]
     \/ "recordFails" \in Faults /\ log' \in {log, written} /\ UNCHANGED entries
  /\ pc' = [pc EXCEPT ![r] = "return"]
  /\ UNCHANGED <<prom, ctrl, decision, samples, outcome, held, ckpt, active, walk,
                 wins>>

-----------------------------------------------------------------------------
(* The system.                                                             *)

\* One step of the call a caller is in.
Step(r) ==
  \/ Load(r) \/ Observe(r) \/ Exhausted(r) \/ Save(r) \/ Restore(r)
  \/ Confirm(r) \/ Promote(r) \/ Record(r) \/ Return(r)

Next ==
  \/ \E h \in Handles : Open(h)
  \/ \E p \in Promotions : Deploy(p)
  \/ \E r \in Rollouts, p \in Promotions : Acquire(r, p)
  \/ \E r \in Rollouts : Step(r) \/ Panic(r)
  \/ Crash

Spec == Init /\ [][Next]_vars

\* A call is a plain loop over code that returns: it keeps taking steps.
CallsAdvance == \A r \in Rollouts : WF_vars(Step(r))

LiveSpec == Spec /\ CallsAdvance

\* Callers also keep opening the ledger and asking for the rollouts.
CallersRetry ==
  /\ \A h \in Handles : WF_vars(entries[h] = None /\ Open(h))
  /\ \A p \in Promotions : SF_vars(\E r \in Rollouts : Acquire(r, p))

RetrySpec == LiveSpec /\ CallersRetry

-----------------------------------------------------------------------------
(* Properties.                                                             *)

\* Every variable stays in its range; while a call runs it has a controller
\* from the load on.
TypeOK ==
  /\ pc \in [Rollouts -> Where]
  /\ prom \in [Rollouts -> Promotions \cup {None}]
  /\ ctrl \in [Rollouts -> Controllers \cup {None}]
  /\ decision \in [Rollouts -> Decision]
  /\ samples \in [Rollouts -> 0 .. MaxSamples]
  /\ outcome \in [Rollouts -> {"none", "promoted", "rolledBack"}]
  /\ held \subseteq Targets
  /\ entries \in [Handles -> Seq(Promotions) \cup {None}]
  /\ ckpt \in [Paths -> Controllers \cup {None}]
  /\ log \in Seq(Lines(Promotions))
  /\ active \in [Targets -> Targets \cup Candidates]
  /\ walk \in [Candidates -> [Stage -> 0 .. ObservationsPerStage]]
  /\ wins \in [Promotions -> 0 .. 2]

\* Two calls in flight never supersede the same target, whatever panics and
\* crashes came before: the promise of PromotionLockRegistry.
OneRolloutPerTarget ==
  \A r, q \in Rollouts :
    InFlight(r) /\ InFlight(q) /\ Target(prom[r]) = Target(prom[q]) => r = q

\* Every stage of the candidate's own rollout has its healthy observations.
WholeWalk(c) == \A s \in Stage : walk[c][s] = ObservationsPerStage

\* A controller is promoted only when the candidate of its artifact has
\* itself been through all stages since its last finished rollout, however
\* many calls, panics, crashes and lost checkpoints the walk was cut by.
PromotedAfterWholeWalk ==
  [][\A r \in Rollouts :
       outcome[r] # "promoted" /\ outcome'[r] = "promoted"
         => WholeWalk(CandidateOf[prom[r]])]_vars

\* No artifact is reported promoted twice, through crashes at any point.
PromotedOnce == \A p \in Promotions : wins[p] < 2

\* A target is never locked for ever: calls that end, panic or crash unlock.
LockReleased == \A t \in Targets : t \in held ~> t \notin held

\* The checkpoint file remembers that its candidate failed a hard gate.
RolledBackIn(f) == ckpt[f] # None /\ ckpt[f].state = "RolledBack"

\* A rollback that was snapshotted is never taken back: through every crash,
\* panic, failing save and later call the checkpoint goes on saying so, until
\* the one call that saw the parent back in traffic clears it.  No call turns
\* it into a promotion, and an adapter that refuses or ignores the restore
\* does not get it cleared.
RollbackIsKept ==
  [][\A f \in Paths :
       RolledBackIn(f) /\ ckpt'[f] # ckpt[f]
         => \E r \in Rollouts :
              /\ InFlight(r) /\ PathOf[prom[r]] = f
              /\ outcome[r] = "rolledBack"
              /\ active[Target(prom[r])] = Target(prom[r])]_vars

\* A rollback that was snapshotted is carried out: the parent gets the traffic
\* back.  That a candidate is terminal only once the restore is confirmed is
\* what the deployment crate promises; the code keeps it neither through a
\* crash after the snapshot nor after a restore that failed, since the calls
\* that follow hold and never command it again.
RolledBackIsRestored ==
  \A p \in Promotions :
    RolledBackIn(PathOf[p]) ~> active[Target(p)] = Target(p)

\* The log and the walks are a StagedPromotion: however calls, crashes and
\* restarts cut it, the durable history is that of single-use commits.
Staged == INSTANCE StagedPromotion WITH committed <- Nonces(log)
RefinesStagedPromotion == Staged!Spec

=============================================================================
