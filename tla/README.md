# A formal model of Autogenous

This directory specifies parts of Autogenous in TLA+, checks them with TLC on
small instances and proves theorems about them with TLAPS. Paths below are
relative to the repository (`crates/…`, `packages/…`).

Autogenous is two programs that share ideas and no code. The Rust workspace
(`crates/`) is an evolutionary control plane: typed mutations of a genome are
admitted, judged, rolled out in a staged canary under a lock, and recorded in a
signed ledger, or rolled back. The TypeScript package `packages/radio-moe` is a
peer-to-peer mixture of agents: peers route prompts to experts, signed frames
are folded into a replicated claim state, a mixer turns it into output that
shadows replicate, and gates decide about actions and durable writes.

## Inventory

### The promotion path (Rust)

| Component | State it keeps | Operations | Where it is hard |
|---|---|---|---|
| `runtime` | none of its own; drives one call | `run_canary_full` and the entry points with fewer guards; loop of observe, snapshot, rollback or promote and record | every file error is dropped; a crash between any two steps; a panic of caller code |
| `promotion` | `CanaryController`: stage, healthy count, state, consumed nonces; serializable | `observe`, `promote` | resumed controllers; calls in any order |
| `deployment` | `PromotionLockRegistry`: locked targets; the adapter's active artifact | `acquire`, `PromotionGuard::drop`, `verified_rollback` | threads; unwinding; an adapter that lies |
| `ledger`, `witness` | the JSONL file; a handle's entries and nonce index | `open`, `record_promotion`, `contains_nonce`, `verify_chain` | three file operations per record; two handles on a file |
| `envelope` | none | `verify_promotion`, `verify_receipt`, regression corpora | many checks that must not hide one another |
| `agl-types`, `verifier`, `constitution` | none | admission of a mutation, verdicts, checks of a constitutional change | total, pure; bounds and quorums |
| `lineage` | append-only node list, archive | `append`, `ancestry`, `verify`, `best` | graphs that come from deserialization |
| `antibody`, `midstream-adapter` | rolling window, edge state per detector | `observe_chunk`, SSE parsing | window boundaries, edge triggering |
| `evaluator`, `generator` | none | replay over corpora, synthesis of candidates | floating point only |
| `service` | none: the controller travels in requests | HTTP routes over the crates | a client may present an old controller |

They meet in `run_canary_full`: the caller verifies a bundle (`envelope`), deploys
the candidate, and calls the runtime, which takes the lock of the parent
(`deployment`), resumes or makes the controller (`promotion`), feeds it
measurements, saves it after each, and ends in a verified rollback, in a
promotion recorded in the ledger, or undecided.

Correct means: one rollout per target at a time; nothing promoted without every
stage of its own walk; no artifact promoted twice, whatever crashes; a reported
rollback is a real one; a rollback that was decided and saved is never taken back (that
it is carried out, the code does not ensure); what the ledger acknowledged stays.

### The mixture of agents (TypeScript)

| Component | State it keeps | Operations | Where it is hard |
|---|---|---|---|
| `failover` | `DeterministicShadow`: cursor, active mixer and epoch, used events and grants | `signOutputEnvelope`, `createTakeoverGrant`, `replicate`, `takeover` | messages lost, late, repeated; a lagging shadow at a takeover; a mixer that gets a request back |
| `mixture` | `MixtureState`: accepted and buffered frames, next steps, step memory, equivocators | `consume`, `snapshot`, selection of contributions | order of arrival; equivocation; bounds |
| `action-gate`, `lineage-independence`, `lineage-decision` | frozen policy | `evaluate`, `independentSupportSet`, effective support | an await between check and decision; exhaustive search with a cut |
| `outcome-verifier`, `reputation` | none | `admitDurableWrite`, `reputation` | order and repetition of verdicts and records |
| `mesh`, `gate`, `merge`, `capability`, `expert`, `harness-experts` | collectors per chunk, capability view | `route`, frame collection, merge | late and unasked frames |
| `transport`, `tcp-transport`, `tls-transport` | admitted peers, replay guard, sockets | `seal`, `send`, `check` | replay window, sequence numbers, reconnects |
| `agent-frame`, `batch-signing` | frames not yet signed, a chain per batch | `push`, `flush`, sign and verify | a rest that is not flushed; a batch that is lost or repeated |
| `mesh-evolve`, `rvf-trajectory`, `receipt-export`, `examples/evolve-run` | champion, history and signed ledger of a turn; two files between turns | `evaluate`, `promoteAuthorized`, `evolve`, `exportRun`, `verifyReceipt` | crashes between two files; margins over many turns; two rules of promotion |
| `evidence-feeds`, `disclosure`, `observation` | none | admission, tiers, disclosure | a reading that comes back as its own evidence |
| `cognitum-spaces` | one request: its timer and its buffer | reads of two families, mapping to observations | answers that are late, cut in chunks, incomplete |
| `http-experts`, `streaming-experts`, `examples/mesh-tcp` | a backend's stream, a request's sockets and retries | stream frames of a backend, dispatch, fold | resets, retries, a node that listens again while it is addressed |
| `cognitum-identity`, `relevance` | none | one exchange of a token; a score | none |

Correct means: replicas that took the same frames hold the same state, and a
forking agent is out everywhere; correlated evidence counts once; shadows of one
epoch serve one history, no output crosses a takeover in either direction, and a
text-primary answer keeps its voice; gates admit only what independent parties
support, whatever is repeated or reordered; a request that is served ends, and
what was folded of it is in order; a route merges only what it asked for, from
peers it trusts; an evolved champion passes every gate and its receipts can be
audited; what a service remembers never counts as what a sensor saw.

`PROJECT.json` lists every component with its status and the hazards, each at
the line where it bites and with the properties that would catch it.

## Modules

| Module | Models |
|---|---|
| `Canary` | `crates/promotion`: the controller as a value, `observe` and `promote` as operators |
| `LedgerChain` | lines, links and what `open` accepts, shared by the next two |
| `GuardedRollout` | `run_canary_full`: callers, locks, checkpoints, adapter, ledger, crashes, panics, file errors |
| `StagedPromotion` | the abstract promise of a rollout; `GuardedRollout` refines it |
| `PromotionLedger` | `crates/ledger` at the level of single file operations |
| `Failover` | `failover.ts` with the authority and the network around it |
| `Mixture` | `mixture.ts`: `consume`, quarantine, selection |
| `LineageIndependence` | `lineage-independence.ts`: independence of a pair, effective support |
| `ActionGate` | `action-gate.ts`: which supports throw, the branch and bound, the decision |
| `OutcomeGate` | `outcome-verifier.ts`, `reputation.ts` and the completion certificate |
| `Governance` | the way of one action through these gates, over time and around the await |
| `TcpTransport` | replay guard, checks of an envelope and of a batch, batch signing, the backends' parsers |
| `MeshTcp` | `examples/mesh-tcp.ts`: an origin and its experts as processes over sockets |
| `PeerMesh` | `mesh.ts`, `gate.ts`, `merge.ts`, `expert.ts` over the in-memory `transport.ts` |
| `MeshReceipts` | `evaluate` and the gates of `mesh-evolve.ts`, the ledger's chain, receipts and their verification |
| `MeshEvolve` | the evolution loop and `examples/evolve-run.ts`, turn after turn, with its files |
| `Observation` | `observation.ts`, `disclosure.ts`: admission, tiers, ceilings |
| `CognitumSpaces` | `cognitum-spaces.ts` and the round trip of an observation through the service |
| `MC*` | instances for TLC |
| `GuardedRollout_proofs`, `PromotionLedger_proofs`, `Failover_proofs`, `Mixture_proofs`, `Governance_proofs`, `MeshTcp_proofs`, `Mesh_proofs` (of `PeerMesh` and `MeshEvolve`), `CognitumSpaces_proofs` | the theorems |

Paths without a directory are in `packages/radio-moe/src`. Definitions named for a
defect (`CutTies`, `RememberNothing`, …) stand before the one they would break;
nothing uses them, they record which slip a property is there to catch.

Where a theorem is about a list, a filter or a sort, the definitions say what the
list is by positions and counts (the k-th line of a file is the one with k lines up
to it) and not with `SelectSeq`, a fold or `SetToSortSeq`: `LinesOf`, `StepsOf`,
`Accepted`, `Best`, `Routed`, `NthPromotion`. Loops that carry a result are
recursive functions (`Selected`, `EffectiveSupport`, `IndependentSupportSet`). A list of supports
or verdicts may have gaps: it is a function of numbers that stand for its order. The
specification of `PeerMesh` has names that begin with `Peers` (`PeersSpec`, `PeersTypeOK`), so
that one module can hold its proofs and those of `MeshEvolve`.

**GuardedRollout.** One step is one action of `drive_canary` or of the functions
around it: `Acquire` (lock), `Load` (checkpoint or fresh), `Observe`, `Save`,
`Restore` and `Confirm` (the phases of `verified_rollback`), `Promote`, `Record`,
`Return` (clear the checkpoint, drop the guard). `pc[r]` says where caller `r` is.
`ctrl`, `decision`, `samples` and `outcome` are the call's locals; `held` is the
registry; `entries` the memory of a ledger handle; `ckpt` and `log` are files,
`active` the adapter's answer to "who has the traffic". `Crash` empties what is in
memory. A file error is a disjunct of the step that meets it, because the code
drops it there (`let _ =`). The auxiliary `walk` counts healthy measurements per
candidate and stage, `wins` what was reported promoted; the code reads neither.

**PromotionLedger.** The file is a sequence of whole lines, newlines and torn
lines; `synced` is the part a crash cannot take. `Begin`, `WriteLine`,
`WriteNewline`, `Sync` are the statements of `record_promotion`; `Crash` keeps any
prefix that holds the synced part, with or without a piece of the next line.
`GuardedRollout` uses the coarser view, one action per record, because its
properties do not depend on the pieces.

**Failover.** `domain`, `mixer`, `epoch`, `chain` and `usedGrants` are the fields of
a shadow; `envelopes` and `grants` are everything ever signed, from which the
network delivers anything, any number of times or never. A message that is out of
its validity window is refused without effect, which is the same as not arriving.
The hash of the last envelope stands for the chain before it, so the model holds
the chain. A mixer in `Forking` may sign two outputs at one position. The
authority is not in the repository; it is assumed to sign at most one grant per
epoch of a domain (`SignGrant`), and to read the cursor of some shadow. Every shadow
is assumed to be constructed for the first epoch (`ShadowOptions.mixerEpoch`, `failover.ts:154`,
left at its default 0): one that joins a later epoch starts without the history of the earlier ones.

**Mixture.** One step is one `consume` at one replica; its outcomes are `Ignore`,
`Equivocation`, `Refuse`, `Buffer`, `Accept`. `saw` and `refused` are auxiliary.
Two branches of the code that can never be taken (`mixture.ts:253`, `258`, both
after the step memory has answered) and `#seen`, which is written and never read,
are left out. Scores are their order; `Best` is the k-th frame in the order of `compareForTopK`, and
`Selected` the greedy loop over them. Frames that fail authentication have no
effect and are left out.

**Governance.** The gates keep nothing between calls, so the state is what a caller
has collected: `proposed`, `attestations`, `inbox`, `records`. `Evaluate` is
`ActionGate.evaluate` up to its await (supports checked at the `now` it was given,
the selection made), `Answer` what follows the admissibility callback, with time
passing in between. `Mint` mints on all verdicts of the inbox or on any of them, `Replay`
passes a record on again. The branch and bound is `visit` of `IndependentSupportSet`, one step of
the recursion per support; effective support is the code's greedy loop. The independence of a pair is in 1/1200, so that the default
weights are whole numbers; risk and calibration are in hundredths. Quality
averages and `selectionWeight` are left out.

**MeshTcp.** `phase`, `port` and `inbound` are an expert's process: it listens before
it knows the origin (`SeeOrigin`), closes that node and listens again (`Relisten`),
and `HandleOpen` is the handler of `request.open` at whichever node the connection
reached. `Yield` is a frame of the backend through `BatchSigner.push`, `EndOfStream`
the flush and the final batch, `Send` one envelope on the socket. `wire[x]` is the
sockets it opened, oldest first; `Reset` loses what is unread, `Deliver` lets the
origin read any socket in its order. `heard` is the origin's replay guard, `folded`
and `done` what it has taken. Hash chains are the sequences they hash. `FramesOf` is the
parser of the backend the program picks: OpenRouter's stream of events, or `fakeParser` for the
child process it starts without a key; the other parsers of the package are not used there.

**PeerMesh.** The fabric delivers at once, so `Host` (with its adverts) and `Route`
(with dispatches, experts' runs, the collector and the merge) are one step each.
`adverts[p]` is the `Map` of `p`'s gate in its order; `active` holds the collectors
a failed route leaves behind. An expert is one of a few offers that give its kind,
vocabulary, length and score. A `LogitExpert` whose bias has another length than its vocabulary
throws (`expert.ts:38-40`); every offer of the model keeps to its length, and that exception,
which would leave a collector behind like the two that are modelled, is left out.

**MeshEvolve.** A turn is `StartTurn` (read `champion.json`), `Try` (a candidate),
`Generation` (rank, gates, promote or not, a ledger record), `Evolved`, `Export`
(the receipts), `WriteChampion` and `WriteLedger`; `Crash` ends it anywhere and may
tear the file that is being written. Weights and thresholds are in 1/200,
separations in 1/800, so that floors and margins are whole. A hash is the value
it hashes; a signature names its key and what it covers.

**CognitumSpaces.** `Sense` is a reading at the edge, `Bridge` its way to the service
(which may lose a field), `DeliverEnvelope` the fabric. A read of the service is
`ListSpacesResult` or `ListSpatial`, `Headers`, a body and `Return`. The body is a stream, whose
chunks are measured as they come (`ReadChunk`), or one text, measured when it is whole
(`ReadText`); an answer that is not ok has its body read as a text before the error is thrown
(`ErrorRead`). `Abort` is the timer, which only runs until the headers are there, as in the
code; `Disconnect` is the network at any point. `world` is what
was admitted, `acted` the workflows an observation made eligible.

## Runs

| Run | Shows |
|---|---|
| `SharedLedger` | One caller, one ledger handle, one candidate with two artifacts, crashes, panics, failing saves and clears, an adapter that refuses, ignores or is unhealthy. Nothing is promoted twice (`PromotedOnce`); promotion follows a whole walk (`PromotedAfterWholeWalk`); a rollback the checkpoint remembers stays remembered until the call that saw the parent active clears it (`RollbackIsKept`); it all refines `StagedPromotion` |
| `RivalCallers` | Two callers, two candidates over one parent, a handle each, panics, unreadable checkpoints, failing records: one rollout at a time (`OneRolloutPerTarget`), and a held target is released (`LockReleased`) |
| `LedgerDurability` | One handle, three records, every failure of a write or sync and crashes of the machine: what was acknowledged is on disk for good (`AckedIsDurable`) and is not acknowledged again, whatever open reads back (`AckedOnce`) |
| `Takeover` | Two shadows of one or two requests, two mixers of which one forks, two takeovers so that the first mixer gets the request back: the five properties of `Failover` |
| `MixtureFold` | Nine frames of two agents that equivocate, in every order with repetition, bounds tight enough to refuse: the state is a function of the frames taken (`StateIsFold`); selection is independent and complete (`IndependentSelection`) |
| `Governance` | Supports of four agents, attestations and verdicts in every order and repeated: an action executes on an independent quorum (`ExecutesOnQuorum`), the branch and bound finds the best set (`SelectionIsBest`), a certificate is not spoilt by signatures added at its end (`CertGrowsSafely`), the order of verdicts decides nothing (`VerdictOrderIrrelevant`), repetition earns no reputation (`ReputationIsEarned`) |
| `MeshTcp` | An origin and two experts, a retried dispatch, a node that listens again, one fault of six kinds: what is folded is in order and in whole batches, and a batch still on its way when the end is heard is refused (`FoldedInOrder`), only a fault explains a gap (`GapsComeFromFaults`), a request is served once (`ServedOnce`) and, once served, done (`ServedIsDone`) |
| `PeerMesh` | Two peers that stay and a guest that comes, goes, is revoked and admitted, two experts hosted anew: what is merged is trusted (`MergedIsTrusted`), asked for and counted once (`EachOnce`), and peers that stay route alike (`CoreAgrees`) |
| `MeshEvolve` | Two turns of two generations, crashes anywhere: the champion passes every gate and gained every margin (`ChampionIsLawful`), receipts chain from start to champion (`ReceiptsChain`), the ledger of the run, as `evolveMesh` returns it, and its receipts verify (`RunIsAuditable`; the file `ledger.json` holds neither the frames nor the key they are verified with) |
| `Spaces` | A reading's round trip, with slow, cut, incomplete and defective answers: it is admitted only within its own window and makes no workflow eligible (`MemoryIsNotEvidence`), and its label holds to every disclosure (`LabelsHold`) |

Every run but `RivalCallers` and `LedgerDurability` has `TypeOK` of its module too (`PeersTypeOK` in `PeerMesh`).

Two runs show where the code does not do what a text of the repository says; TLC's
counterexample is the run's result:

| Run | Shows |
|---|---|
| `RestoreLostInCrash` | After a crash between the snapshot of a rolled back controller and the restore, resumed calls only hold: the regressed candidate keeps the traffic, though callers retry for ever (`RolledBackIsRestored`) |
| `MixtureOrder` | Two replicas that saw the same frames differ for good, because a full buffer or the capacity refused one of them at one replica |

Behaviours the models reach, and that no run claims away because the source
promises nothing of them or only one text does:

- the error of `record_promotion` is dropped, so a call can report a promotion no
  ledger holds (`Record`, fault `recordFails`);
- two handles on one ledger file do not see each other's records
  (`HandleOf`; `SharedLedger` passes one handle on);
- a crash in the append leaves a line that `open` refuses (`PromotionLedger`'s `Crash`);
- a call that ends on a restore that was refused or not carried out returns without a
  receipt, and the calls after it resume a terminal controller and only hold, as after the
  crash of `RestoreLostInCrash`: `RollbackIsKept` says that the rollback stays remembered,
  and nothing says that it is carried out;
- a checkpoint that cannot be read is a fresh start, also where it said rolled back
  (`Load`, fault `unreadable`);
- after a newline or a sync that failed, a retry may write the same nonce again, and `open`
  then refuses the file (`PromotionLedger`; `AckedOnce` is about acknowledgements);
- `docs/COGNITUM-SPACES.md:72` says the client bounds response time and size. The timer is
  cleared at the headers, and a body may take any time. The size of a stream is bounded and so
  is what a read returns (`TypeOK`), but the body of an error is read whole before the error is
  thrown (`cognitum-spaces.ts:233`, `ReadText` and `ErrorRead`), and so is a body without a
  stream before its size is looked at (`329`, `ReadText`, `Return`): in the model only
  `MaxBody`, a bound of the instance, ends these two;
- frames of two vocabularies can meet in one merge after an expert is hosted anew
  (`PeerMesh`'s `Route`; they are mixed when their lengths agree);
- a route that fails leaves its collector behind (`active` in `PeerMesh`);
- a torn `champion.json` stops every later turn (`MeshEvolve`'s `Crash`, `StartTurn`).

### Bounds

- `ObservationsPerStage` is 2 in `SharedLedger`, so that a stage can be cut in
  the middle and an off-by-one shows, and 1 elsewhere. The four stages are the
  code's.
- `MaxSamples` is the code's `max_samples`. Five of the eight observations a
  walk needs (`SharedLedger`) force every promotion through at least two calls, that is,
  through a checkpoint; 2 of 4 (`RivalCallers`) do the same with two callers.
- `MaxRecords` and `MaxPieces` stop the logs after a few records; each property
  about a log is about two records, or one and a crash.
- `wins` counts to 2, enough to see a second promotion.
- `MaxOutputs` and `MaxTakeovers` are the code's `MAX_OUTPUT_EVENTS` and
  `MAX_TAKEOVERS` made small. Two takeovers are what a request needs to
  return to a mixer that had it; two outputs leave one for after a takeover.
- `MixtureFold`: `MaxBuffered` 2 and `MaxAccepted` 5 lie below what the nine
  frames would need, so both refusals happen; agent `a` has four steps, so that
  a gap of two frames is drained at once.
- `Governance`: the list of supports may pass `MaxSupports` by one, so that the
  bound is met; the supports are one of each kind the gate tells apart (one
  operator twice, one agent twice, risky, without lineage, forged, of another
  action), and three moments are before, at and after an expiry.
- `MeshTcp`: up to four frames in batches of two give an empty stream, a half
  batch, a full one and two; one expert is a child process and one asks OpenRouter,
  the two backends the program has; a window of two event ids forgets one within a
  stream; one retry is one repeated dispatch; one fault at a time, because each
  property names the expert that met it.
- `PeerMesh`: three calls of `host` are two experts and one of them hosted anew
  somewhere else; three offers differ in kind, vocabulary and length.
- `MeshEvolve`: jitters that gain the margin, that gain less and that lose, two
  generations and two turns, so that a champion is loaded, promoted and exported.
- `Spaces`: one reading (the properties relate a reading to what comes back of
  it), four moments, a window of up to two of them; `MaxBytes` is 2 and `MaxBody` 3,
  so that a body that nobody measures passes the bound by one.
- `Takeover`, `Governance`, `MeshEvolve` and `MeshTcp` turn the deadlock check off:
  when outputs, verdicts, turns or frames are used up, a request or a run has ended.
- Symmetry is used in `Takeover`, `LedgerDurability` and `PeerMesh`, over values no
  definition tells apart; none of these checks liveness.

### Fairness

`CallsAdvance`, weak fairness of every step of a call, is what a loop of calls that
return gives: nothing in `drive_canary` waits for another caller (the lock is
tried, never waited for). It does not say that measurements are good or bad, and
it does not keep a process from crashing. `RivalCallers` checks its liveness under
it, without crashes. `CallersRetry`, used only by `RestoreLostInCrash`, adds that an
operator opens the ledger again and repeats each rollout; it is the strongest
assumption under which a lost restore could still be made good, and it is not.

`MeshTcp` assumes that processes go on (`OriginStep`, `SeeOrigin`, `Relisten`,
`HandleOpen`, `Send`), that what is on a socket is read (`Deliver`), and that a
backend's stream ends (`EndOfStream`: a child process exits, a response body is
finite). The deadline, resets, delays and failures are not fair: they may happen
or not. No liveness is claimed of shadows, mixture, mesh or service: nothing in
the source sends a lost message again.

## Proofs

`tlapm` on the eight `*_proofs` modules checks everything below, for every value of
the constants that satisfies the named assumptions. Each theorem is `Spec => []P`
(or the refinement), from an inductive invariant that implies `P`, a lemma that the
initial states satisfy it, and one step of the proof for each action.

**Guarded rollout** (from `RolloutAssumption`, `ObservationsPerStageAssumption`).
`OneRolloutPerTarget` is not inductive: it needs that a call in flight holds its
target (`CallOK`) and that a handle is lent to one call (`HandleAlone`). `IInv` is
the conjunction of `TypeOK`, these two and the property; `TypeStep` and `CallStep`
show that each action keeps it, `Invariance` is `Spec => []IInv`, and
`TypeCorrectness` and `Fencing` follow. For `PromotedAfterWholeWalk` the invariant
`WalkInv` adds that every controller in memory (`CtrlBacked`) and in a file
(`CkptBacked`) claims no more healthy observations than the candidate's walk
really had. This needs `OwnCheckpoints`: two candidates do not share a checkpoint
file. Without it the theorem is false, since the runtime does not compare a
loaded controller's candidate with the call's. `WholeWalkBeforePromotion` states
it for any number of callers and any faults. `RollbackNeverTakenBack` (`RollbackIsKept`, an
action property) needs `OwnCheckpoints` too, and that checkpoints can be read: `RollbackInv` says
that a call which read a rolled back checkpoint carries exactly that controller, so that what it
saves is what was there, and that only a call which saw the parent active reports a rollback,
which is what clears the file.

`NoSecondPromotion` (`PromotedOnce`) holds under `SharedHandle` and `RecordsSucceed`:
callers are lent one ledger handle, and what they record is recorded. Both are what
`SharedLedger` instantiates and both are needed. Two handles do not see each other's
records, and a record that fails is dropped, so that the next call may promote again.
Crashes, panics and lost checkpoints are all allowed. `OnceInv` relates three places
where a promotion is known (`LedgerInv`): the handle remembers what the file holds, what
was reported promoted is in the file, and what a call is about to record is not. `Refinement` adds `OwnCheckpoints` and shows, action by action
(`StagedStep`), that a step is a measurement, a restart or a commit of
`StagedPromotion`, or nothing to it; `RecordWhole` carries the whole walk from
`Promote` to the `Record` where the abstract commit happens.

**Promotion ledger** (from `LedgerAssumption`). `AckedIsDurable` alone says nothing of
a call that has written and not yet synced. `LedgerInv` adds that such a call has its
line in the file (`LineWritten`), so the sync that precedes the acknowledgement
moves `synced` past it. `PrefixKeepsNonces` then carries what is acknowledged over every
later write and every crash, which may cut the file anywhere behind `synced` and tear
what it leaves. `TypeCorrectness` needs what `open` reads back to be a sequence of
nonces: `Ranks` and `Selected` say that the lines of a file, taken in their order, are a
sequence of lines. `ReplaysAreRefused` (`AckedOnce`) is for one handle: whatever is open
knows everything that was acknowledged (`Remembers`), because `open` either reads the
whole file or refuses it, and a call is about a nonce its handle did not know
(`CallsAreNew`).

**Failover** (from `DomainAssumption`, `BoundAssumption`). `TypeCorrectness` includes that no
shadow passes its bounds of outputs and takeovers. `OneVoice` follows from
the guard on text-primary domains by itself. The others need `HistoryInv`:
signed history, one grant per epoch of a domain, a grant's cursor holds earlier
epochs only and its epoch began with exactly that cursor (`GrantsLookBack`,
`EpochsBegan`), the outputs of an epoch are those of the mixer its grant names
(`OutputsOwned`), and a mixer that does not fork signs one output per position
(`OneOutputPerPosition`). From it: `SealedHistory`, `Agreement`, `NoSplicing`,
and `Finality`. The key lemma is `SameEpochSameStart`: two shadows of one epoch
began it from the same chain, because the grant is one and its cursor is exact.

**Mixture** (from the assumptions of `Mixture`). The invariant ties what a replica holds
to the set of frames it took, those it was given but for the refused (`Taken`): who is out
and what is remembered are functions of that set (`Memory`), what is accepted has no gap
and what waits is behind one (`Progress`). `TypeCorrectness` and `FoldedFromFrames` (`StateIsFold`)
follow, and `ReplicasConverge`: two replicas that took the same frames are in the same state,
which is what is left of the guide's sentence that `MixtureOrder` refutes.
`SelectsIndependently` (`IndependentSelection`) is about the greedy loop, for every finite set of
frames and every `TopK`. The loop is unrolled by an induction over 0 .. n that is made of sets
(`UpToN`: a set that has 0 and with every k below n also k + 1 has them all, because a
finite set of numbers without a gap is an interval), and its invariant (`Chosen`) says
that whoever was passed over has `TopK` better ones before it, or one it repeats.

**Governance** (from `PolicyAssumption`, `OutcomePolicyAssumption`, `RecordAssumption`: what the
constructors accept, and that the records in circulation have the code's fields). `IInv` is small:
what a call rests on is the assessment of what was proposed, at a time when it did not throw
(`CallOK`), and the records rest on verdicts of the inbox, which only grows (`RecordsOK`). The weight is
in the lemmas about the algorithms. All of them are inductions over 0 .. n made of sets
(`UpToN`, as for the mixture above).

- `SelectionOptimal` (`SelectionIsBest`): `VisitFindsBest` says, by induction on the supports left,
  that `visit` returns nothing worse than its `best` nor than any independent set it could
  still reach; the cut loses none, because what it cuts is strictly shorter. It
  rests on `BetterOrders`: `Better` is a strict order of the sets, by size, calibration and first
  differing agent, in which only sets of the same agents tie.
- `QuorumBehindExecution` (`ExecutesOnQuorum`): what was selected is an independent set of
  those that match (`SelectedAreBest`), and `SupportCounted` bounds the greedy sum by `Whole` for each
  model, since a second supporter of a model adds nothing, whatever the order.
- `TypeCorrectness` takes the bounds of the assessment from the same lemmas.
- `CertGrows` (`CertGrowsSafely`): the attestations that count stay those when a list grows at its
  end (`CertKept`), and no signer is among them twice (`CertSigners`).
- `OrderOfVerdicts` (`VerdictOrderIrrelevant`): `AdmissionBySet`. Without equivocation the last
  verdict of a verifier says what any of its verdicts says, so who affirms and who refutes, and the
  effective support of the affirmers, follow from the set of verdicts.
- `CreditIsEarned` (`ReputationIsEarned`): a valid record needs `MinAffirmations` verifiers among
  verdicts of the inbox, and outcomes are counted, not records.

**Mesh over TCP** (from `MeshAssumption`: the experts are distinct, and the code's bounds).
The invariants are stacked. `ServeInv` says that an expert that serves has the sequence number
of its request as the last it heard of the origin (`ServedIsRemembered`). The window of event
ids does not help here, since it may have forgotten the request; the sequence numbers do,
for any `ReplayWindow`, and `RequestServedOnce` follows. `TransportInv` adds that
everything on a wire or in an outbox is a batch as the signer cuts them (`Sent`, `SealedAs`),
that the counts of a stream agree (`Counting`), that the requests that pile up at an expert are the
attempts of its dispatch (`OriginTyped`), and that the origin heard no number that was not
sealed (`HeardInv`): `TypeCorrectness`. `FoldInv` adds that what is folded of an expert belongs to
batches heard of, in order and whole, and that an end that was heard has every batch of its
stream behind it, so that what is still on its way is stale (`EndIsFinal`): `StreamsFoldInOrder` (`FoldedInOrder`). `GapInv` adds that an
expert that met no fault has one socket, on which lies exactly what the origin did not hear
yet (`Following`): `NoFrameIsLost` (`GapsComeFromFaults`). All four hold for any number of
experts, frames, retries, batch and window sizes, and faults.

**Peer mesh** (from the assumption of `PeerMesh`). `TypeInv` says that a gate lists an
expert once; `PeersTypeCorrectness`, `OnlyTrustedIsMerged` and `NobodyCountsTwice` need nothing more, since
a route does all it does in one step. `StayingPeersRouteAlike` (`CoreAgrees`) needs that the whole
gates of those that stay are equal (`GatesAgree`), not only what they route to.

**Mesh evolution** (from `EvolveAssumption`, `BoundAssumption`). The margins of
`ChampionIsLawful` are an argument over the run: each promotion adds one to the
promotions of the history (`PromotionsCount`) and raises the separation by at least
`PromotionMargin`, and a crash restarts from the file, whose champion passed the gates
when it was promoted. `EvolveInv` carries the types this needs; `MutantsWithinCeilings`
says that mutation never leaves the ceilings, whatever the jitters. `AuditInv` adds that each
promotion of the history passes when its candidate is judged against its baseline again
(`HistoryRederives`), which is what the exporter does. `RunAudited` (`RunIsAuditable`) follows
with `ExportedVerifies` and `PackagedVerifies`, and `ReceiptsLinked` (`ReceiptsChain`) with
`BaselinesChain`: the baseline of a promotion is the champion of the one before.

**Cognitum Spaces** (from `ObservationAssumption`, `SpacesAssumption`). Neither
property is inductive: what is admitted now was mapped from an item that was
bridged some steps ago. `SpacesInv` follows the reading on its way: whatever the
service keeps (`bridged`), has in an answer (`call`) or has returned (`returned`)
names a reading that was sensed, and has lost at most the fields it may lose.
`MappedIsFaithful` is the lemma that carries the weight: an observation mapped from
such an item is marked as derived, so that no confidence lifts it to the tier that
makes a workflow eligible, expires when the reading does, or at the epoch, which
lies outside every window (`Start > MaxTtl`), and has a label at least as strict. One lemma per action keeps the invariant
(`SenseKeeps`, `BridgeKeeps`, …); `RecollectionIsNotEvidence` and `LabelsAreKept` follow
for any number of readings, any windows, thresholds, skew and delays, and `ReadsAreBounded`
(`TypeOK`) says that a streamed body is never kept beyond `MaxBytes`, that no read returns more
or what the client refuses, and that the rest of the state is of its types. It does not bound the
body of an error nor one that is read as a text: nothing in the code does.

**Only model-checked:** all liveness (`LockReleased`, `RolledBackIsRestored`, `ServedIsDone`), and the
two runs that refute a text. Liveness under fairness is out of the prover's reach, and a
counterexample is TLC's to find. Every other property that a passing run checks, the refinement
included, is proved too; `PromotedAfterWholeWalk`, `RollbackIsKept`, `PromotedOnce`, `AckedOnce` and the refinement
under the conditions named above.

## Not modelled, and why

Signatures and hashes are abstract: only the holder of a key signs and equal
hashes mean equal contents. Wording, audit strings, latencies and service levels
are left out. The entry points of the runtime that leave a guard out
(`run_canary`, `run_canary_guarded`, …) are prefixes of the modelled path.
Floating-point code (softmax weights, relevance, fitness, mean quality, the winner
by lineage weight of `lineage-decision.ts`) is represented by the decision it leads
to, or left out.

- `envelope`, `agl-types`, `verifier`, `constitution`: pure passes of comparisons over
  one record. A model would list the same comparisons again, and could only agree
  with itself. Their result enters `GuardedRollout` as its artifacts.
- `service`: routes without state; what they do is `Canary`'s operators.
- `antibody`, `midstream-adapter`, the identity client, the bodies and headers of HTTP
  requests, framing of bytes on sockets, TLS: string processing, input and output.
- `evaluator`, `generator`: floating point and synthesis.
- `endlessMixLoop` of `streaming-experts.ts` is called by tests and benchmarks only.
- `index.ts`: re-exports.

## Plan

In this order; what a module composes with is in parentheses.

1. `Lineage`: append, ancestry and verify over a graph that was deserialized, and the
   edge triggering of `observe_chunk`.
2. Composition: `Mixture` frames as the checkpoint a `Failover` output carries.
