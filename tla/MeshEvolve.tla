----------------------------- MODULE MeshEvolve -----------------------------
(***************************************************************************)
(* The mesh that evolves its own parameters: evolveMesh in                 *)
(* src/packages/radio-moe/src/mesh-evolve.ts, run turn after turn by       *)
(* examples/evolve-run.ts, which keeps the champion and the ledger in two  *)
(* files.  Between turns a caller may export receipts of the run.          *)
(*                                                                         *)
(* The generator of random numbers is a choice among jitters.  A file that *)
(* a crash cut short is "torn"; no later turn can read it.                 *)
(***************************************************************************)
EXTENDS MeshReceipts

CONSTANTS
  Jitters,          \* what a weight is moved by, in 1/200
  QuorumJitters,    \* what the threshold is moved by; 0 is among them
  Population,       \* candidates of a generation
  Generations,      \* generations of a turn
  MaxTurns, MaxTime \* bounds of the instance

ASSUME EvolveAssumption ==
  /\ Jitters \subseteq -20 .. 20 /\ QuorumJitters \subseteq -30 .. 30 /\ 0 \in QuorumJitters
  /\ Population \in Nat \ {0} /\ Generations \in Nat /\ TtlMs \in Nat \ {0}

ASSUME BoundAssumption == MaxTurns \in Nat /\ MaxTime \in Nat

VARIABLES
  phase,        \* "down", "evolving", "evolved", "champion": that file is being written
  turn, now,
  start, champion,
  best,         \* the best candidate of the generation, NoCandidate before one
  tried,        \* candidates of the generation so far
  history,
  frames,       \* ledgerFrames
  receipts,
  championFile, ledgerFile

vars == <<phase, turn, now, start, champion, best, tried, history, frames, receipts,
          championFile, ledgerFile>>
files == <<championFile, ledgerFile>>
run == <<start, champion, best, tried, history, frames, receipts>>

NoCandidate == <<>>

(* A file holds one document, or is absent, or was cut short.              *)
Written(document) == [state |-> "written", document |-> document]
NoFile == [state |-> "absent", document |-> <<>>]
Torn == [state |-> "torn", document |-> <<>>]

Init ==
  /\ phase = "down" /\ turn = 0 /\ now = 0
  /\ start = Start /\ champion = Start /\ best = NoCandidate /\ tried = 0
  /\ history = <<>> /\ frames = <<>> /\ receipts = <<>>
  /\ championFile = NoFile /\ ledgerFile = NoFile
-----------------------------------------------------------------------------
(* clamp; before it, a form without the lower bound *)
ClampAbove(x, lo, hi) == Min({hi, x})

Clamp(x, lo, hi) == Min({hi, Max({lo, x})})

(* mutate: one weight moves, and the threshold in half of the cases *)
Mutants(parent) ==
  {[weights |-> [parent.weights EXCEPT ![k] = Clamp(@ + d, Ceilings.weightMin, Ceilings.weightMax)],
    quorumThreshold |-> Clamp(parent.quorumThreshold + q, Ceilings.quorumMin, Ceilings.quorumMax)] :
   k \in Knobs, d \in Jitters, q \in QuorumJitters}

(* evolveMesh, up to its loop: a start that fails a gate throws.           *)
StartTurn ==
  /\ phase = "down" /\ turn < MaxTurns
  /\ championFile.state # "torn"
  /\ start' = IF championFile.state = "absent" THEN Start ELSE championFile.document
  /\ Evaluate(start').hardGatesPass
  /\ champion' = start' /\ best' = NoCandidate /\ tried' = 0
  /\ history' = <<>> /\ frames' = <<>> /\ receipts' = <<>>
  /\ phase' = "evolving" /\ turn' = turn + 1
  /\ UNCHANGED <<now, files>>

(* One more candidate; the first of the best separation is kept, gates or  *)
(* not.                                                                    *)
Try ==
  /\ phase = "evolving" /\ Len(history) < Generations /\ tried < Population
  /\ \E candidate \in Mutants(champion) :
       best' = IF \/ best = NoCandidate
                  \/ Evaluate(candidate).separation > Evaluate(best[1]).separation
               THEN <<candidate>> ELSE best
  /\ tried' = tried + 1
  /\ UNCHANGED <<phase, turn, now, start, champion, history, frames, receipts, files>>

(* the end of a generation *)
Generation ==
  LET decision == PromoteAuthorized(Evaluate(best[1]), Evaluate(champion), TRUE, TRUE)
      record == [generation |-> Len(history) + 1, champion |-> champion',
                 promoted |-> decision.promote]
  IN
  /\ phase = "evolving" /\ tried = Population
  /\ champion' = IF decision.promote THEN best[1] ELSE champion
  /\ history' = Append(history, record)
  /\ frames' = Append(frames, [step |-> record.generation, value |-> record, signer |-> Identity])
  /\ best' = NoCandidate /\ tried' = 0
  /\ UNCHANGED <<phase, turn, now, start, receipts, files>>

Evolved ==
  /\ phase = "evolving" /\ Len(history) = Generations
  /\ phase' = "evolved"
  /\ UNCHANGED <<turn, now, run, files>>

(* a caller exports the receipts of the run *)
Export ==
  /\ phase = "evolved" /\ receipts = <<>>
  /\ receipts' = ExportEvolutionReceipts(history, start, now)
  /\ UNCHANGED <<phase, turn, now, start, champion, best, tried, history, frames, files>>

(* evolve-run writes champion.json, then ledger.json *)
WriteChampion ==
  /\ phase = "evolved"
  /\ phase' = "champion" /\ championFile' = Written(champion)
  /\ UNCHANGED <<turn, now, run, ledgerFile>>

WriteLedger ==
  /\ phase = "champion"
  /\ phase' = "down"
  /\ ledgerFile' = Written([ledger |-> PackageTrajectory(frames), history |-> history])
  /\ UNCHANGED <<turn, now, run, championFile>>

(* The process dies, if in a write then with a part of the file.           *)
Crash ==
  /\ phase # "down" /\ phase' = "down"
  /\ \/ UNCHANGED files
     \/ phase = "evolved" /\ championFile' = Torn /\ UNCHANGED ledgerFile
     \/ phase = "champion" /\ ledgerFile' = Torn /\ UNCHANGED championFile
  /\ UNCHANGED <<turn, now, run>>

Tick ==
  /\ now < MaxTime /\ receipts # <<>> /\ now' = now + 1
  /\ UNCHANGED <<phase, turn, run, files>>

Next ==
  \/ StartTurn \/ Try \/ Generation \/ Evolved \/ Export
  \/ WriteChampion \/ WriteLedger \/ Crash \/ Tick

Spec == Init /\ [][Next]_vars
-----------------------------------------------------------------------------
Promotions == Cardinality(PromotedIn(history))

TypeOK ==
  /\ phase \in {"down", "evolving", "evolved", "champion"}
  /\ turn \in 0 .. MaxTurns /\ now \in 0 .. MaxTime /\ tried \in 0 .. Population
  /\ {start, champion} \subseteq EvolvableParams
  /\ best = NoCandidate \/ best[1] \in EvolvableParams
  /\ championFile.state = "written" => championFile.document \in EvolvableParams
  /\ Len(history) <= Generations /\ Len(frames) = Len(history)

(* However many turns, promotions and crashes: the champion, and the one   *)
(* on disk that the next turn starts from, pass every hard gate, and each  *)
(* promotion of a turn gained the margin (mesh-evolve.ts:99-104, :136-142).*)
ChampionIsLawful ==
  /\ Evaluate(champion).hardGatesPass
  /\ championFile.state = "written" => Evaluate(championFile.document).hardGatesPass
  /\ Evaluate(champion).separation
       >= Evaluate(start).separation + Promotions * PromotionMargin

(* The receipts of a run lead from its start to its champion, one per      *)
(* promotion, each from the champion the one before it made                *)
(* (receipt-export.ts:662-666).                                            *)
ReceiptsChain ==
  LET baseline(i) == receipts[i].body.baselineRef
      candidate(i) == receipts[i].body.candidateId
  IN receipts # <<>> =>
       /\ Len(receipts) = Promotions
       /\ baseline(1) = ContentIdOf(start)
       /\ \A i \in 2 .. Len(receipts) : baseline(i) = candidate(i - 1)
       /\ candidate(Len(receipts)) = ContentIdOf(champion)

(* What a run leaves can be audited: its ledger verifies with its frames   *)
(* and with no part of them, and its receipts verify under its key until   *)
(* they expire, also where the contract's decision is not the mesh's       *)
(* (mesh-evolve.ts:271-277, receipt-export.ts:495-501).                    *)
RunIsAuditable ==
  /\ \A n \in 0 .. Len(frames) :
       VerifyTrajectory(PackageTrajectory(frames), SubSeq(frames, 1, n)) <=> n = Len(frames)
  /\ \A r \in ToSet(receipts) :
       VerifyExportedReceipt(r, {Identity}, now) =
         IF now < r.body.expiresAt THEN "none" ELSE "receipt is expired"
=============================================================================
