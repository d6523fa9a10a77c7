\* Two turns of two generations with two candidates each.
SPECIFICATION Spec
CONSTANTS
  Identity = "mesh"
  TtlMs = 1
  Jitters <- MCJitters
  QuorumJitters <- MCQuorumJitters
  Population = 2
  Generations = 2
  MaxTurns = 2
  MaxTime = 1
INVARIANTS
  TypeOK
  ChampionIsLawful
  ReceiptsChain
  RunIsAuditable
CHECK_DEADLOCK FALSE
