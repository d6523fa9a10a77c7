\* Two replicas, the frames of honest agents, one frame of room behind a gap.
SPECIFICATION Spec
CONSTANTS
  a = a
  b = b
  a0 = a0
  a1 = a1
  a1x = a1x
  a2 = a2
  a3 = a3
  b0 = b0
  b0x = b0x
  b1 = b1
  b2 = b2
  yes = yes
  no = no
  p = p
  q = q
  r1 = r1
  r2 = r2
  Replicas = {r1, r2}
  Agents = {a, b}
  Frames <- HonestFrames
  AgentOf <- MCAgentOf
  StepOf <- MCStepOf
  Rank <- MCRank
  Topic <- MCTopic
  Provenance <- MCProvenance
  TopK = 3
  MaxAccepted = 5
  MaxBuffered = 1
INVARIANTS
  SameFramesSameState
