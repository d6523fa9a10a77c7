\* Two shadows of any of two requests; m1 signs one output per
\* position, m2 may sign two; two takeovers, so that m1 gets the request back.
SPECIFICATION Spec
CONSTANTS
  s1 = s1
  s2 = s2
  m1 = m1
  m2 = m2
  mixed = mixed
  text = text
  e1 = e1
  e2 = e2
  Shadows = {s1, s2}
  Mixers = {m1, m2}
  Domains = {mixed, text}
  TextPrimary = {text}
  Primary <- FromM1
  Forking = {m2}
  Events = {e1, e2}
  MaxOutputs = 2
  MaxTakeovers = 2
SYMMETRY Symmetry
CHECK_DEADLOCK FALSE
INVARIANTS
  TypeOK
  TakeoverSealsHistory
  ReplicasAgree
  SignedHistory
  GrantIsFinal
  OneVoice
