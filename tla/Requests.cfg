SPECIFICATION FairSpec
CONSTANTS
  Loads = {l1, l2}
  Lists = {q1}
  Questions = {q1}
  Kinds <- MCKinds
  PoolSize = 2
  Old = Old
INVARIANT TypeOK
INVARIANT NoHalfLoads
INVARIANT AnsweredIsServed
PROPERTY PoisonSticks
PROPERTY OnlyLlmWaits
