SPECIFICATION Spec
CONSTANTS
  A = A
  B = B
  F = F
  b1 = b1
  b2 = b2
  Voters = {A, B, F}
  Faulty = {F}
  ValidatorSeq <- HeavySeq
  Weight <- HeavyWeight
  Hash = {b1, b2}
  NoHash = NoHash
  Nil = Nil
  Absent = Absent
  NoTime = NoTime
  OptimisticThreshold = 3
  QuorumThreshold = 3
  TimeoutMs = 5000
  FaultyVote = {b1, b2}
  MaxRound = 1
  MaxHeight = 1
INVARIANT Agreement
CHECK_DEADLOCK FALSE
