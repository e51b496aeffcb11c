SPECIFICATION FairSpec
CONSTANTS
  Tasks = {k1, k2}
  Threads = {t1, t2}
  Outcomes = {ok, err}
  Failed = {err}
  MaxOps = 1
  MaxPools = 2
  Null = Null
INVARIANTS TypeOK FramesAlive OwnOutcome JoinDrains
PROPERTY TasksDone
CHECK_DEADLOCK FALSE
