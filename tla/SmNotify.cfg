SPECIFICATION Spec
CONSTANTS
  Kips = {k1}
  Others = {p1}
  Ids = {n1, n2}
  OnceIds = {n2}
  Cap = 2
  SubMax = 1
  SemMax = 2
  PoolSize = 2
  NoReply = NoReply
INVARIANTS TypeOK SemaphoreCountsPending SuccessReachesAll OncePending
PROPERTIES ImplementsQueues
CHECK_DEADLOCK FALSE
