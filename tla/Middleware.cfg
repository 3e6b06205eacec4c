\* Four requests, one of them a preflight and one that panics, on two contexts.
SPECIFICATION FairSpec
CONSTANTS
  r1 = r1
  r2 = r2
  r3 = r3
  r4 = r4
  k1 = k1
  k2 = k2
  NoReq = NoReq
  NoCtx = NoCtx
  Keys = {k1, k2}
  Slots = 1
  Requests = {r1, r2, r3, r4}
  Contexts = {c1, c2}
  Workers = {w1}
  Preflight = {r2}
  MayPanic = {r3}
  ParamsOf <- MCParamsOf
  Sync <- MCSync
  Async <- MCAsync
  QueueCap = 1
  Rate = 1
  Second = 1
  MaxTime = 4
CHECK_DEADLOCK FALSE
INVARIANTS OneResponse OwnContext AsyncOnce SeesOwn TwiceTheRate
PROPERTY TasksRun
