SPECIFICATION FairSpec
CONSTANTS
  q1 = q1  t1 = t1  t2 = t2
  c1 = c1  c2 = c2
  r1 = r1  r2 = r2
  Qna = {q1}
  Text = {t1}
  Contents = {c1, c2}
  MaxChunks = 2
  NChunks <- OneAndTwo
  Requests = {r1, r2}
  MaxAttempts = 2
  MaxStalls = 1
  Faults = {"embed", "crash", "stallout", "unmarked", "cut"}
CHECK_DEADLOCK FALSE
INVARIANTS
  TypeOK
  TrainedIsComplete
  FailedMeansExhausted
  CopiesBounded
PROPERTIES
  KeepsPromise
  EverySourceSettles
