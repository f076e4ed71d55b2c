SPECIFICATION Spec
CONSTANTS
  q1 = q1  t1 = t1  t2 = t2
  c1 = c1  c2 = c2
  r1 = r1  r2 = r2
  Qna = {}
  Text = {t1, t2}
  Contents = {c1, c2}
  MaxChunks = 2
  NChunks <- OneAndTwo
  Requests = {r1, r2}
  MaxAttempts = 2
  MaxStalls = 1
  Faults = {}
CHECK_DEADLOCK FALSE
INVARIANT NoStaleEmbeddings
