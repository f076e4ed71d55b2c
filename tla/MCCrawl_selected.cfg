SPECIFICATION Spec
CONSTANTS
  home = home  about = about  aboutSlash = aboutSlash  docs = docs  guide = guide  more = more
  u1 = u1
  Hrefs = {home, about, aboutSlash, docs, guide, more}
  Norm <- Spelling
  Start = home
  Links <- Site
  MaxDepth = 2
  Limit = 4
  CheckEvery = 2
  CountEvery = 2
  Users = {u1}
  MaxPick = 1
  MaxAttempts = 2
  MaxStalls = 1
  Faults = {"call", "crash"}
  MaxFaults = 1
CHECK_DEADLOCK FALSE
INVARIANT SelectedIsTrained
