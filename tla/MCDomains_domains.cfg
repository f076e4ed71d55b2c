SPECIFICATION Spec
CONSTANTS
  c1 = c1  c2 = c2  m1 = m1
  None = None
  CustomNames = {c1, c2}
  EmailNames = {m1}
  Registered = {c1, c2}
  MaxRequests = 3
  MaxColleague = 1
  Faults = {"cut"}
SYMMETRY Symmetry
CHECK_DEADLOCK FALSE
INVARIANTS
  TypeOK
  PointerSound
  VerifiedIsActive
  ListFresh
