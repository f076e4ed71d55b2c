SPECIFICATION FairSpec
CONSTANTS
  ann = ann  bob = bob
  None = None
  Emails = {ann}
  MaxRequests = 3
  Faults = {"cut"}
CHECK_DEADLOCK FALSE
INVARIANTS
  TypeOK
  RotationSound
  NewestCodeStands
PROPERTIES
  FormSettles
