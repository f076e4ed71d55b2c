SPECIFICATION Spec
CONSTANTS
  None = None
  MaxRequests = 2
  MaxActs = 2
  ClientForms = {"branding", "tenant", "appearance"}
  VisitedTabs = {"general", "ai", "rateLimit", "embed", "branding"}
  Faults = {"cut"}
CHECK_DEADLOCK FALSE
INVARIANTS
  TypeOK
  OwnEditsStand
  
  FormShowsRow
