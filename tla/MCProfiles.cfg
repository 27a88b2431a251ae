CONSTANTS
  t1 = t1
  t2 = t2
  t3 = t3
  b1 = b1
  b2 = b2
  owner = owner
  executor = executor
  munich = munich
  vienna = vienna
  Tabs = {t1, t2, t3}
  Browsers = {b1, b2}
  BrowserOf <- MCBrowserOf
  Personas = {claudia}
  Facts = {owner, munich, vienna}
  FieldOf <- MCFieldOf
  Role = "role"
  Regions = "regions"
  Single = {"role"}
  Example = {owner}
  KnownFields = 2
  None = none
  MaxProfiles = 2
  MaxRequests = 3
  MaxCrashes = 1
  MaxExpiries = 1
SPECIFICATION Spec
INVARIANTS TypeOK WayBack
PROPERTIES UndoneOnlyByOverlap
SYMMETRY MCSymmetry
VIEW MCView
CHECK_DEADLOCK FALSE
