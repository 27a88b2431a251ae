CONSTANTS
  t1 = t1
  t2 = t2
  t3 = t3
  b1 = b1
  b2 = b2
  owner = owner
  executor = executor
  munich = munich
  vienna = vienna
  Tabs = {t1}
  Browsers = {b1}
  BrowserOf <- MCBrowserOf
  Personas = {claudia, pawel}
  Facts = {owner, vienna}
  FieldOf <- MCFieldOf
  Role = "role"
  Regions = "regions"
  Single = {"role"}
  Example = {owner, vienna}
  KnownFields = 2
  None = none
  MaxProfiles = 2
  MaxRequests = 4
  MaxCrashes = 0
  MaxExpiries = 1
SPECIFICATION Spec
INVARIANTS WayBackLasts
CHECK_DEADLOCK FALSE
