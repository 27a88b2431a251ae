CONSTANTS
  t1 = t1
  t2 = t2
  t3 = t3
  b1 = b1
  b2 = b2
  owner = owner
  executor = executor
  munich = munich
  vienna = vienna
  Tabs = {t1, t2}
  Browsers = {b1}
  BrowserOf <- MCBrowserOf
  Personas = {claudia}
  Facts = {owner, executor, munich, vienna}
  FieldOf <- MCFieldOf
  Role = "role"
  Regions = "regions"
  Single = {"role"}
  Example = {owner, vienna}
  KnownFields = 2
  None = none
  MaxProfiles = 1
  MaxRequests = 3
  MaxCrashes = 0
  MaxExpiries = 0
SPECIFICATION Spec
PROPERTIES OnlyWhatWasSaid
CHECK_DEADLOCK FALSE
