SPECIFICATION Spec
CONSTANTS
  r1 = r1
  r2 = r2
  q1 = q1
  q2 = q2
  q3 = q3
  crew = crew
  perspective = perspective
  Requests <- TwoRequests
  Wrap = 3
  SeedIds <- MCSeedIds
  DemoIds <- MCDemoIds
  CrewIds <- MCCrewIds
  Static <- MCStatic
  Statuses <- MCStatuses
  Queries <- ThreeQueries
  OldQueries <- MCOldQueries
  Keep = 2
  MaxNow = 1
  MaxWork = 2
  MaxCrashes = 1
  MaxFaults = 1
SYMMETRY Symmetry
INVARIANTS
  TypeOK
  RecordedIsDone
  OpensUnlessBroken
  IndexFollowsTable
  CardsAreNeverMistaken
  MovesAreWhole
  DemoComplete
  SavedAreTidy
PROPERTIES
  StartKeepsHands
  NewestSearchesStay
