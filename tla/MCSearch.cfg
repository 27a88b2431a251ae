SPECIFICATION Spec
CONSTANTS
  Offers <- MCOffers
  About <- MCAbout
  Crews <- MCCrews
  AboutCrew <- MCAboutCrew
  Trades <- MCTrades
  Docs <- MCDocs
  Statuses <- MCStatuses
  Days <- MCDays
  Regions <- MCRegions
  Nowhere = "nowhere"
  Words <- MCWords
  Inside <- MCInside
  Meets <- MCMeets
  Normal <- MCNormal
  Limit = 2
  Any <- MCAny
  Sentences <- MCSentences
  FacetsOf <- MCFacetsOf
  Spotted <- MCSpotted
  Heard <- MCHeard
  HasModel = TRUE
  DisplayLimit = 1
  MaxChips = 5
  Made <- MCMade
  MaxPages = 2
  MaxEdits = 1
CHECK_DEADLOCK FALSE
INVARIANTS
  TypeOK
  ExclusionsHold
  WideningIsHonest
  NamesWhatMattered
  NoDeadEnd
  ChipsLeadSomewhere
