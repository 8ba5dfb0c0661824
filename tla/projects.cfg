SPECIFICATION SearchSpec
CONSTANTS
  NoValue = "no value"
  Ids = {"p1", "p2"}
  NoProject = "no project"
  Lists <- MCLists
  NoList = NoList
  Menus <- MCMenus
  NoMenu = NoMenu
  Listings <- MCListings
  NoListing = NoListing
  NoFeature = "no feature"
  COLLAPSED_LABELS = 1
  Queries = {"q1", "q2", "q3"}
  NoQuery = "no query"
  Named <- MCNamed
  Found <- MCFound
  NoPlaces = NoPlaces
  NoRow = NoRow
  NoPin = NoPin
  MaxKeys = 4
  MaxMixed = 2
  MaxActs = 3
  MaxTurns = 1
INVARIANTS CountsDeliver MapFollowsCard EyesAreObeyed
PROPERTIES SelectedRowIsSeen FieldMeansWhatItSays ComesToRest
CHECK_DEADLOCK FALSE
