CONSTANTS
  Workers = {w1}
  Users <- OneUser
  Catalogue = {parks, wells}
  SeededLayer = pip
  Names = {folder}
  DefaultName = folder
  Orders <- AllOrders
  MaxFavouriteLayers = 2
  MaxFavouriteFolders = 2
  Ops = {"list", "add", "remove", "move", "reorder", "createFolder", "updateFolder", "deleteFolder"}
  MaxRequests = 3
  InitialTables <- EmptyFiledFolder
  u1 = u1 u2 = u2 parks = parks wells = wells roads = roads pip = pip
SPECIFICATION Spec
INVARIANT TypeOK
PROPERTY ImplementsPanel
CHECK_DEADLOCK FALSE
