CONSTANTS
  Workers = {w1, w2}
  Users <- TwoUsers
  Catalogue = {parks, wells, roads}
  SeededLayer = pip
  Names = {folder, river}
  DefaultName = folder
  Orders <- PairOrders
  MaxFavouriteLayers = 1
  MaxFavouriteFolders = 1
  Ops = {"list", "add", "move", "remove", "reorder", "updateFolder", "deleteFolder"}
  MaxRequests = 3
  InitialTables <- JustUsers
  u1 = u1 u2 = u2 parks = parks wells = wells roads = roads pip = pip
SPECIFICATION Spec
SYMMETRY WorkerSymmetry
INVARIANTS StarsHold ListedHasSeed FiledInOwnFolder
PROPERTIES PanelsAreSeparate PatchesDoNotClobber OnlyAskedMoves
CHECK_DEADLOCK FALSE
