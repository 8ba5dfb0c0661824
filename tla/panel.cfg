CONSTANTS
  a = a b = b folder = folder river = river
  Layers = {a, b}
  NoLayer = none
  Restricted = {}
  Names = {folder, river}
  DefaultName = folder
  Layer0 <- MCLayer0
  Folder0 <- MCFolder0
  Shelves0 <- MCShelves0
  LayerCap = 2
  FolderCap = 2
  MaxCalls = 2
  MaxFaults = 2
SPECIFICATION FairSpec
INVARIANTS PanelIsTrue
PROPERTIES ComesToRest
CHECK_DEADLOCK FALSE
