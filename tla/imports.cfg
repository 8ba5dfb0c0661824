CONSTANTS
  roads = roads wells = wells u1 = u1 k1 = k1
  Uploads = {u1}
  Kept = {k1}
  Names = {roads, wells}
  NameOf <- MCNameOf
  Files <- MCFiles
  MaxFeatures = 1
  MaxSize = 1
  MaxPuts = 2
  MaxEdits = 2
  MaxFaults = 1
SPECIFICATION FairSpec
INVARIANTS Sound ListAndMapFollow
PROPERTIES ComesToRest
CHECK_DEADLOCK FALSE
