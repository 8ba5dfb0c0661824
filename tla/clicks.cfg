CONSTANTS
  w = w h = h
  Warehouse = {w}
  Hosted = {h}
  Imported = {}
  Order <- MCOrder
  Boxes = {p, q}
  NoBox = nobox
  Areas = {a}
  NoArea = noarea
  Keys = {f}
  Switched = {w}
  On0 = {w, h}
  MaxActs = 3
  MaxFound = 2
  MaxPoints = 2
  MaxFaults = 1
SPECIFICATION FairSpec
INVARIANTS FocusIsSound PopupIsOfItsClick
PROPERTIES EffectsAreDue ComesToRest
CHECK_DEADLOCK FALSE
