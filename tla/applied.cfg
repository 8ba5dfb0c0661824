CONSTANTS
  wells = wells parks = parks areas = areas
  Layers = {wells, parks}
  Hosted = {areas}
  Starred = {areas}
  Percents = {100, 40}
  Default = 100
  MaxVisible = 2
  ServerCap = 2
  Stored <- MCStored
  MaxCalls = 3
  MaxDrags = 2
  MaxFaults = 1
SPECIFICATION FairSpec
INVARIANTS PanelIsTrue SliderIsStored
PROPERTIES ComesToRest
CHECK_DEADLOCK FALSE
