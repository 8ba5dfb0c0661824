CONSTANTS
  p = p q = q
  Projects = {p, q}
  Open = p
  Floors <- MCFloors
  None = none
  MaxActs = 3
  MaxMoves = 1
SPECIFICATION ViewFairSpec
INVARIANTS DrawsWhatIsWanted StackHolds
PROPERTIES SurvivesBasemap WorksRun
CHECK_DEADLOCK FALSE
