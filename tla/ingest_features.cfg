CONSTANTS
  cron = cron hand = hand
  k1 = k1 k2 = k2 k3 = k3
  fine = fine moved = moved coarse = coarse
  Runs = {cron, hand}
  Cron = cron
  NoRun = none
  Keys = {k1, k2, k3}
  Shapes = {fine, moved, coarse}
  NoShape = none
  Vertices <- MCVertices
  RatioOver = 9
  RatioUnder = 10
  NoStyle = "broken"
  PartCount = 2
  Content <- EaoContent
  Classes <- EaoClasses
  OwnsStyle = TRUE
  Folds = FALSE
  TrackHistory = TRUE
  FirstOffers <- EaoOffers
  Extracts = {"first", "edited", "torn"}
  Styles = {"v1", "v2", "broken"}
  HandFlags <- ForcedOrDry
  Faults <- RecordedFaults
  MaxPublished = 2
  MaxFaults = 1
  MaxHandRuns = 1
  MaxRebuilds = 1
SPECIFICATION FairSpec
INVARIANTS LoadsAlone HistoryExplains
PROPERTIES LoadedIsServed EventuallyServed
