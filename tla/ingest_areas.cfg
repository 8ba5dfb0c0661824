CONSTANTS
  cron = cron hand = hand
  k1 = k1 k2 = k2 k3 = k3
  fine = fine moved = moved coarse = coarse
  Runs = {cron, hand}
  Cron = cron
  NoRun = none
  Keys = {k1, k2, k3}
  Shapes = {fine, moved, coarse}
  NoShape = none
  Vertices <- MCVertices
  RatioOver = 9
  RatioUnder = 10
  NoStyle = "broken"
  PartCount = 1
  Content <- PipContent
  Classes <- PipClasses
  OwnsStyle = FALSE
  Folds = TRUE
  TrackHistory = FALSE
  FirstOffers <- PipOffers
  Extracts = {"two", "redrawn", "centroids", "unclear"}
  Styles = {"lyrx", "other", "broken"}
  HandFlags <- Shrinking
  Faults <- AllFaults
  MaxPublished = 2
  MaxFaults = 1
  MaxHandRuns = 1
  MaxRebuilds = 1
SPECIFICATION Spec
INVARIANT TypeOK
PROPERTIES ImplementsHostedLayer
