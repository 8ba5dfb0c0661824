CONSTANTS
  Threads = {t1, t2}
  NoThread = NoThread
  Tokens = {k1, k2, k3}
  NoToken = NoToken
  Locks = {l1, l2}
  NoLock = NoLock
  Mixes <- Together
  MaxVersions = 2
  MaxFailures = 1
SPECIFICATION ReadsFairSpec
INVARIANTS NoStampede AnswersHold DroppedTokenIsGone
PROPERTIES ReadsComeToRest
CHECK_DEADLOCK FALSE
