CONSTANTS
  Threads = {t1, t2}
  Controllers = {c1}
  PoolSize = 2
  Overlap = TRUE
  NoThread = NoThread
  NoController = NoController
SPECIFICATION FairSpec
INVARIANT ActiveStatusIsLive
PROPERTY EventuallyAnswered
