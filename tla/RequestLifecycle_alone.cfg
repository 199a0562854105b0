CONSTANTS
  Threads = {t1, t2, t3}
  Controllers = {c1, c2}
  PoolSize = 2
  Overlap = FALSE
  NoThread = NoThread
  NoController = NoController
SPECIFICATION FairSpec
INVARIANTS TypeOK AnswerTellsOutcome WorkDecided NothingLeftBehind HooksRunFresh OwnTransactions
PROPERTIES OnlyOwnerEnds ContractKept
