CONSTANTS
  Entities = {e1, e2, e3, e4}
SPECIFICATION FairSpec
INVARIANTS TypeOK ListIsTheFile SortedIsTopological AllOrNothing
PROPERTIES NeverFallsBack SortingEnds
CHECK_DEADLOCK FALSE
