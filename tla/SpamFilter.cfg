CONSTANTS
  rude = rude
  bad = bad
  phrase = phrase
  Administrators = {c1, c2}
  Authors = {u1}
  Entries = {e1, e2}
  Words = {rude, bad, broken}
  Malformed = {broken}
  InitialThreshold = 60
  Thresholds = {50, 60, 101}
  Texts = {phrase, symbols}
  Size <- Sizes
  Hits <- Matched
  RoundsUp <- FloatQuotients
  MaxTexts = 2
  MaxVersion = 1
  Unborn = Unborn
  Deleted = Deleted
SPECIFICATION Spec
SYMMETRY BrowserSymmetry
INVARIANTS TypeOK OneConfiguration DuplicatesAreRaces
PROPERTY StricterFreesNothing
CHECK_DEADLOCK FALSE
