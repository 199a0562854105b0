CONSTANTS
  Entities = {e1, e2, e3}
SPECIFICATION Spec
INVARIANT FailedIsUnsortable
CHECK_DEADLOCK FALSE
