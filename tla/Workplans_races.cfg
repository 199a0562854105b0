CONSTANTS
  m1 = m1
  m2 = m2
  c1 = c1
  Managers = {m1, m2}
  Clients = {c1, c2}
  ManagerOf <- Rivals
  Plain = {c1}
  Tasks = {x1}
  Workplans = {w1}
  MaxDay = 3
  MaxVersion <- FewChanges
  Unborn = Unborn
  Deleted = Deleted
SPECIFICATION Spec
INVARIANTS TypeOK OwnTasksOnly PlansValidAsSaved OnlyRacesFail
PROPERTIES NoLostUpdate DeletionIsFinal
CHECK_DEADLOCK FALSE
