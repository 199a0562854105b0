CONSTANTS
  m1 = m1
  m2 = m2
  c1 = c1
  Managers = {m1, m2}
  Clients = {c1, c2}
  ManagerOf <- Colleagues
  Plain = {c1, c2}
  Tasks = {x1}
  Workplans = {w1}
  MaxDay = 2
  MaxVersion <- FewChanges
  Unborn = Unborn
  Deleted = Deleted
SPECIFICATION Spec
INVARIANT PublicPlansHidePrivate
CHECK_DEADLOCK FALSE
