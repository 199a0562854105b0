CONSTANTS
  n1 = n1
  n2 = n2
  Accounts = {a1, a2, a3}
  NameOf <- OneNewName
  Founders = {a1}
  Unregistered = Unregistered
  Administrators = {a1}
  Sessions = {s1, s2}
  Tabbed = {s2}
  Plain = {s1, s2}
  Threads = {t1, t2}
  Objects = {o1, o2, o3, o4}
  MaxVersion = 1
  MaxManagers = 2
  NoObject = NoObject
SYMMETRY ObjectSymmetry
SPECIFICATION Spec
INVARIANT ActiveRoleIsAppropriate
CHECK_DEADLOCK FALSE
