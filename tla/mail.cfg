SPECIFICATION Spec
CONSTANTS
  a1 = a1
  t1 = t1
  t2 = t2
  m1 = m1
  m2 = m2
  d1 = d1
  d2 = d2
  o1 = o1
  o2 = o2
  User = {a1, t1, t2}
  Viewer = {t1}
  Role = {"ADMIN", "TECHNICIAN"}
  RoleOf <- Departments
  Message = {m1, m2}
  MayCrash = TRUE
  Report = {d1, d2}
  Office = {o1, o2}
  MaxLog = 2
SYMMETRY Symmetry
CHECK_DEADLOCK FALSE
INVARIANTS ReadWasSeen  
PROPERTIES ConversationGone DeletedAsReviewed
