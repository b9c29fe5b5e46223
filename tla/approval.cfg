SPECIFICATION Spec
CONSTANTS
  t1 = t1
  t2 = t2
  a1 = a1
  a2 = a2
  c1 = c1
  r1 = r1
  r2 = r2
  Appt = {a1, a2}
  Technician = {}
  NoTech = NoTech
  Customer = {c1}
  NoCustomer = NoCustomer
  Req = {r1, r2}
  Ops <- ApprovalOps
  BodyStatus = {"CANCELLED"}
  Legacy = {a2}
  MayCrash = FALSE
  MaxVersion = 3
SYMMETRY SlotSymmetry
CHECK_DEADLOCK FALSE
INVARIANTS ShownIsApproved
PROPERTIES ImplementsGate
