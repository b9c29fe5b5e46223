SPECIFICATION FairSpec
CONSTANTS
  t1 = t1
  t2 = t2
  a1 = a1
  a2 = a2
  c1 = c1
  r1 = r1
  r2 = r2
  Appt = {a1}
  Technician = {t1}
  NoTech = NoTech
  Customer = {c1}
  NoCustomer = NoCustomer
  Req = {r1, r2}
  Ops <- AnswerOps
  BodyStatus = {"CANCELLED"}
  Legacy = {}
  MayCrash = FALSE
  MaxVersion = 2
CHECK_DEADLOCK FALSE
PROPERTIES RequestsAreAnswered
