SPECIFICATION CustomersSpec
CONSTANTS
  c1 = c1
  c2 = c2
  p1 = p1
  p2 = p2
  r1 = r1
  r2 = r2
  Customer = {c1, c2}
  NoCustomer = NoCustomer
  Phone = {p1, p2}
  NoPhone = NoPhone
  Omitted = Omitted
  Req = {r1, r2}
  NewBodies <- FormCreates
  Edits <- AllEdits
  MaxVersion = 2
SYMMETRY Symmetry
CHECK_DEADLOCK FALSE
INVARIANTS RowsAreSound ChangesAreLogged
PROPERTIES FormSeesEarlierEdits RemoveAllIsExact
