SPECIFICATION Spec
CONSTANTS
  v1 = v1
  v2 = v2
  i1 = i1
  i2 = i2
  i3 = i3
  i4 = i4
  i5 = i5
  s1 = s1
  s2 = s2
  j1 = j1
  j2 = j2
  p1 = p1
  p2 = p2
  c1 = c1
  c2 = c2
  Visit = {v1, v2}
  BookingDays = {29, 30, 59}
  Cycle = {"DAILY", "MONTHLY"}
  HalfSteps = {2, 3, 24}
  PreviousDays <- Earlier
  LastMonth = 17
  FirstDay = 29
  LastDay = 31
  Item = {i1, i2, i3, i4, i5}
  Key = {1, 2, 3}
  PageSize = 2
  MaxChanges = 2
  Device = {s1, s2}
  Option = {"theme", "fontSize"}
  Value = {"a", "b", "c"}
  Default = "a"
  MaxChoices = 2
  Job = {j1, j2}
  NoJob = NoJob
  Amount = {5}
  Empty = Empty
  MaxOpenings = 2
  AdminPage = {p1, p2}
  Code = {c1, c2}
  NoCode = NoCode
  EnvCode = c1
  MaxCodeChanges = 2
  MaxBlind = 1
CHECK_DEADLOCK FALSE
INVARIANTS BoxesAgree   
PROPERTIES ReportsNeverBringForward ChangeReplacesNamedCode
