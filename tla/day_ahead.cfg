SPECIFICATION Spec
CONSTANTS
  a1 = a1
  s1 = s1
  s2 = s2
  p1 = p1
  NoAppt = NoAppt
  Appt = {a1}
  Process = {p1}
  Slot = {s1, s2}
  Dates <- ThirtyDaysLateOrDue
  LastDay = 2
PROPERTIES DayAheadIsReminded
