SPECIFICATION LifeSpec
CONSTANTS
  a1 = a1
  s1 = s1
  s2 = s2
  p1 = p1
  NoAppt = NoAppt
  Appt = {a1}
  Process = {p1}
  Slot = {s1, s2}
  Dates <- ThirtyDaysLateOrDue
  LastDay = 2
  sigterm = sigterm
  sigint = sigint
  k1 = k1
  k2 = k2
  r1 = r1
  r2 = r2
  Call = {sigterm, sigint}
  Client = {k1, k2}
  Request = {r1, r2}
  MaxLogins = 3
  MaxFailures = 2
  ActiveWhenGivenUp = FALSE
  MaxNotices = 3
  MaxHides = 2
  MaxMessages = 2
CHECK_DEADLOCK FALSE
INVARIANTS NeverRemindedTwice ExitsOnce StopsCleanly SocketSpeaksForSession BannerMatchesLink DownloadedIsOffered
PROPERTIES ListedIsReminded FlagIsReset ShutdownEnds  QueueDrains
