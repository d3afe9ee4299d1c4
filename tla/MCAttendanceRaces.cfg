CONSTANTS
  c1 = c1
  c2 = c2
  None = None
  Students = {s1}
  Cameras = {c1, c2}
  CamType <- TwoOpeners
  Live = {c1}
  LocalDate <- EarlyMidnight
  FileLength = 1
  StaleAge = 0
  MaxTime = 1
  MaxSessions = 2
  MaxSightings = 4
SPECIFICATION Spec
INVARIANTS TypeOK SessionsConsistent SessionsExplained
PROPERTY HistoryKept
