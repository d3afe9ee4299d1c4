CONSTANTS
  c1 = c1
  c2 = c2
  None = None
  Students = {s1}
  Cameras = {c1, c2}
  CamType <- EntryAndExit
  Live = {c1, c2}
  LocalDate <- MCLocalDate
  FileLength = 1
  StaleAge = 0
  MaxTime = 2
  MaxSessions = 2
  MaxSightings = 3
SPECIFICATION Spec
INVARIANTS AtMostOneOpen EntriesInOrder
PROPERTY ImplementsPresence
