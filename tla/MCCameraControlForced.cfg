CONSTANTS
  None = None
  Cameras = {c1}
  Slots = 1
  Children = 2
  Tasks = {t1, t2}
  Requests = {r1, r2}
  HeartbeatTtl = 1
  Allowed = {"force", "day", "reaper", "broker"}
SPECIFICATION Spec
SYMMETRY Interchangeable
INVARIANTS StateExplained
