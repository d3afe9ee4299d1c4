CONSTANTS
  None = None
  Cameras = {c1, c2}
  Slots = 1
  Children = 3
  Tasks = {t1, t2, t3}
  Requests = {r1, r2}
  HeartbeatTtl = 1
  Allowed = {"crash", "broker"}
SPECIFICATION Spec
SYMMETRY Interchangeable
CONSTRAINT StartsApart
INVARIANTS TypeOK OnePipeline NeverHidden
PROPERTY StopHeard
