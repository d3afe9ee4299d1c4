CONSTANTS
  None = None
  Cameras = {c1, c2}
  Slots = 1
  Children = 2
  Tasks = {t1, t2, t3}
  Requests = {r1}
  HeartbeatTtl = 1
  Allowed = {"slow"}
SPECIFICATION FairSpec
PROPERTIES StopEnds TaskBegins
