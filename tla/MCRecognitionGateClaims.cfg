CONSTANTS
  s1 = s1
  d1 = d1
  d2 = d2
  None = None
  Unknown = Unknown
  Students = {s1}
  FaceLists <- MCFaceLists
  CameraType = "both"
  Children = {d1, d2}
  K = 2
  Window = 1
  DedupWindow = 2
  LogAll = TRUE
  MaxTime = 2
  MaxFrames = 3
SYMMETRY MCSymmetry
SPECIFICATION Spec
INVARIANTS TypeOK RowsEarned OncePerWindow KeysAccounted
