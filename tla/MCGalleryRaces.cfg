CONSTANTS
  a = a
  b = b
  c = c
  n1 = n1
  n2 = n2
  n3 = n3
  Requests = {r1, r2}
  Pipelines = {p1}
  RegNos = {n1, n2, n3}
  Bad = Bad
  Faces = {a, b, c}
  NoFace = NoFace
  Sim <- Alikeness
  Threshold = 40
  Margin = 10
  DuplicateSim = 90
  Legacy <- MCLegacy
  PhotoSets <- MCPhotoSets
  Imports <- MCImports
  MinPhotos = 2
  MaxPhotos = 2
  MaxStudents = 3
  MaxRequests = 2
  MaxKey = 2
SPECIFICATION Spec
SYMMETRY MCSymmetry
CHECK_DEADLOCK FALSE
INVARIANTS IndexFresh DuplicatesExplained PhotosAgree LeftBehind OwnFaceMatched
