CONSTANTS
    a = a
    b = b
    c = c
    d = d
    u = u
    e = e
    Faces = {a, b, c, d, u, e}
    Score <- MCScore
    Central <- MCCentral
    Usable = {a, b, c, d, e}
    MaxFaces = 2
    Source <- MCSource
    Others <- MCOthers
    QueueSize = 2
    BatchSize = 2
    SamplingRate = 2
    LoopMin = 1
    MaxFails = 2
    FirstDelay = 1
    MaxDelay = 2
    Batchable = TRUE
SPECIFICATION FairSpec
CHECK_DEADLOCK FALSE
INVARIANTS InOrder NewestKept OwnFaces
PROPERTIES ReaderEnds
