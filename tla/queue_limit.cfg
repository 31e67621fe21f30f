SPECIFICATION Spec
CONSTANTS
  None = None
  Tracks = {t1, t2, t3, t4}
  MediaTracks = {}
  TooLong = {}
  TrackID <- OwnID
  Handlers = {h1, h2}
  MaxQueue = 1
  MaxBatch = 1
  MaxLoop = 1
  Faults = {}
  Events = {}
SYMMETRY TrackSymmetry
INVARIANTS QueueBound
