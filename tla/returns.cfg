SPECIFICATION FairSpec
CONSTANTS
  None = None
  Tracks = {t1, t2}
  MediaTracks = {t2}
  TooLong = {}
  TrackID <- OwnID
  Handlers = {h1, h2}
  MaxQueue = 1
  MaxBatch = 2
  MaxLoop = 1
  Faults = {"message", "assistant", "download", "media"}
  Events = {"vc_ended"}
PROPERTIES HandlersReturn
