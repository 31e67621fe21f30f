SPECIFICATION Spec
CONSTANTS
  None = None
  Missing = Missing
  Handlers = {h1}
  Channels = {c1, c2}
  Slots = {s1}
  MaxCalls = 1
  Faults = {"rpc"}
INVARIANTS PlaybackBegins
