SPECIFICATION Spec
CONSTANTS
  None = None
  Missing = Missing
  Handlers = {h1, h2}
  Channels = {c1, c2, c3}
  Slots = {s1}
  MaxCalls = 1
  Faults = {"rpc"}
SYMMETRY ConnectSymmetry
INVARIANTS TypeOK NoWaiterLeft UpMeansJoined
PROPERTIES PlaySparesCall
