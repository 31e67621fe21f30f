SPECIFICATION FairSpec
CONSTANTS
  Missing = Missing
  None = None
  Handlers = {h1, h2}
  Assistant = assistant
  Settings = {assistant, mode}
  Values = {v1, v2}
  Available = {v1}
  Users = {u1, u2}
  Stored <- Leftovers
  MaxWrites = 2
  Faults = {"error", "answer", "restart"}
INVARIANTS TypeOK CacheTellsTruth
PROPERTIES Settles MethodsReturn
