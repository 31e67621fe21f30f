SPECIFICATION Spec
CONSTANTS
  Missing = Missing
  None = None
  Handlers = {h1}
  Assistant = assistant
  Settings = {assistant, mode}
  Values = {v1, v2}
  Available = {v1, v2}
  Users = {u1}
  Stored <- Leftovers
  MaxWrites = 2
  Faults = {}
PROPERTIES AssignmentsKept
