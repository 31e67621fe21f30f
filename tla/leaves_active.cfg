SPECIFICATION Spec
CONSTANTS
  None = None
  Handlers = {h1}
  MaxUpdates = 2
  Faults = {"error"}
PROPERTIES ActiveSpared
