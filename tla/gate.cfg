SPECIFICATION Spec
CONSTANTS
  None = None
  Bot = bot
  Handlers = {h1, h2}
  Members = {m1, m2}
  MaxChanges = 1
  Faults = {"error"}
SYMMETRY MCSymmetry
INVARIANTS TypeOK ReloadLasts AdminsPass StrangersRefused
