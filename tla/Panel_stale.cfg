CONSTANTS
  Attempts = {a1, a2}
  None = None
  Tries = 2
  Behind = 0
  Impatient = TRUE
  MaxQueue = 2
SPECIFICATION Spec
INVARIANT ClosesItsOwn
