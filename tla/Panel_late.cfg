CONSTANTS
  Attempts = {a1, a2}
  None = None
  Tries = 2
  Behind = 2
  Impatient = FALSE
  MaxQueue = 2
SPECIFICATION Spec
INVARIANT RepliesAreOwn
