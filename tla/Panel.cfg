CONSTANTS
  Attempts = {a1, a2}
  None = None
  Tries = 2
  Behind = 0
  Impatient = FALSE
  MaxQueue = 2
SPECIFICATION FairSpec
INVARIANTS RepliesAreOwn StatusIsTrue PollLives
PROPERTIES AttemptsEnd
