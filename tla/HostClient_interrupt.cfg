CONSTANTS
  Regs = {"a", "b", "flag"}
  Values = {0, 1, 2, 9}
  Firmware = {"A", "B"}
  Typed = "A"
  None = None
  DomainOf <- MCDomainOf
  HeldBy <- MCHeldBy
  Initial <- MCInitial
  Refusing = {"flag"}
  Resets = TRUE
  AtPrompt = TRUE
  MaxLines = 2
  MaxCalls = 3
  MaxOpens = 3
  MaxChanges = 1
  MaxPrints = 1
  MaxFlashes = 1
  MaxInterrupts = 1
SPECIFICATION Spec
INVARIANT ReadsAreFresh
CHECK_DEADLOCK FALSE
