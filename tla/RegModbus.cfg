SPECIFICATION Spec
CONSTANTS
  H8 = 1
  H16 = 2
  H32 = 8
  INF = 6
  N = 4
  Table <- MCTable
  Addr <- MCAddr
  TOP = 8
  MaxReadQty = 4
  MaxWriteQty = 3
  WordSwap = TRUE
  Boot <- MCBoot
  Samples <- MCSamples
  PDUs <- MCPDUs
  Caps = {5, 8, 13}
INVARIANTS NoUnheardWrite WriteIsPrefix NoHalfValue ReadIsHeld
