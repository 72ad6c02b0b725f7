SPECIFICATION FairSpec
CONSTANTS
  Values = {0, 1}
  Sampled = {1, 2}
  None = None
  MaxChanges = 1
  MaxBreaks = 2
  MaxFlashes = 1
  Boot = {0}
  Firmware <- MCFirmware
  CountOf <- MCCountOf
  ShapeOf <- MCShapeOf
  MaxRefusals = 1
  MaxQueue = 2
INVARIANTS NeverMixed AnnouncedIsWhole SyncedMeansSent
PROPERTIES Converges
