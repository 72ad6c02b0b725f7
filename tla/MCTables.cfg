SPECIFICATION Spec
CONSTANTS
  H8 = 2
  H16 = 4
  H32 = 8
  INF = 6
  Count = 3
  Top = 7
  MaxQty = 5
  MaxText = 5
INVARIANTS ChecksMatchMeaning StoredIsLoaded TextMeansItsNumber ShownIsTaken InitAcceptsWellMapped CoveredIsWhole OneOwnerPerTopic AnnouncesWhatItTook GeneratedIsAccepted
CHECK_DEADLOCK FALSE
