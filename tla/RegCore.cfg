SPECIFICATION FairSpec
CONSTANTS
  H8 = 1
  H16 = 2
  H32 = 4
  INF = 2
  MaxEntries = 3
  N = 3
  Table <- SafetyTable
  Commands = {0, 2, 7}
  MaxOps = 2
INVARIANTS TypeOK NoLostChange WireValuesAllowed HookAskedAboutAllowed
PROPERTIES ImplementsFeed PassEnds ImplementsFairFeed
