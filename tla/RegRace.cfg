CONSTANTS
  MaxEntries = 2
  N = 2
  Values = {0, 1}
  MaxCommands = 2
  MaxInterrupts = 2
SPECIFICATION FairSpec
INVARIANTS TypeOK ReplacesWhatItCompared NothingUnread
PROPERTIES ImplementsFeed Settles
