SPECIFICATION KeptSpec
CONSTANTS
  ItemTo <- MCItemTo
  NoName = ""
  cleanupRowLimit = 1
  MaxRemovals <- MCRemovals
  MaxHistoryFaults <- MCFaults

  RingItemTo <- MCRingItemTo
  Anyone = ""
  Deleters <- MCDeleters
  initialAutoSize = 2
  Lengths = {0, 1, 3}
  MaxResizes = 1
  MaxDeletions = 1

  Readers = {p, o}
  HistoryOpers = {o}
  AccountBox = box
  ChathistoryMax = 2
  ExpireTimes = {0, 2}
  GracePeriods = {1}
  MaxTime = 4

  MetaKeys = {"url", "note"}
  MaxKeys = 1
  Endpoints = {"phone"}
  MaxSubscriptions = 1
  PushKeys = {"old", "new"}
  Unset = "unset"
  PushQueueLength = 1
  MaxStamp = 1
  MaxDataOps = 3
  MaxStops = 1
INVARIANTS
  HistoryExact
  RingExact
  BufferAnswers
  ReadersSeeTheirOwn
  
CHECK_DEADLOCK FALSE
