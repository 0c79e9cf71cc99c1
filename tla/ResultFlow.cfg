\* A tick is 0.3 s: a window of 1.5 s every 0.6 s; packets of one tick.
SPECIFICATION Spec
CONSTANTS
  Entries = {1, 2}
  LegacyEntries = {2}
  QueueMax = 1
  Contents = {k}
  Dur = 1
  Spacing = 5
  Window = 5
  Interval = 2
  Tol = 3
  Expiry = 10
  Slowest = 3
  Jitter = 1
  FeedMax = 1
  HistoryMax = 1
  MaxTime = 8
  MaxDeaths = 1
  MaxQueued = 2
INVARIANTS
  TypeOK
  ReportedOnce
  NothingSwallowed
  EveryPacketInView
  EntriesAccounted
PROPERTY
  ImplementsFeed
\* The clock stops at MaxTime.
CHECK_DEADLOCK FALSE
