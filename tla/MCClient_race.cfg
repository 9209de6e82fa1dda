\* Two concurrent WorkOn calls for one torrent.
CONSTANTS
  c1 = c1  c2 = c2  w1 = w1  h1 = h1  h2 = h2
  NoTracker = NoTracker
  ZeroInterval = FALSE
  Callers = {c1, c2}
  Waiters = {w1}
  Hash <- MCSameHash
  WaitHash <- MCWaitHash
  Total = 2
SPECIFICATION Spec
INVARIANT OneDownloaderPerHash
CHECK_DEADLOCK FALSE
