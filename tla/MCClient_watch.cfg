\* watch's wg.Wait after Close.
CONSTANTS
  c1 = c1  c2 = c2  w1 = w1  h1 = h1  h2 = h2
  NoTracker = NoTracker
  ZeroInterval = FALSE
  Callers = {c1, c2}
  Waiters = {w1}
  Hash <- MCHash
  WaitHash <- MCWaitHash
  Total = 2
SPECIFICATION LiveSpec
PROPERTY WatchWaitReturns
CHECK_DEADLOCK FALSE
